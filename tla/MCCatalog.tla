----------------------------- MODULE MCCatalog ------------------------------
(* Instances of Catalog for TLC.                                            *)
EXTENDS Catalog, TLC

CONSTANTS r1, a1, o1, o2, d1, d2, n1, p1, u1

MCParsed == [u \in URIs |-> [text |-> "plain", http |-> TRUE, user |-> FALSE,
                             host |-> "cache.lab", port |-> TRUE, query |-> FALSE]]

Key(o) == [run |-> r1, attempt |-> a1, output |-> o]

Local(n) == [kind |-> "node_local", node |-> n, path |-> p1]

Remote == [kind |-> "http", uri |-> u1]

Produced(d, locs) == [digest |-> d, node |-> n1, uri |-> "", locations |-> locs, size |-> 0]

\* Registrations that race, without a digest and with two, of a location whose node
\* name the resolver fills in; and one that fails its validation.
MCOffers == {Produced(d, <<Local("")>>) : d \in {"", d1, d2}}
                \cup {Produced(d1, <<[kind |-> "malformed"]>>)}

MCOneOffer == {Produced(d1, <<Local(n1)>>)}

Offer(id, b, l) == [id |-> id, backend |-> b, digest |-> "", state |-> "", loc |-> l]

\* A source that names the ID under which o1 registers its local copy; a source of an
\* unknown backend, and one in an unknown state.
MCSourceOffers ==
    {Offer(<<Key(o1), "node-local-default", Local("")>>, "legacy-http", Remote),
     Offer(None, "other", Remote),
     [Offer(None, "legacy-http", Remote) EXCEPT !.state = "unknown"]}

MCNoSourceOffers == {}

MCSymmetry == Permutations(CatalogWorkers)
=============================================================================
