---------------------------- MODULE MCPlacement -----------------------------
(* Instances of Placement for TLC: every sequence of at most two sources.   *)
EXTENDS Placement

CONSTANTS r1, a1, o1, d1, n1, n2, p1, u1, u2, u3, u4, u5, u6, u7

Plain(h) == [text |-> "plain", http |-> TRUE, user |-> FALSE, host |-> h, port |-> TRUE,
             query |-> FALSE]

\* An allowed host, one that is not on the list, a private address that is on it, a URL
\* of only a port, and URIs that the checks take for different things.
MCParsed ==
    [u \in URIs |->
        CASE u = u1 -> Plain("cache.lab")
          [] u = u2 -> Plain("elsewhere")
          [] u = u3 -> Plain("10.0.0.7")
          [] u = u4 -> Plain("")
          [] u = u5 -> [Plain("cache.lab") EXCEPT !.text = "padded"]
          [] u = u6 -> [Plain("") EXCEPT !.text = "blank", !.http = FALSE, !.port = FALSE]
          [] u = u7 -> [Plain("cache.lab") EXCEPT !.query = TRUE]]

Key == [run |-> r1, attempt |-> a1, output |-> o1]

\* The locations that can be registered.
Locations == {l \in Location : ValidateArtifactLocation(l)}

Produced(d, node, uri, locs) ==
    [digest |-> d, node |-> node, uri |-> uri, locations |-> locs, size |-> 0]

Stored(d, l, st) ==
    [owner |-> Key, backend |-> DefaultBackend(l), digest |-> d, state |-> st, loc |-> l]

\* No source is stored: the ones derived from the artifact count.
NoneStored ==
    {s \in {[key |-> Key, art |-> Produced(d, node, uri, <<l>>), listed |-> <<>>] :
                d \in DigestValue, node \in {"", n1}, uri \in URIs \cup {""}, l \in Locations} :
        ValidateArtifactForRegistration(s.art)}

StoredSources == {Stored(d1, l, st) : l \in Locations, st \in {"ready", "stale"}}

\* Stored sources carry the artifact's digest (SourceDigestAgrees of Catalog).
WithSources ==
    {[key |-> Key, art |-> Produced(d1, node, "", <<>>), listed |-> <<s, t>>] :
        node \in {"", n1}, s \in StoredSources, t \in StoredSources}
    \cup {[key |-> Key, art |-> Produced(d1, node, "", <<>>), listed |-> <<s>>] :
        node \in {"", n1}, s \in StoredSources}

MCSituations == NoneStored \cup WithSources
=============================================================================
