----------------------------- MODULE MCHandoff ------------------------------
(* Instances of Handoff for TLC.                                            *)
EXTENDS HandoffLifecycle

CONSTANTS r1, a1, o1, d1, n1, p1

\* No client sends a URI.
MCParsed == <<>>

Key == [run |-> r1, attempt |-> a1, output |-> o1]

\* The node name of the location is filled in when sources are derived.
Produced(d) ==
    [digest |-> d, node |-> n1, uri |-> "", size |-> 1,
     locations |-> <<[kind |-> "node_local", node |-> "", path |-> p1]>>]

MCOneOffer == {Produced(d1)}

\* A registration without a digest that a later one completes.
MCOffers == {Produced(""), Produced(d1)}

MCSourceOffers == {}

MCOneBinding == {[key |-> Key, policy |-> "SameNodeOnly", expected |-> d1]}
=============================================================================
