---------------------------- MODULE MCLifecycle -----------------------------
(* Instances of Lifecycle for TLC.                                          *)
EXTENDS Lifecycle, TLC

CONSTANTS d1

\* No client sends a URI.
MCParsed == <<>>

\* An artifact as the lifecycle handlers see it: digest and size.
Sized(d, n) == [digest |-> d, node |-> "", uri |-> "", locations |-> <<>>, size |-> n]

\* Two artifacts of this size overflow an int64 of range -4 .. 3.
MCOneOffer == {Sized(d1, 3)}

\* Workers are interchangeable, and so are Runs and Outputs.
MCSymmetry == Permutations(LifecycleWorkers) \cup Permutations(Runs) \cup Permutations(Outputs)
=============================================================================
