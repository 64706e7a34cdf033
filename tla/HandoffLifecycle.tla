-------------------------- MODULE HandoffLifecycle --------------------------
(***************************************************************************)
(* The service as an implementation of Lifecycle: the refinement mapping.   *)
(***************************************************************************)
EXTENDS Handoff

\* What the lifecycle handlers read of an artifact: not where its copies are.
Retained(a) == IF a = None THEN None ELSE [a EXCEPT !.locations = <<>>]

AsLifecycle ==
    INSTANCE Lifecycle WITH artifacts <- [k \in ArtifactKey |-> Retained(artifacts[k])],
                            Offers <- {Retained(a) : a \in Offers}

(***************************************************************************)
(* The service implements Lifecycle: seen through what the lifecycle        *)
(* handlers read, every step of a catalog or resolve request (digest races, *)
(* node names filled in by reads, restarts) is an artifact committed or     *)
(* nothing at all, so what Lifecycle guarantees holds of the whole service. *)
(***************************************************************************)
ImplementsLifecycle == AsLifecycle!LifecycleSpec

=============================================================================
