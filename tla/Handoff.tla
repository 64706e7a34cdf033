------------------------------- MODULE Handoff -------------------------------
(***************************************************************************)
(* The resolver service: catalog requests, lifecycle requests and           *)
(* ResolveHandoff requests interleave at every store call over one store.   *)
(* ResolveHandoff itself makes up to three reads, of a lifecycle, an        *)
(* artifact and its sources (or its producer's terminal), with no snapshot  *)
(* across them.  hr[w] holds the locals of worker w's request, and its last *)
(* answer until its next request.                                           *)
(***************************************************************************)
EXTENDS Lifecycle, Catalog, Resolution

CONSTANTS
    ResolveWorkers,    \* the goroutines that serve ResolveHandoff
    Bindings,          \* the bindings consumers resolve
    Targets            \* the target nodes they name ("" while planning)

ASSUME HandoffAssumption ==
    /\ Bindings \subseteq Binding
    /\ Targets \subseteq Nodes \cup {""}

VARIABLE hr

handoffVars == <<artifacts, terminals, lifecycles, now, gcBacklogBytes, lc, sources, cat, hr>>

ResolveRequest ==
    [pc : {"idle", "getArtifact", "getTerminal", "listSources"},
     binding : Bindings \cup {None}, target : Targets \cup {""},
     art : Artifact \cup {None}, answer : ResolvedHandoff \cup {None}]

NoResolve == [pc |-> "idle", binding |-> None, target |-> "", art |-> None, answer |-> None]

\* The type of the resolve requests.
HandoffTypeOK == hr \in [ResolveWorkers -> ResolveRequest]

HandoffInit ==
    /\ LifecycleInit
    /\ CatalogInit
    /\ hr = [w \in ResolveWorkers |-> NoResolve]

storeVars == <<artifacts, terminals, lifecycles, now, gcBacklogBytes, lc, sources, cat>>

-----------------------------------------------------------------------------
(* ResolveHandoff.                                                          *)

AnswerResolve(w, r) ==
    hr' = [hr EXCEPT ![w] = [NoResolve EXCEPT !.binding = hr[w].binding, !.answer = r]]

\* The GC gate is the first read.
ResolveHandoff(w, b, t) ==
    /\ hr[w].pc = "idle"
    /\ LET life == lifecycles[b.key.run]
       IN  IF life # None /\ life.gcEligible
           THEN hr' = [hr EXCEPT ![w] = [NoResolve EXCEPT !.binding = b,
                                                          !.answer = ResolveExpired]]
           ELSE hr' = [hr EXCEPT ![w] = [NoResolve EXCEPT !.pc = "getArtifact",
                                                          !.binding = b, !.target = t]]
    /\ UNCHANGED storeVars

ResolveGetArtifact(w) ==
    /\ hr[w].pc = "getArtifact"
    /\ LET a == artifacts[hr[w].binding.key]
       IN  CASE a = None -> hr' = [hr EXCEPT ![w].pc = "getTerminal"]
             [] a # None /\ DigestMismatch(hr[w].binding, a) -> AnswerResolve(w, NoPlan("DIGEST_MISMATCH"))
             [] OTHER -> hr' = [hr EXCEPT ![w].pc = "listSources", ![w].art = a]
    /\ UNCHANGED storeVars

ResolveGetTerminal(w) ==
    /\ hr[w].pc = "getTerminal"
    /\ AnswerResolve(w, ResolveUnregistered(terminals[AttemptOf(hr[w].binding.key)]))
    /\ UNCHANGED storeVars

\* The store lists rows in an order of its own that never changes.
ListOrder(ids) == CHOOSE order \in [1 .. Cardinality(ids) -> ids] : IsInjective(order)

\* Where no source is stored the sources are derived from the artifact read before, which fills its node names.
ResolveListSources(w) ==
    /\ hr[w].pc = "listSources"
    /\ LET b      == hr[w].binding
           ids    == ListOrder(ListArtifactSources(artifacts, sources, b.key))
           listed == [i \in DOMAIN ids |-> sources[ids[i]]]
       IN  /\ AnswerResolve(w, ResolveRegistered(b, hr[w].target, hr[w].art,
                                   effectiveArtifactSources(b.key, hr[w].art, listed)))
           /\ artifacts' = IF listed # <<>> THEN artifacts
                           ELSE FillNodeNames(artifacts, b.key, hr[w].art)
    /\ UNCHANGED <<terminals, lifecycles, now, gcBacklogBytes, lc, sources, cat>>

ResolveStoreError(w) ==
    /\ Faults
    /\ hr[w].pc # "idle"
    /\ hr' = [hr EXCEPT ![w] = NoResolve]
    /\ UNCHANGED storeVars

-----------------------------------------------------------------------------

Restart ==
    /\ LifecycleRestart
    /\ CatalogRestart
    /\ hr' = [w \in ResolveWorkers |-> NoResolve]

LifecycleRequests ==
    /\ LifecycleHandlers
    /\ UNCHANGED <<sources, cat, hr>>

CatalogRequests ==
    /\ CatalogHandlers
    /\ UNCHANGED <<terminals, lifecycles, now, gcBacklogBytes, lc, hr>>

ResolveRequests ==
    \E w \in ResolveWorkers :
        \/ \E b \in Bindings, t \in Targets : ResolveHandoff(w, b, t)
        \/ ResolveGetArtifact(w)
        \/ ResolveGetTerminal(w)
        \/ ResolveListSources(w)
        \/ ResolveStoreError(w)

HandoffNext == LifecycleRequests \/ CatalogRequests \/ ResolveRequests \/ Restart

HandoffSpec == HandoffInit /\ [][HandoffNext]_handoffVars

-----------------------------------------------------------------------------
(* Properties.                                                              *)

Answered(w, status) == hr[w].answer # None /\ hr[w].answer.status = status

(***************************************************************************)
(* What an answer says about a producer or its bytes stays true, though     *)
(* other requests went on while it was computed from three separate reads   *)
(* (ResolveHandoffCore): a RESOLVED answer names the digest the artifact    *)
(* has and keeps; PRODUCER_FAILED names an attempt that failed and stays    *)
(* failed; GC_EXPIRED names a Run that has artifacts and terminals.         *)
(***************************************************************************)
AnswersStayTrue ==
    \A w \in ResolveWorkers :
        LET k == hr[w].binding.key
        IN  /\ Answered(w, "RESOLVED") =>
                  /\ artifacts[k] # None
                  /\ \A i \in DOMAIN hr[w].answer.candidates :
                        hr[w].answer.candidates[i].digest = artifacts[k].digest
            /\ Answered(w, "PRODUCER_FAILED") => terminals[AttemptOf(k)] \in {"Failed", "Canceled"}
            /\ Answered(w, "GC_EXPIRED") =>
                  /\ ListArtifactsByRun(artifacts, k.run) # {}
                  /\ ListNodeTerminalsByRun(terminals, k.run) # {}
=============================================================================
