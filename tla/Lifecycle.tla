------------------------------ MODULE Lifecycle ------------------------------
(***************************************************************************)
(* Terminals, retention and GC eligibility of Runs: NotifyNodeTerminal,     *)
(* FinalizeRun and EvaluateRunGC of pkg/resolver/service.go.                *)
(*                                                                          *)
(* FinalizeRun and EvaluateRunGC read the Run's lifecycle, read the Run's   *)
(* artifacts and terminals in two further store calls, and write the whole  *)
(* lifecycle back.  No lock spans the calls, so the handlers interleave at  *)
(* every store call; lc[w] holds the locals of worker w's request.  An      *)
(* action is the code from one store call up to the next.                   *)
(***************************************************************************)
EXTENDS Inventory

CONSTANTS
    LifecycleWorkers,  \* the goroutines that serve lifecycle requests
    MinRetention,      \* Service.minRetention, in ticks
    MaxTime            \* bound on the clock

ASSUME LifecycleAssumption ==
    /\ MinRetention \in Nat
    /\ MaxTime \in Nat

VARIABLES
    terminals, lifecycles,              \* tables of the store
    now,                                \* the clock s.now() reads
    gcBacklogBytes,                     \* the gauge ah_gc_backlog_bytes
    lc                                  \* requests in flight

lifecycleVars == <<artifacts, terminals, lifecycles, now, gcBacklogBytes, lc>>

Time == Nat \cup {None}

BlockedReason == {"", "gc_not_evaluated", "run_not_finalized", "terminal_nodes_missing",
                  "no_retained_artifacts", "retention_window_active"}

RunLifecycle ==
    [finalized : BOOLEAN, finalizedAt : Time, retentionUntil : Time,
     gcEligible : BOOLEAN, gcEligibleAt : Time, gcBlockedReason : BlockedReason,
     terminalNodeCount : Nat, stateCount : [TerminalState -> Nat],
     retainedArtifactCount : Nat, retainedArtifactBytes : Int]

ASSUME NoLifecycleAssumption == None \notin RunLifecycle

\* domain.RunLifecycle{RunID: runID}
NewLifecycle ==
    [finalized |-> FALSE, finalizedAt |-> None, retentionUntil |-> None,
     gcEligible |-> FALSE, gcEligibleAt |-> None, gcBlockedReason |-> "",
     terminalNodeCount |-> 0, stateCount |-> [s \in TerminalState |-> 0],
     retainedArtifactCount |-> 0, retainedArtifactBytes |-> 0]

LifecyclePC == {"idle", "getLifecycle", "listArtifacts", "listTerminals", "decide", "upsert"}

LifecycleRequest ==
    [pc : LifecyclePC, op : {"none", "finalize", "evaluate"}, run : Runs \cup {None},
     at : Nat, life : RunLifecycle]

IdleRequest == [pc |-> "idle", op |-> "none", run |-> None, at |-> 0, life |-> NewLifecycle]

\* The types of the tables, the clock, the gauge and the requests.
LifecycleTypeOK ==
    /\ artifacts \in [ArtifactKey -> Artifact \cup {None}]
    /\ terminals \in [NodeAttemptKey -> TerminalState \cup {None}]
    /\ lifecycles \in [Runs -> RunLifecycle \cup {None}]
    /\ now \in Nat
    /\ gcBacklogBytes \in Int
    /\ lc \in [LifecycleWorkers -> LifecycleRequest]
    /\ \A w \in LifecycleWorkers : lc[w].pc # "idle" => lc[w].run \in Runs

LifecycleInit ==
    /\ artifacts = EmptyTable(ArtifactKey)
    /\ terminals = EmptyTable(NodeAttemptKey)
    /\ lifecycles = EmptyTable(Runs)
    /\ now = 0
    /\ gcBacklogBytes = 0
    /\ lc = [w \in LifecycleWorkers |-> IdleRequest]

-----------------------------------------------------------------------------
(* The snapshot.  Byte counts are int64; only positive sizes are added.     *)

WrapInt64(n) ==
    IF n <= MaxInt64 THEN n
    ELSE ((n + MaxInt64 + 1) % (2 * (MaxInt64 + 1))) - (MaxInt64 + 1)

RetainedBytes(keys) ==
    WrapInt64(Cardinality({kb \in keys \X (1 .. MaxInt64) : kb[2] <= artifacts[kb[1]].size}))

\* Mutant: the artifact count is one too small.
ListArtifactsOffByOne(w) ==
    /\ lc[w].pc = "listArtifacts"
    /\ LET rows == ListArtifactsByRun(artifacts, lc[w].run)
       IN  lc' = [lc EXCEPT ![w].pc = "listTerminals",
                            ![w].life.retainedArtifactCount = Cardinality(rows) - 1,
                            ![w].life.retainedArtifactBytes = RetainedBytes(rows)]
    /\ UNCHANGED <<artifacts, terminals, lifecycles, now, gcBacklogBytes>>

ListArtifacts(w) ==
    /\ lc[w].pc = "listArtifacts"
    /\ LET rows == ListArtifactsByRun(artifacts, lc[w].run)
       IN  lc' = [lc EXCEPT ![w].pc = "listTerminals",
                            ![w].life.retainedArtifactCount = Cardinality(rows),
                            ![w].life.retainedArtifactBytes = RetainedBytes(rows)]
    /\ UNCHANGED <<artifacts, terminals, lifecycles, now, gcBacklogBytes>>

\* Mutant: the terminal count is not reset before counting.
ListTerminalsNoReset(w) ==
    /\ lc[w].pc = "listTerminals"
    /\ LET rows == ListNodeTerminalsByRun(terminals, lc[w].run)
       IN  lc' = [lc EXCEPT ![w].pc = "decide",
                            ![w].life.terminalNodeCount = @ + Cardinality(rows)]
    /\ UNCHANGED <<artifacts, terminals, lifecycles, now, gcBacklogBytes>>

ListTerminals(w) ==
    /\ lc[w].pc = "listTerminals"
    /\ LET rows == ListNodeTerminalsByRun(terminals, lc[w].run)
       IN  lc' = [lc EXCEPT ![w].pc = "decide",
                            ![w].life.terminalNodeCount = Cardinality(rows),
                            ![w].life.stateCount =
                                [s \in TerminalState |-> Cardinality({n \in rows : terminals[n] = s})]]
    /\ UNCHANGED <<artifacts, terminals, lifecycles, now, gcBacklogBytes>>

-----------------------------------------------------------------------------
(* FinalizeRun: take the time, read the lifecycle, snapshot, write back.    *)

FinalizeRun(w, r) ==
    /\ lc[w].pc = "idle"
    /\ lc' = [lc EXCEPT ![w] = [pc |-> "getLifecycle", op |-> "finalize", run |-> r,
                                at |-> now, life |-> NewLifecycle]]
    /\ UNCHANGED <<artifacts, terminals, lifecycles, now, gcBacklogBytes>>

StoredLifecycle(r) == IF lifecycles[r] = None THEN NewLifecycle ELSE lifecycles[r]

\* Mutant: FinalizeRun has no early return for a finalized Run.
FinalizeAgain(w) ==
    /\ lc[w].pc = "getLifecycle"
    /\ lc' = [lc EXCEPT ![w].pc = "listArtifacts", ![w].life = StoredLifecycle(lc[w].run)]
    /\ UNCHANGED <<artifacts, terminals, lifecycles, now, gcBacklogBytes>>

\* A finalized Run is left alone: the request returns without a write.
FinalizeGetLifecycle(w) ==
    /\ lc[w].pc = "getLifecycle"
    /\ LET life == StoredLifecycle(lc[w].run)
       IN  \/ /\ life.finalized
              /\ lc' = [lc EXCEPT ![w] = IdleRequest]
           \/ /\ ~life.finalized
              /\ lc' = [lc EXCEPT ![w].pc = "listArtifacts", ![w].life = life]
    /\ UNCHANGED <<artifacts, terminals, lifecycles, now, gcBacklogBytes>>

Finalized(life, at) ==
    [life EXCEPT !.finalized = TRUE, !.finalizedAt = at, !.retentionUntil = at + MinRetention,
                 !.gcEligible = FALSE, !.gcEligibleAt = None,
                 !.gcBlockedReason = "gc_not_evaluated"]

FinalizeDecide(w) ==
    /\ lc[w].pc = "decide"
    /\ lc[w].op = "finalize"
    /\ lc' = [lc EXCEPT ![w].pc = "upsert", ![w].at = 0,
                        ![w].life = Finalized(lc[w].life, lc[w].at)]
    /\ gcBacklogBytes' = 0
    /\ UNCHANGED <<artifacts, terminals, lifecycles, now>>

-----------------------------------------------------------------------------
(* EvaluateRunGC: read the lifecycle, snapshot, decide, write back.         *)

EvaluateRunGC(w, r) ==
    /\ lc[w].pc = "idle"
    /\ lc' = [lc EXCEPT ![w] = [pc |-> "listArtifacts", op |-> "evaluate", run |-> r,
                                at |-> 0, life |-> StoredLifecycle(r)]]
    /\ UNCHANGED <<artifacts, terminals, lifecycles, now, gcBacklogBytes>>

\* Mutant: the retention window is not checked.
GCBlockedIgnoringWindow(life) ==
    CASE ~life.finalized -> "run_not_finalized"
      [] life.finalized /\ life.terminalNodeCount = 0 -> "terminal_nodes_missing"
      [] life.finalized /\ life.terminalNodeCount # 0 /\ life.retainedArtifactCount = 0 ->
            "no_retained_artifacts"
      [] OTHER -> ""

\* The first reason of the switch that applies; "" when the Run is eligible.
GCBlockedReason(life) ==
    CASE ~life.finalized -> "run_not_finalized"
      [] life.finalized /\ life.terminalNodeCount = 0 -> "terminal_nodes_missing"
      [] life.finalized /\ life.terminalNodeCount # 0 /\ life.retainedArtifactCount = 0 ->
            "no_retained_artifacts"
      [] OTHER -> IF life.retentionUntil # None /\ now < life.retentionUntil
                  THEN "retention_window_active" ELSE ""

\* Mutant: only the evaluation that lifts a block grants eligibility.
EvaluatedOnce(life) ==
    LET reason == GCBlockedReason(life)
    IN  [life EXCEPT !.gcEligible = (reason = "" /\ life.gcBlockedReason # ""),
                     !.gcEligibleAt = now,
                     !.gcBlockedReason = reason]

Evaluated(life) ==
    LET reason == GCBlockedReason(life)
    IN  [life EXCEPT !.gcEligible = (reason = ""),
                     !.gcEligibleAt = IF reason = "" THEN now ELSE None,
                     !.gcBlockedReason = reason]

\* Mutant: an overflowed byte total is reported as it is.
BacklogWithoutSignCheck(life) ==
    IF life.gcEligible /\ life.retainedArtifactCount # 0 THEN life.retainedArtifactBytes ELSE 0

estimateGCBacklogBytes(life) ==
    IF life.gcEligible /\ life.retainedArtifactCount # 0 /\ life.retainedArtifactBytes > 0
    THEN life.retainedArtifactBytes ELSE 0

EvaluateDecide(w) ==
    /\ lc[w].pc = "decide"
    /\ lc[w].op = "evaluate"
    /\ lc' = [lc EXCEPT ![w].pc = "upsert", ![w].life = Evaluated(lc[w].life)]
    /\ gcBacklogBytes' = estimateGCBacklogBytes(Evaluated(lc[w].life))
    /\ UNCHANGED <<artifacts, terminals, lifecycles, now>>

\* Mutant: the upsert only inserts.
InsertRunLifecycle(w) ==
    /\ lc[w].pc = "upsert"
    /\ lifecycles' = [lifecycles EXCEPT ![lc[w].run] = IF @ = None THEN lc[w].life ELSE @]
    /\ lc' = [lc EXCEPT ![w] = IdleRequest]
    /\ UNCHANGED <<artifacts, terminals, now, gcBacklogBytes>>

\* Both handlers end in a blind overwrite of the Run's row.
UpsertRunLifecycle(w) ==
    /\ lc[w].pc = "upsert"
    /\ lifecycles' = [lifecycles EXCEPT ![lc[w].run] = lc[w].life]
    /\ lc' = [lc EXCEPT ![w] = IdleRequest]
    /\ UNCHANGED <<artifacts, terminals, now, gcBacklogBytes>>

-----------------------------------------------------------------------------
(* Everything around the two handlers.                                      *)

\* One store call; a second, different terminal state is refused.
NotifyNodeTerminal(n, s) ==
    /\ terminals' = RecordNodeTerminal(terminals, n, s)
    /\ UNCHANGED <<artifacts, lifecycles, now, gcBacklogBytes, lc>>

\* The one store call of RegisterArtifact that these handlers can see.
CommitArtifact(k, a) ==
    /\ ~DigestConflict(artifacts[k], a)
    /\ artifacts' = PutArtifact(artifacts, k, a)
    /\ UNCHANGED <<terminals, lifecycles, now, gcBacklogBytes, lc>>

Tick ==
    /\ now < MaxTime
    /\ now' = now + 1
    /\ UNCHANGED <<artifacts, terminals, lifecycles, gcBacklogBytes, lc>>

\* A store call failed or the caller's context ended: the handler returns the error.
LifecycleStoreError(w) ==
    /\ Faults
    /\ lc[w].pc # "idle"
    /\ lc' = [lc EXCEPT ![w] = IdleRequest]
    /\ UNCHANGED <<artifacts, terminals, lifecycles, now, gcBacklogBytes>>

LifecycleRestart ==
    /\ Faults
    /\ artifacts' = AfterRestart(artifacts)
    /\ terminals' = AfterRestart(terminals)
    /\ lifecycles' = AfterRestart(lifecycles)
    /\ gcBacklogBytes' = 0
    /\ lc' = [w \in LifecycleWorkers |-> IdleRequest]
    /\ UNCHANGED now

\* The steps of one worker's request once it has been received.
LifecycleStep(w) ==
    \/ FinalizeGetLifecycle(w)
    \/ ListArtifacts(w)
    \/ ListTerminals(w)
    \/ FinalizeDecide(w)
    \/ EvaluateDecide(w)
    \/ UpsertRunLifecycle(w)

LifecycleHandlers ==
    \/ \E w \in LifecycleWorkers, r \in Runs : FinalizeRun(w, r) \/ EvaluateRunGC(w, r)
    \/ \E w \in LifecycleWorkers : LifecycleStep(w) \/ LifecycleStoreError(w)
    \/ \E n \in NodeAttemptKey, s \in TerminalState : NotifyNodeTerminal(n, s)
    \/ Tick

LifecycleNext ==
    \/ LifecycleHandlers
    \/ \E k \in ArtifactKey, a \in Offers : CommitArtifact(k, a)
    \/ LifecycleRestart

LifecycleSpec == LifecycleInit /\ [][LifecycleNext]_lifecycleVars

-----------------------------------------------------------------------------
(* Properties.                                                              *)

(***************************************************************************)
(* A stored GC-eligible lifecycle is justified, whatever handlers raced to  *)
(* write it: the Run was finalized, MinRetention passed between that        *)
(* finalization and the evaluation, and the Run really has an artifact and  *)
(* a terminal node in the store (EvaluateRunGCCore, the default branch).    *)
(***************************************************************************)
GCEligibleSound ==
    \A r \in Runs :
        (lifecycles[r] # None /\ lifecycles[r].gcEligible) =>
            /\ lifecycles[r].finalized
            /\ lifecycles[r].finalizedAt + MinRetention <= lifecycles[r].gcEligibleAt
            /\ lifecycles[r].gcEligibleAt <= now
            /\ ListArtifactsByRun(artifacts, r) # {}
            /\ ListNodeTerminalsByRun(terminals, r) # {}

(***************************************************************************)
(* The counts a lifecycle reports never exceed what the store holds for     *)
(* that Run, though they come from two reads taken long before the write    *)
(* (refreshLifecycleSnapshot): a stale snapshot can only be too small, and  *)
(* no other Run's rows leak into it.                                        *)
(***************************************************************************)
SnapshotNeverOverstates ==
    \A r \in {q \in Runs : lifecycles[q] # None} :
        /\ lifecycles[r].retainedArtifactCount <=
               Cardinality({k \in ArtifactKey : k.run = r /\ artifacts[k] # None})
        /\ lifecycles[r].terminalNodeCount <=
               Cardinality({n \in NodeAttemptKey : n.run = r /\ terminals[n] # None})

(***************************************************************************)
(* The backlog gauge is never negative, even when the byte total of a Run's *)
(* artifacts overflows int64, and a positive gauge is the byte count of     *)
(* some Run whose eligibility is stored or is being stored                  *)
(* (EvaluateRunGCCore sets the gauge before the upsert; a failed upsert     *)
(* would leave it dangling).                                                *)
(***************************************************************************)
BacklogHasARun ==
    gcBacklogBytes # 0 =>
        /\ gcBacklogBytes > 0
        /\ \E life \in {lifecycles[r] : r \in {q \in Runs : lifecycles[q] # None}}
                          \cup {lc[w].life : w \in {v \in LifecycleWorkers : lc[v].pc = "upsert"}} :
               life.gcEligible /\ life.retainedArtifactBytes = gcBacklogBytes

(***************************************************************************)
(* Once a Run is finalized, its retention deadline stays where it is        *)
(* (FinalizeRunCore returns early on a finalized Run).                      *)
(***************************************************************************)
RetentionFixed ==
    [][\A r \in Runs :
          (lifecycles[r] # None /\ lifecycles[r].finalized) =>
              /\ lifecycles'[r] # None
              /\ lifecycles'[r].retentionUntil = lifecycles[r].retentionUntil]_lifecycleVars

(***************************************************************************)
(* Once the eligibility of a Run is committed it is never taken back, so    *)
(* every later ResolveHandoff of that Run answers GC_EXPIRED.               *)
(***************************************************************************)
GCEligibleStays ==
    [][\A r \in Runs :
          (lifecycles[r] # None /\ lifecycles[r].gcEligible) =>
              lifecycles'[r] # None /\ lifecycles'[r].gcEligible]_lifecycleVars

(***************************************************************************)
(* The scheduler runs every goroutine that is not blocked, and time passes. *)
(***************************************************************************)
LifecycleFairSpec ==
    /\ LifecycleSpec
    /\ WF_lifecycleVars(Tick)
    /\ \A w \in LifecycleWorkers : WF_lifecycleVars(LifecycleStep(w))

\* Two requests of one Run never overlap; requests of different Runs may.
OnePerRun ==
    \A v, w \in LifecycleWorkers :
        (v # w /\ lc[v].pc # "idle" /\ lc[w].pc # "idle") => lc[v].run # lc[w].run

\* Only the retention window keeps r.  Deadlines beyond the clock's bound are left out.
AwaitsGC(r) ==
    /\ StoredLifecycle(r).finalized
    /\ StoredLifecycle(r).retentionUntil <= MaxTime
    /\ ListArtifactsByRun(artifacts, r) # {}
    /\ ListNodeTerminalsByRun(terminals, r) # {}

(***************************************************************************)
(* A finalized Run that has an artifact and a terminal node becomes GC      *)
(* eligible, provided EvaluateRunGC is called for it again and again, store *)
(* calls succeed, and requests of one Run do not overlap: then no blocked   *)
(* reason of the switch holds for ever (EvaluateRunGCCore).  When requests  *)
(* overlap, one other outcome is possible: a request that read the Run      *)
(* before its finalization overwrites it (UpsertRunLifecycle), with a row   *)
(* that is not finalized, or with a deadline beyond the clock's bound.      *)
(***************************************************************************)
FinalizedBecomesEligible ==
    \A r \in Runs :
        []<><<\E w \in LifecycleWorkers : EvaluateRunGC(w, r)>>_lifecycleVars =>
            /\ []OnePerRun => (AwaitsGC(r) ~> StoredLifecycle(r).gcEligible)
            /\ AwaitsGC(r) ~> (StoredLifecycle(r).gcEligible \/ ~AwaitsGC(r))
=============================================================================
