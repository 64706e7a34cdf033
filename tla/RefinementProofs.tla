-------------------------- MODULE RefinementProofs --------------------------
(***************************************************************************)
(* The service implements Lifecycle, for every value of the constants: seen *)
(* through what the lifecycle handlers read of an artifact, each step of    *)
(* the composed handlers is a step of Lifecycle or leaves it where it is.   *)
(***************************************************************************)
EXTENDS HandoffLifecycle, HandoffProofs

\* The artifacts as the lifecycle handlers read them.
RetainedTable == [k \in ArtifactKey |-> Retained(artifacts[k])]

-----------------------------------------------------------------------------
(* The mapping.                                                             *)

\* What the lifecycle handlers read of an artifact: whether it is there, digest and size.
LEMMA RetainedFacts ==
    ASSUME NEW a \in Artifact \cup {None}
    PROVE  /\ Retained(a) = None <=> a = None
           /\ a # None => /\ Retained(a).digest = a.digest
                          /\ Retained(a).size = a.size
                          /\ Retained(NodesFilled(a)) = Retained(a)
<1>1. CASE a = None
  BY <1>1 DEF Retained
<1>2. CASE a # None
  <2>1. a \in Artifact /\ Retained(a) = [a EXCEPT !.locations = <<>>]
    BY <1>2 DEF Retained
  <2>2. <<>> \in Seq(Location)
    OBVIOUS
  <2>3. [a EXCEPT !.locations = <<>>] \in Artifact
    BY <2>1, <2>2 DEF Artifact
  <2>4. Retained(a) # None /\ Retained(a).digest = a.digest /\ Retained(a).size = a.size
    BY <2>1, <2>3, NoneAssumption DEF Artifact
  <2>5. NodesFilled(a) \in Artifact /\ NodesFilled(a) # None
    BY <2>1, NodesFilledType, NoneAssumption
  <2>6. [NodesFilled(a) EXCEPT !.locations = <<>>] = [a EXCEPT !.locations = <<>>]
    <3> DEFINE ls == [i \in DOMAIN a.locations |-> BackfillNode(a, a.locations[i])]
    <3>1. NodesFilled(a) = [a EXCEPT !.locations = ls]
      BY DEF NodesFilled
    <3> HIDE DEF ls
    <3> QED BY <2>1, <3>1 DEF Artifact
  <2> QED BY <1>2, <2>1, <2>4, <2>5, <2>6 DEF Retained
<1> QED BY <1>1, <1>2

\* Filling in node names changes nothing that the lifecycle handlers read.
LEMMA FillIsInvisible ==
    ASSUME artifacts \in ArtifactTable, NEW k \in ArtifactKey, NEW a \in Artifact,
           artifacts' = FillNodeNames(artifacts, k, a)
    PROVE  RetainedTable' = RetainedTable
<1>1. \A j \in ArtifactKey : artifacts'[j] = artifacts[j] \/ (artifacts[j] = a /\ artifacts'[j] = NodesFilled(a))
  BY DEF FillNodeNames, ArtifactTable
<1>2. Retained(NodesFilled(a)) = Retained(a)
  BY RetainedFacts, NoneAssumption
<1>3. \A j \in ArtifactKey : Retained(artifacts'[j]) = Retained(artifacts[j])
  BY <1>1, <1>2
<1> QED BY <1>3 DEF RetainedTable

\* Committing an artifact commits what is retained of it.
LEMMA CommitRefines ==
    ASSUME artifacts \in ArtifactTable, NEW k \in ArtifactKey, NEW a \in Offers,
           ~DigestConflict(artifacts[k], a), artifacts' = PutArtifact(artifacts, k, a),
           UNCHANGED <<terminals, lifecycles, now, gcBacklogBytes, lc>>
    PROVE  AsLifecycle!CommitArtifact(k, Retained(a))
<1>1. a \in Artifact /\ a # None /\ artifacts[k] \in Artifact \cup {None}
  BY InventoryAssumption, NoneAssumption DEF ArtifactTable
<1>2. RetainedTable[k] = Retained(artifacts[k])
  BY DEF RetainedTable
<1>3. /\ Retained(a).digest = a.digest
      /\ RetainedTable[k] = None <=> artifacts[k] = None
      /\ artifacts[k] # None => RetainedTable[k].digest = artifacts[k].digest
  BY <1>1, <1>2, RetainedFacts
<1>4. ~AsLifecycle!DigestConflict(RetainedTable[k], Retained(a))
  BY <1>3 DEF AsLifecycle!DigestConflict, DigestConflict
<1>5. RetainedTable' = AsLifecycle!PutArtifact(RetainedTable, k, Retained(a))
  <2>1. CASE artifacts[k] # None /\ artifacts[k].digest # ""
    BY <1>3, <2>1 DEF AsLifecycle!PutArtifact, PutArtifact, RetainedTable
  <2>2. CASE ~(artifacts[k] # None /\ artifacts[k].digest # "")
    <3>1. artifacts' = [artifacts EXCEPT ![k] = a]
      BY <2>2 DEF PutArtifact
    <3>2. RetainedTable' = [RetainedTable EXCEPT ![k] = Retained(a)]
      BY <3>1, ZenonT(30) DEF RetainedTable, ArtifactTable
    <3> QED BY <1>3, <2>2, <3>2 DEF AsLifecycle!PutArtifact
  <2> QED BY <2>1, <2>2
<1> QED BY <1>4, <1>5 DEF AsLifecycle!CommitArtifact, RetainedTable

\* The instance counts as the module does.
LEMMA SameCardinality == \A S : AsLifecycle!Cardinality(S) = Cardinality(S)
BY Zenon DEF AsLifecycle!Cardinality, Cardinality

\* The snapshot of a Run reads the same: its artifacts, and their bytes.
LEMMA SnapshotSame ==
    ASSUME artifacts \in ArtifactTable, NEW r
    PROVE  /\ AsLifecycle!ListArtifactsByRun(RetainedTable, r) = ListArtifactsByRun(artifacts, r)
           /\ AsLifecycle!RetainedBytes(ListArtifactsByRun(artifacts, r))
                 = RetainedBytes(ListArtifactsByRun(artifacts, r))
<1> DEFINE rows == ListArtifactsByRun(artifacts, r)
<1>1. \A k \in ArtifactKey :
          /\ RetainedTable[k] = None <=> artifacts[k] = None
          /\ artifacts[k] # None => RetainedTable[k].size = artifacts[k].size
  BY RetainedFacts DEF RetainedTable, ArtifactTable
<1>2. AsLifecycle!ListArtifactsByRun(RetainedTable, r) = rows
  BY <1>1 DEF AsLifecycle!ListArtifactsByRun, AsLifecycle!ArtifactKey, ListArtifactsByRun, ArtifactKey
<1>3. \A k \in rows : RetainedTable[k].size = artifacts[k].size
  BY <1>1 DEF ListArtifactsByRun
<1> HIDE DEF rows
<1>4. {kb \in rows \X (1 .. MaxInt64) : kb[2] <= RetainedTable[kb[1]].size}
        = {kb \in rows \X (1 .. MaxInt64) : kb[2] <= artifacts[kb[1]].size}
  <2>1. \A kb \in rows \X (1 .. MaxInt64) : kb[1] \in rows
    OBVIOUS
  <2> QED BY <1>3, <2>1
<1>5. AsLifecycle!RetainedBytes(rows) = RetainedBytes(rows)
  BY <1>4, SameCardinality, ZenonT(30) DEF AsLifecycle!RetainedBytes, AsLifecycle!WrapInt64, RetainedBytes, WrapInt64, RetainedTable
<1> QED BY <1>2, <1>5 DEF rows

\* The steps of the lifecycle handlers are steps of Lifecycle.
LEMMA LifecycleRefines ==
    ASSUME artifacts \in ArtifactTable, LifecycleHandlers
    PROVE  AsLifecycle!LifecycleHandlers
<1>1. ASSUME NEW w \in LifecycleWorkers, ListArtifacts(w) PROVE AsLifecycle!ListArtifacts(w)
  <2> DEFINE r == lc[w].run
  <2>1. artifacts' = artifacts /\ RetainedTable' = RetainedTable
    BY <1>1 DEF ListArtifacts, RetainedTable
  <2>2. /\ AsLifecycle!ListArtifactsByRun(RetainedTable, r) = ListArtifactsByRun(artifacts, r)
        /\ AsLifecycle!RetainedBytes(ListArtifactsByRun(artifacts, r))
              = RetainedBytes(ListArtifactsByRun(artifacts, r))
    BY SnapshotSame
  <2> QED BY <1>1, <2>1, <2>2, SameCardinality, ZenonT(30) DEF ListArtifacts, AsLifecycle!ListArtifacts, RetainedTable
<1>2. ASSUME NEW w \in LifecycleWorkers, NEW r \in Runs, FinalizeRun(w, r)
      PROVE  AsLifecycle!FinalizeRun(w, r)
  BY <1>2 DEF FinalizeRun, AsLifecycle!FinalizeRun, NewLifecycle, AsLifecycle!NewLifecycle,
     TerminalState, AsLifecycle!TerminalState
<1>3. ASSUME NEW w \in LifecycleWorkers, NEW r \in Runs, EvaluateRunGC(w, r)
      PROVE  AsLifecycle!EvaluateRunGC(w, r)
  BY <1>3 DEF EvaluateRunGC, AsLifecycle!EvaluateRunGC, StoredLifecycle, AsLifecycle!StoredLifecycle,
     NewLifecycle, AsLifecycle!NewLifecycle, TerminalState, AsLifecycle!TerminalState
<1>4. ASSUME NEW w \in LifecycleWorkers, FinalizeGetLifecycle(w) PROVE AsLifecycle!FinalizeGetLifecycle(w)
  BY <1>4 DEF FinalizeGetLifecycle, AsLifecycle!FinalizeGetLifecycle, StoredLifecycle,
     AsLifecycle!StoredLifecycle, IdleRequest, AsLifecycle!IdleRequest, NewLifecycle,
     AsLifecycle!NewLifecycle, TerminalState, AsLifecycle!TerminalState
<1>5. ASSUME NEW w \in LifecycleWorkers, ListTerminals(w) PROVE AsLifecycle!ListTerminals(w)
  BY <1>5, SameCardinality, ZenonT(30) DEF ListTerminals, AsLifecycle!ListTerminals, ListNodeTerminalsByRun,
     AsLifecycle!ListNodeTerminalsByRun, NodeAttemptKey, AsLifecycle!NodeAttemptKey, TerminalState,
     AsLifecycle!TerminalState
<1>6. ASSUME NEW w \in LifecycleWorkers, FinalizeDecide(w) PROVE AsLifecycle!FinalizeDecide(w)
  BY <1>6, SMTT(20) DEF FinalizeDecide, AsLifecycle!FinalizeDecide, Finalized, AsLifecycle!Finalized
<1>7. ASSUME NEW w \in LifecycleWorkers, EvaluateDecide(w) PROVE AsLifecycle!EvaluateDecide(w)
  BY <1>7 DEF EvaluateDecide, AsLifecycle!EvaluateDecide, Evaluated, AsLifecycle!Evaluated,
     GCBlockedReason, AsLifecycle!GCBlockedReason, estimateGCBacklogBytes,
     AsLifecycle!estimateGCBacklogBytes
<1>8. ASSUME NEW w \in LifecycleWorkers, UpsertRunLifecycle(w) PROVE AsLifecycle!UpsertRunLifecycle(w)
  BY <1>8 DEF UpsertRunLifecycle, AsLifecycle!UpsertRunLifecycle, IdleRequest, AsLifecycle!IdleRequest,
     NewLifecycle, AsLifecycle!NewLifecycle, TerminalState, AsLifecycle!TerminalState
<1>9. ASSUME NEW w \in LifecycleWorkers, LifecycleStoreError(w) PROVE AsLifecycle!LifecycleStoreError(w)
  BY <1>9 DEF LifecycleStoreError, AsLifecycle!LifecycleStoreError, IdleRequest, AsLifecycle!IdleRequest,
     NewLifecycle, AsLifecycle!NewLifecycle, TerminalState, AsLifecycle!TerminalState
<1>10. ASSUME NEW n \in NodeAttemptKey, NEW s \in TerminalState, NotifyNodeTerminal(n, s)
       PROVE  /\ n \in AsLifecycle!NodeAttemptKey /\ s \in AsLifecycle!TerminalState
              /\ AsLifecycle!NotifyNodeTerminal(n, s)
  BY <1>10 DEF NotifyNodeTerminal, AsLifecycle!NotifyNodeTerminal, RecordNodeTerminal,
     AsLifecycle!RecordNodeTerminal, NodeAttemptKey, AsLifecycle!NodeAttemptKey, TerminalState,
     AsLifecycle!TerminalState
<1>11. Tick => AsLifecycle!Tick
  BY DEF Tick, AsLifecycle!Tick
<1>12. \A w \in LifecycleWorkers : LifecycleStep(w) => AsLifecycle!LifecycleStep(w)
  BY <1>1, <1>4, <1>5, <1>6, <1>7, <1>8 DEF LifecycleStep, AsLifecycle!LifecycleStep
<1> QED BY <1>2, <1>3, <1>9, <1>10, <1>11, <1>12 DEF LifecycleHandlers, AsLifecycle!LifecycleHandlers

\* A restart empties or keeps both views.
LEMMA RestartRefines ==
    ASSUME artifacts \in ArtifactTable, LifecycleRestart
    PROVE  AsLifecycle!LifecycleRestart
<1>1. RetainedTable' = AsLifecycle!AfterRestart(RetainedTable)
  <2>1. CASE Backend = "sqlite"
    BY <2>1 DEF LifecycleRestart, AfterRestart, AsLifecycle!AfterRestart, RetainedTable
  <2>2. CASE Backend # "sqlite"
    <3>1. artifacts' = [k \in ArtifactKey |-> None]
      BY <2>2 DEF LifecycleRestart, AfterRestart, EmptyTable, ArtifactTable
    <3>2. RetainedTable' = [k \in ArtifactKey |-> None]
      BY <3>1 DEF RetainedTable, Retained
    <3> QED BY <2>2, <3>2 DEF AsLifecycle!AfterRestart, AsLifecycle!EmptyTable, RetainedTable
  <2> QED BY <2>1, <2>2
<1> QED BY <1>1 DEF LifecycleRestart, AsLifecycle!LifecycleRestart, AfterRestart, AsLifecycle!AfterRestart,
    EmptyTable, AsLifecycle!EmptyTable, IdleRequest, AsLifecycle!IdleRequest, NewLifecycle,
    AsLifecycle!NewLifecycle, TerminalState, AsLifecycle!TerminalState, RetainedTable

\* The initial states are initial states of Lifecycle.
LEMMA InitRefines == LifecycleInit => AsLifecycle!LifecycleInit
<1> SUFFICES ASSUME LifecycleInit PROVE AsLifecycle!LifecycleInit
  OBVIOUS
<1>1. RetainedTable = [k \in ArtifactKey |-> None]
  BY DEF LifecycleInit, EmptyTable, RetainedTable, Retained
<1> QED BY <1>1 DEF LifecycleInit, AsLifecycle!LifecycleInit, EmptyTable, AsLifecycle!EmptyTable, ArtifactKey,
    AsLifecycle!ArtifactKey, NodeAttemptKey, AsLifecycle!NodeAttemptKey, IdleRequest,
    AsLifecycle!IdleRequest, NewLifecycle, AsLifecycle!NewLifecycle, TerminalState,
    AsLifecycle!TerminalState, RetainedTable

-----------------------------------------------------------------------------
(* The refinement.                                                          *)

\* Every step of the service is a step of Lifecycle or leaves it where it is.
LEMMA StepRefines ==
    HandoffInv /\ [HandoffNext]_handoffVars => [AsLifecycle!LifecycleNext]_AsLifecycle!lifecycleVars
<1> SUFFICES ASSUME HandoffInv, [HandoffNext]_handoffVars
             PROVE  AsLifecycle!LifecycleNext \/ UNCHANGED AsLifecycle!lifecycleVars
  OBVIOUS
<1>1. artifacts \in ArtifactTable
  BY DEF HandoffInv, CatalogInv
<1>2. CASE UNCHANGED <<terminals, lifecycles, now, gcBacklogBytes, lc>> /\ RetainedTable' = RetainedTable
  BY <1>2 DEF AsLifecycle!lifecycleVars, RetainedTable
<1>3. artifacts' = artifacts => RetainedTable' = RetainedTable
  BY DEF RetainedTable
<1>4. (\E k \in ArtifactKey, a \in Artifact : artifacts' = FillNodeNames(artifacts, k, a))
         => RetainedTable' = RetainedTable
  BY <1>1, FillIsInvisible
<1>5. CASE LifecycleRequests
  BY <1>1, <1>5, LifecycleRefines DEF LifecycleRequests, AsLifecycle!LifecycleNext
<1>6. CASE CatalogRequests
  <2>1. CatalogHandlers /\ UNCHANGED <<terminals, lifecycles, now, gcBacklogBytes, lc>>
    BY <1>6 DEF CatalogRequests
  <2>2. ASSUME NEW k \in ArtifactKey, NEW a \in Offers, ~DigestConflict(artifacts[k], a),
               artifacts' = PutArtifact(artifacts, k, a)
        PROVE  AsLifecycle!LifecycleNext
    <3>1. AsLifecycle!CommitArtifact(k, Retained(a))
      BY <1>1, <2>1, <2>2, CommitRefines
    <3>2. k \in AsLifecycle!ArtifactKey
      BY DEF ArtifactKey, AsLifecycle!ArtifactKey
    <3>3. Retained(a) \in {Retained(x) : x \in Offers}
      OBVIOUS
    <3> QED BY <3>1, <3>2, <3>3 DEF AsLifecycle!LifecycleNext
  <2> QED BY <1>2, <1>3, <1>4, <2>1, <2>2, CatalogChanges
<1>7. CASE ResolveRequests
  BY <1>2, <1>3, <1>4, <1>7, ResolveChanges
<1>8. CASE Restart
  BY <1>1, <1>8, RestartRefines DEF Restart, AsLifecycle!LifecycleNext
<1>9. CASE UNCHANGED handoffVars
  BY <1>2, <1>3, <1>9 DEF handoffVars
<1> QED BY <1>5, <1>6, <1>7, <1>8, <1>9 DEF HandoffNext

(***************************************************************************)
(* The composed service implements Lifecycle: seen through what the         *)
(* lifecycle handlers read, a registration that races others, a read that   *)
(* fills in node names, a failed store call and a restart are each an       *)
(* artifact committed, a restart or nothing.  What is proved of Lifecycle   *)
(* for every value of its constants so holds of the service.                *)
(***************************************************************************)
THEOREM ServiceImplementsLifecycle == HandoffSpec => ImplementsLifecycle
<1>1. HandoffInit => AsLifecycle!LifecycleInit
  BY InitRefines DEF HandoffInit
<1> QED BY <1>1, HandoffInvInit, HandoffInvStep, StepRefines, PTL
        DEF HandoffSpec, ImplementsLifecycle, AsLifecycle!LifecycleSpec

=============================================================================
