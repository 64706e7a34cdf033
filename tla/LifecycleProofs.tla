--------------------------- MODULE LifecycleProofs ---------------------------
(***************************************************************************)
(* Proofs about Lifecycle, for any number of Runs, attempts, outputs,       *)
(* workers and any retention: type correctness, the soundness of a stored   *)
(* GC eligibility under every interleaving of the handlers, and, while      *)
(* requests of one Run do not overlap, that deadlines and eligibilities are *)
(* final and that the backlog gauge belongs to a Run.                       *)
(***************************************************************************)
EXTENDS Lifecycle, TLAPS, FiniteSetTheorems

\* Artifact keys and attempt keys are records over finite sets, hence finitely many.
LEMMA KeysFinite == IsFiniteSet(ArtifactKey) /\ IsFiniteSet(NodeAttemptKey)
<1>1. IsFiniteSet(Runs) /\ IsFiniteSet(Attempts) /\ IsFiniteSet(Outputs)
  BY DomainAssumption
<1>2. IsFiniteSet(Runs \X Attempts)
  BY <1>1, FS_Product
<1>3. IsFiniteSet((Runs \X Attempts) \X Outputs)
  BY <1>1, <1>2, FS_Product
<1>4. IsFiniteSet(NodeAttemptKey)
  <2> DEFINE f == [p \in Runs \X Attempts |-> [run |-> p[1], attempt |-> p[2]]]
  <2>1. f \in [Runs \X Attempts -> NodeAttemptKey]
    BY DEF NodeAttemptKey
  <2>2. ASSUME NEW n \in NodeAttemptKey PROVE \E p \in Runs \X Attempts : f[p] = n
    <3>1. <<n.run, n.attempt>> \in Runs \X Attempts
      BY DEF NodeAttemptKey
    <3>2. f[<<n.run, n.attempt>>] = n
      BY <3>1 DEF NodeAttemptKey
    <3> QED BY <3>1, <3>2
  <2>3. f \in Surjection(Runs \X Attempts, NodeAttemptKey)
    BY <2>1, <2>2 DEF Surjection
  <2> QED BY <1>2, <2>3, FS_Surjection
<1>5. IsFiniteSet(ArtifactKey)
  <2> DEFINE f == [p \in (Runs \X Attempts) \X Outputs |->
                      [run |-> p[1][1], attempt |-> p[1][2], output |-> p[2]]]
  <2>1. f \in [(Runs \X Attempts) \X Outputs -> ArtifactKey]
    BY DEF ArtifactKey
  <2>2. ASSUME NEW k \in ArtifactKey PROVE \E p \in (Runs \X Attempts) \X Outputs : f[p] = k
    <3>1. <<<<k.run, k.attempt>>, k.output>> \in (Runs \X Attempts) \X Outputs
      BY DEF ArtifactKey
    <3>2. f[<<<<k.run, k.attempt>>, k.output>>] = k
      BY <3>1 DEF ArtifactKey
    <3> QED BY <3>1, <3>2
  <2>3. f \in Surjection((Runs \X Attempts) \X Outputs, ArtifactKey)
    BY <2>1, <2>2 DEF Surjection
  <2> QED BY <1>3, <2>3, FS_Surjection
<1> QED BY <1>4, <1>5

\* The listings of a Run are finite, so their sizes are natural numbers.
LEMMA ListingsFinite ==
    ASSUME NEW arts, NEW terms, NEW r
    PROVE  /\ IsFiniteSet(ListArtifactsByRun(arts, r))
           /\ IsFiniteSet(ListNodeTerminalsByRun(terms, r))
           /\ Cardinality(ListArtifactsByRun(arts, r)) \in Nat
           /\ Cardinality(ListNodeTerminalsByRun(terms, r)) \in Nat
<1>1. ListArtifactsByRun(arts, r) \in SUBSET ArtifactKey
  BY DEF ListArtifactsByRun
<1>2. ListNodeTerminalsByRun(terms, r) \in SUBSET NodeAttemptKey
  BY DEF ListNodeTerminalsByRun
<1>3. IsFiniteSet(ListArtifactsByRun(arts, r)) /\ IsFiniteSet(ListNodeTerminalsByRun(terms, r))
  BY <1>1, <1>2, KeysFinite, FS_Subset
<1> QED BY <1>3, FS_CardinalityType

\* The byte total of a Run is an integer, overflowed or not.
LEMMA RetainedBytesType ==
    ASSUME NEW keys, IsFiniteSet(keys)
    PROVE  RetainedBytes(keys) \in Int
<1> DEFINE bytes == {kb \in keys \X (1 .. MaxInt64) : kb[2] <= artifacts[kb[1]].size}
<1>1. MaxInt64 \in Nat
  BY DomainAssumption
<1>2. IsFiniteSet(1 .. MaxInt64)
  BY <1>1, FS_Interval
<1>3. IsFiniteSet(keys \X (1 .. MaxInt64))
  BY <1>2, FS_Product, Zenon
<1>4. bytes \in SUBSET (keys \X (1 .. MaxInt64))
  OBVIOUS
<1>5. Cardinality(bytes) \in Nat
  BY <1>3, <1>4, FS_Subset, FS_CardinalityType
<1>6. ASSUME NEW n \in Nat PROVE WrapInt64(n) \in Int
  <2> DEFINE m == 2 * (MaxInt64 + 1)
  <2>1. m \in Nat /\ m > 0 /\ n + MaxInt64 + 1 \in Nat
    BY <1>1
  <2>2. (n + MaxInt64 + 1) % m \in 0 .. (m - 1)
    <3> HIDE DEF m
    <3> QED BY <2>1
  <2> QED BY <1>1, <2>2 DEF WrapInt64
<1> QED BY <1>5, <1>6 DEF RetainedBytes

-----------------------------------------------------------------------------
(* Type correctness.                                                        *)

\* The lifecycle a handler starts from, stored or new, has its type.
LEMMA StoredLifecycleType ==
    ASSUME LifecycleTypeOK, NEW r \in Runs
    PROVE  StoredLifecycle(r) \in RunLifecycle /\ NewLifecycle \in RunLifecycle
<1>1. NewLifecycle \in RunLifecycle
  BY DEF NewLifecycle, RunLifecycle, Time, BlockedReason, TerminalState
<1> QED BY <1>1 DEF StoredLifecycle, LifecycleTypeOK

\* A worker without a request has the type of one.
LEMMA IdleRequestType == IdleRequest \in LifecycleRequest
<1>1. NewLifecycle \in RunLifecycle
  BY DEF NewLifecycle, RunLifecycle, Time, BlockedReason, TerminalState
<1> QED BY <1>1 DEF IdleRequest, LifecycleRequest, LifecyclePC

\* The tables keep their types when the store is emptied or kept by a restart.
LEMMA AfterRestartType ==
    ASSUME NEW K, NEW V, NEW table \in [K -> V \cup {None}]
    PROVE  AfterRestart(table) \in [K -> V \cup {None}]
BY DEF AfterRestart, EmptyTable

\* The lifecycle records the two handlers compute are well typed.
LEMMA ComputedLifecycleTypes ==
    ASSUME LifecycleTypeOK, NEW life \in RunLifecycle, NEW at \in Nat
    PROVE  /\ Finalized(life, at) \in RunLifecycle
           /\ Evaluated(life) \in RunLifecycle
           /\ estimateGCBacklogBytes(Evaluated(life)) \in Int
<1>1. Finalized(life, at) \in RunLifecycle
  <2> DEFINE until == at + MinRetention
  <2>1. until \in Nat
    BY LifecycleAssumption
  <2> HIDE DEF until
  <2>2. [life EXCEPT !.finalized = TRUE, !.finalizedAt = at, !.retentionUntil = until,
                     !.gcEligible = FALSE, !.gcEligibleAt = None,
                     !.gcBlockedReason = "gc_not_evaluated"] \in RunLifecycle
    BY <2>1 DEF RunLifecycle, Time, BlockedReason
  <2> QED BY <2>2 DEF Finalized, until
<1>2. GCBlockedReason(life) \in BlockedReason
  BY DEF GCBlockedReason, BlockedReason
<1>3. Evaluated(life) \in RunLifecycle
  BY <1>2, Zenon DEF Evaluated, RunLifecycle, Time, LifecycleTypeOK
<1> QED BY <1>1, <1>3 DEF estimateGCBacklogBytes, RunLifecycle

\* Replacing one worker's request by a well-typed one keeps the requests well typed.
LEMMA RequestUpdate ==
    ASSUME LifecycleTypeOK, NEW w \in LifecycleWorkers, NEW q \in LifecycleRequest,
           q.pc # "idle" => q.run \in Runs,
           lc' = [lc EXCEPT ![w] = q]
    PROVE  /\ lc' \in [LifecycleWorkers -> LifecycleRequest]
           /\ \A v \in LifecycleWorkers : lc'[v].pc # "idle" => lc'[v].run \in Runs
BY DEF LifecycleTypeOK

\* The initial state is well typed.
LEMMA TypeInit == LifecycleInit => LifecycleTypeOK
BY IdleRequestType DEF LifecycleInit, LifecycleTypeOK, EmptyTable, IdleRequest

\* Every step of every handler preserves the types.
LEMMA TypeStep == LifecycleTypeOK /\ [LifecycleNext]_lifecycleVars => LifecycleTypeOK'
<1> SUFFICES ASSUME LifecycleTypeOK, [LifecycleNext]_lifecycleVars
             PROVE  LifecycleTypeOK'
  OBVIOUS
<1> USE DEF LifecycleTypeOK
<1>1. ASSUME NEW w \in LifecycleWorkers, NEW r \in Runs, FinalizeRun(w, r) PROVE LifecycleTypeOK'
  <2>1. [pc |-> "getLifecycle", op |-> "finalize", run |-> r, at |-> now, life |-> NewLifecycle]
            \in LifecycleRequest
    BY StoredLifecycleType DEF LifecycleRequest, LifecyclePC
  <2> QED BY <1>1, <2>1 DEF FinalizeRun
<1>2. ASSUME NEW w \in LifecycleWorkers, NEW r \in Runs, EvaluateRunGC(w, r) PROVE LifecycleTypeOK'
  <2>1. [pc |-> "listArtifacts", op |-> "evaluate", run |-> r, at |-> 0, life |-> StoredLifecycle(r)]
            \in LifecycleRequest
    BY StoredLifecycleType DEF LifecycleRequest, LifecyclePC
  <2> QED BY <1>2, <2>1 DEF EvaluateRunGC
<1>3. ASSUME NEW w \in LifecycleWorkers, FinalizeGetLifecycle(w) PROVE LifecycleTypeOK'
  <2>1. lc[w].run \in Runs /\ lc[w] \in LifecycleRequest
    BY <1>3 DEF FinalizeGetLifecycle
  <2>2. StoredLifecycle(lc[w].run) \in RunLifecycle
    BY <2>1, StoredLifecycleType
  <2>3. [lc[w] EXCEPT !.pc = "listArtifacts", !.life = StoredLifecycle(lc[w].run)]
            \in LifecycleRequest
    BY <2>1, <2>2, Zenon DEF LifecycleRequest, LifecyclePC
  <2>4. CASE lc' = [lc EXCEPT ![w] = IdleRequest]
    BY <1>3, <2>4, IdleRequestType, RequestUpdate DEF FinalizeGetLifecycle, IdleRequest
  <2>5. CASE lc' = [lc EXCEPT ![w].pc = "listArtifacts", ![w].life = StoredLifecycle(lc[w].run)]
    <3> DEFINE q == [lc[w] EXCEPT !.pc = "listArtifacts", !.life = StoredLifecycle(lc[w].run)]
    <3>1. lc' = [lc EXCEPT ![w] = q]
      BY <2>5, Zenon
    <3>2. q \in LifecycleRequest /\ q.run \in Runs
      BY <2>1, <2>3 DEF LifecycleRequest
    <3> HIDE DEF q
    <3> QED BY <1>3, <3>1, <3>2, RequestUpdate DEF FinalizeGetLifecycle
  <2> QED BY <1>3, <2>4, <2>5 DEF FinalizeGetLifecycle
<1>4. ASSUME NEW w \in LifecycleWorkers, ListArtifacts(w) PROVE LifecycleTypeOK'
  <2> DEFINE rows == ListArtifactsByRun(artifacts, lc[w].run)
             life == [lc[w].life EXCEPT !.retainedArtifactCount = Cardinality(rows),
                                        !.retainedArtifactBytes = RetainedBytes(rows)]
  <2>1. lc[w].run \in Runs /\ lc[w] \in LifecycleRequest
    BY <1>4 DEF ListArtifacts
  <2>2. Cardinality(rows) \in Nat /\ RetainedBytes(rows) \in Int
    BY ListingsFinite, RetainedBytesType
  <2>3. life \in RunLifecycle
    BY <2>1, <2>2, Zenon DEF LifecycleRequest, RunLifecycle
  <2>4. [lc[w] EXCEPT !.pc = "listTerminals", !.life = life] \in LifecycleRequest
    BY <2>1, <2>3, Zenon DEF LifecycleRequest, LifecyclePC
  <2>5. lc' = [lc EXCEPT ![w] = [lc[w] EXCEPT !.pc = "listTerminals", !.life = life]]
    BY <1>4, <2>1, Zenon DEF ListArtifacts, LifecycleRequest, RunLifecycle
  <2> DEFINE q == [lc[w] EXCEPT !.pc = "listTerminals", !.life = life]
  <2>6. q \in LifecycleRequest /\ q.run \in Runs
    BY <2>1, <2>4 DEF LifecycleRequest
  <2> HIDE DEF q
  <2>7. lc' = [lc EXCEPT ![w] = q]
    BY <2>5 DEF q
  <2> QED BY <1>4, <2>6, <2>7, RequestUpdate DEF ListArtifacts
<1>5. ASSUME NEW w \in LifecycleWorkers, ListTerminals(w) PROVE LifecycleTypeOK'
  <2> DEFINE rows == ListNodeTerminalsByRun(terminals, lc[w].run)
             counts == [s \in TerminalState |-> Cardinality({n \in rows : terminals[n] = s})]
             life == [lc[w].life EXCEPT !.terminalNodeCount = Cardinality(rows),
                                        !.stateCount = counts]
  <2>1. lc[w].run \in Runs /\ lc[w] \in LifecycleRequest
    BY <1>5 DEF ListTerminals
  <2>2. Cardinality(rows) \in Nat /\ IsFiniteSet(rows)
    BY ListingsFinite
  <2>3. ASSUME NEW s \in TerminalState PROVE Cardinality({n \in rows : terminals[n] = s}) \in Nat
    <3>1. {n \in rows : terminals[n] = s} \in SUBSET rows
      OBVIOUS
    <3> QED BY <3>1, <2>2, FS_Subset, FS_CardinalityType
  <2>4. counts \in [TerminalState -> Nat]
    BY <2>3
  <2>5. life \in RunLifecycle
    <3> HIDE DEF counts
    <3> QED BY <2>1, <2>2, <2>4, Zenon DEF LifecycleRequest, RunLifecycle
  <2>6. [lc[w] EXCEPT !.pc = "decide", !.life = life] \in LifecycleRequest
    BY <2>1, <2>5, Zenon DEF LifecycleRequest, LifecyclePC
  <2>7. lc' = [lc EXCEPT ![w] = [lc[w] EXCEPT !.pc = "decide", !.life = life]]
    BY <1>5, <2>1, Zenon DEF ListTerminals, LifecycleRequest, RunLifecycle
  <2> DEFINE q == [lc[w] EXCEPT !.pc = "decide", !.life = life]
  <2>8. q \in LifecycleRequest /\ q.run \in Runs
    BY <2>1, <2>6 DEF LifecycleRequest
  <2> HIDE DEF q
  <2>9. lc' = [lc EXCEPT ![w] = q]
    BY <2>7 DEF q
  <2> QED BY <1>5, <2>8, <2>9, RequestUpdate, Zenon DEF ListTerminals
<1>6. ASSUME NEW w \in LifecycleWorkers, FinalizeDecide(w) PROVE LifecycleTypeOK'
  <2> DEFINE life == Finalized(lc[w].life, lc[w].at)
  <2>1. lc[w].run \in Runs /\ lc[w] \in LifecycleRequest
    BY <1>6 DEF FinalizeDecide
  <2>2. life \in RunLifecycle
    BY <2>1, ComputedLifecycleTypes, Zenon DEF LifecycleRequest
  <2>3. [lc[w] EXCEPT !.pc = "upsert", !.at = 0, !.life = life] \in LifecycleRequest
    BY <2>1, <2>2, Zenon DEF LifecycleRequest, LifecyclePC
  <2> QED BY <1>6, <2>1, <2>3 DEF FinalizeDecide, LifecycleRequest
<1>7. ASSUME NEW w \in LifecycleWorkers, EvaluateDecide(w) PROVE LifecycleTypeOK'
  <2> DEFINE life == Evaluated(lc[w].life)
  <2>1. lc[w].run \in Runs /\ lc[w] \in LifecycleRequest
    BY <1>7 DEF EvaluateDecide
  <2>2. life \in RunLifecycle /\ gcBacklogBytes' \in Int
    BY <1>7, <2>1, ComputedLifecycleTypes DEF LifecycleRequest, EvaluateDecide
  <2>3. [lc[w] EXCEPT !.pc = "upsert", !.life = life] \in LifecycleRequest
    BY <2>1, <2>2, Zenon DEF LifecycleRequest, LifecyclePC
  <2> QED BY <1>7, <2>1, <2>2, <2>3 DEF EvaluateDecide, LifecycleRequest
<1>8. ASSUME NEW w \in LifecycleWorkers, UpsertRunLifecycle(w) PROVE LifecycleTypeOK'
  <2>1. lc[w].run \in Runs /\ lc[w].life \in RunLifecycle
    BY <1>8 DEF UpsertRunLifecycle, LifecycleRequest
  <2> QED BY <1>8, <2>1, IdleRequestType DEF UpsertRunLifecycle, IdleRequest
<1>9. ASSUME NEW w \in LifecycleWorkers, LifecycleStoreError(w) PROVE LifecycleTypeOK'
  BY <1>9, IdleRequestType DEF LifecycleStoreError, IdleRequest
<1>10. ASSUME NEW n \in NodeAttemptKey, NEW s \in TerminalState, NotifyNodeTerminal(n, s)
       PROVE  LifecycleTypeOK'
  BY <1>10 DEF NotifyNodeTerminal, RecordNodeTerminal
<1>11. CASE Tick
  BY <1>11 DEF Tick
<1>12. ASSUME NEW k \in ArtifactKey, NEW a \in Offers, CommitArtifact(k, a) PROVE LifecycleTypeOK'
  BY <1>12, InventoryAssumption DEF CommitArtifact, PutArtifact
<1>13. CASE LifecycleRestart
  <2>1. artifacts' \in [ArtifactKey -> Artifact \cup {None}]
    BY <1>13, AfterRestartType, Zenon DEF LifecycleRestart
  <2>2. terminals' \in [NodeAttemptKey -> TerminalState \cup {None}]
    BY <1>13, AfterRestartType, Zenon DEF LifecycleRestart
  <2>3. lifecycles' \in [Runs -> RunLifecycle \cup {None}]
    BY <1>13, AfterRestartType, Zenon DEF LifecycleRestart
  <2> QED BY <1>13, <2>1, <2>2, <2>3, IdleRequestType DEF LifecycleRestart, IdleRequest
<1>14. CASE UNCHANGED lifecycleVars
  BY <1>14 DEF lifecycleVars
<1> QED BY <1>1, <1>2, <1>3, <1>4, <1>5, <1>6, <1>7, <1>8, <1>9, <1>10, <1>11, <1>12, <1>13, <1>14
        DEF LifecycleNext, LifecycleHandlers, LifecycleStep

\* The tables, the clock, the gauge and all requests in flight always have their types.
THEOREM LifecycleTypeCorrect == LifecycleSpec => []LifecycleTypeOK
BY TypeInit, TypeStep, PTL DEF LifecycleSpec

-----------------------------------------------------------------------------
(***************************************************************************)
(* Soundness of the stored lifecycles.                                      *)
(*                                                                          *)
(* GCEligibleSound is not inductive: the record that will be stored is held *)
(* in a request meanwhile, and its parts were read at different times.      *)
(* LifeSound says of one record, stored or in flight, what the tables and   *)
(* the clock justify.  The tables only grow and the clock only advances, so *)
(* what justified a record when it was read still does when it is written.  *)
(***************************************************************************)
LifeSound(arts, terms, t, r, life) ==
    /\ life.finalized => /\ life.finalizedAt \in Nat
                         /\ life.retentionUntil = life.finalizedAt + MinRetention
    /\ life.gcEligible => /\ life.finalized
                          /\ life.gcEligibleAt \in Nat
                          /\ life.retentionUntil <= life.gcEligibleAt
                          /\ life.gcEligibleAt <= t
                          /\ ListArtifactsByRun(arts, r) # {}
                          /\ ListNodeTerminalsByRun(terms, r) # {}
    /\ life.retainedArtifactCount <= Cardinality(ListArtifactsByRun(arts, r))
    /\ life.terminalNodeCount <= Cardinality(ListNodeTerminalsByRun(terms, r))

\* Every stored lifecycle and every lifecycle held by a request is sound.
LifecycleIInv ==
    /\ LifecycleTypeOK
    /\ \A r \in Runs : lifecycles[r] # None => LifeSound(artifacts, terminals, now, r, lifecycles[r])
    /\ \A w \in LifecycleWorkers :
          lc[w].pc # "idle" => LifeSound(artifacts, terminals, now, lc[w].run, lc[w].life)

\* A record that the tables and the clock justify stays justified as they grow.
LEMMA LifeSoundMonotone ==
    ASSUME NEW arts, NEW arts2, NEW terms, NEW terms2, NEW t \in Nat, NEW t2 \in Nat,
           NEW r, NEW life \in RunLifecycle,
           t <= t2,
           \A k \in ArtifactKey : arts[k] # None => arts2[k] # None,
           \A n \in NodeAttemptKey : terms[n] # None => terms2[n] # None,
           LifeSound(arts, terms, t, r, life)
    PROVE  LifeSound(arts2, terms2, t2, r, life)
<1> DEFINE A == ListArtifactsByRun(arts, r)
           A2 == ListArtifactsByRun(arts2, r)
           N == ListNodeTerminalsByRun(terms, r)
           N2 == ListNodeTerminalsByRun(terms2, r)
<1>1. A \subseteq A2 /\ N \subseteq N2
  BY DEF ListArtifactsByRun, ListNodeTerminalsByRun
<1>2. /\ IsFiniteSet(A2) /\ IsFiniteSet(N2)
      /\ Cardinality(A) \in Nat /\ Cardinality(A2) \in Nat
      /\ Cardinality(N) \in Nat /\ Cardinality(N2) \in Nat
  BY ListingsFinite
<1>3. Cardinality(A) <= Cardinality(A2) /\ Cardinality(N) <= Cardinality(N2)
  <2> HIDE DEF A, A2, N, N2
  <2> QED BY <1>1, <1>2, FS_Subset
<1>4. life.retainedArtifactCount \in Nat /\ life.terminalNodeCount \in Nat
  BY DEF RunLifecycle
<1>5. LifeSound(arts, terms, t, r, life)
  OBVIOUS
<1> HIDE DEF A, A2, N, N2
<1>6. /\ life.retainedArtifactCount <= Cardinality(A2)
      /\ life.terminalNodeCount <= Cardinality(N2)
  BY <1>2, <1>3, <1>4, <1>5 DEF LifeSound, A, N
<1>7. life.gcEligible => /\ life.gcEligibleAt \in Nat
                         /\ life.gcEligibleAt <= t2
                         /\ A2 # {} /\ N2 # {}
  BY <1>1, <1>5 DEF LifeSound, A, N
<1> QED BY <1>5, <1>6, <1>7 DEF LifeSound, A2, N2

\* A lifecycle nobody has written yet makes no claim.
LEMMA NewLifecycleSound ==
    ASSUME NEW arts, NEW terms, NEW t, NEW r
    PROVE  LifeSound(arts, terms, t, r, NewLifecycle)
<1>1. /\ Cardinality(ListArtifactsByRun(arts, r)) \in Nat
      /\ Cardinality(ListNodeTerminalsByRun(terms, r)) \in Nat
  BY ListingsFinite
<1> QED BY <1>1 DEF LifeSound, NewLifecycle

\* FinalizeRun's record claims no eligibility; its deadline is its time plus MinRetention.
LEMMA FinalizedSound ==
    ASSUME NEW r, NEW life \in RunLifecycle, NEW at \in Nat,
           LifeSound(artifacts, terminals, now, r, life)
    PROVE  LifeSound(artifacts, terminals, now, r, Finalized(life, at))
BY DEF LifeSound, Finalized, RunLifecycle

\* EvaluateRunGC grants eligibility only to a record that justifies it.
LEMMA EvaluatedSound ==
    ASSUME LifecycleTypeOK, NEW r, NEW life \in RunLifecycle,
           LifeSound(artifacts, terminals, now, r, life)
    PROVE  LifeSound(artifacts, terminals, now, r, Evaluated(life))
<1> DEFINE A == ListArtifactsByRun(artifacts, r)
           N == ListNodeTerminalsByRun(terminals, r)
           e == Evaluated(life)
<1>1. now \in Nat /\ MinRetention \in Nat /\ None \notin Nat
  BY LifecycleAssumption, NoneAssumption DEF LifecycleTypeOK
<1>2. /\ e.finalized = life.finalized
      /\ e.finalizedAt = life.finalizedAt
      /\ e.retentionUntil = life.retentionUntil
      /\ e.retainedArtifactCount = life.retainedArtifactCount
      /\ e.terminalNodeCount = life.terminalNodeCount
      /\ e.gcEligible = (GCBlockedReason(life) = "")
      /\ e.gcEligible => e.gcEligibleAt = now
  BY DEF Evaluated, RunLifecycle
<1>3. ASSUME GCBlockedReason(life) = ""
      PROVE  /\ life.finalized
             /\ life.terminalNodeCount # 0
             /\ life.retainedArtifactCount # 0
             /\ ~(life.retentionUntil # None /\ now < life.retentionUntil)
  BY <1>3 DEF GCBlockedReason
<1>4. ASSUME GCBlockedReason(life) = "" PROVE life.retentionUntil <= now
  <2>1. life.finalized /\ ~(life.retentionUntil # None /\ now < life.retentionUntil)
    BY <1>3, <1>4
  <2>2. life.finalizedAt \in Nat /\ life.retentionUntil = life.finalizedAt + MinRetention
    BY <2>1 DEF LifeSound
  <2>3. life.retentionUntil \in Nat
    BY <1>1, <2>2
  <2>4. life.retentionUntil # None
    BY <1>1, <2>3
  <2> QED BY <1>1, <2>1, <2>3, <2>4
<1>5. ASSUME GCBlockedReason(life) = "" PROVE A # {} /\ N # {}
  <2>1. life.retainedArtifactCount <= Cardinality(A) /\ life.terminalNodeCount <= Cardinality(N)
    BY DEF LifeSound
  <2>2. life.retainedArtifactCount \in Nat /\ life.terminalNodeCount \in Nat
    BY DEF RunLifecycle
  <2>3. life.retainedArtifactCount # 0 /\ life.terminalNodeCount # 0
    BY <1>3, <1>5
  <2>4. Cardinality(A) # 0 /\ Cardinality(N) # 0
    <3> HIDE DEF A, N
    <3> QED BY <2>1, <2>2, <2>3
  <2> QED BY <2>4, FS_EmptySet
<1> HIDE DEF e
<1>6. e.finalized => e.finalizedAt \in Nat /\ e.retentionUntil = e.finalizedAt + MinRetention
  BY <1>2 DEF LifeSound
<1>7. ASSUME e.gcEligible
      PROVE  /\ e.finalized
             /\ e.gcEligibleAt \in Nat
             /\ e.retentionUntil <= e.gcEligibleAt
             /\ e.gcEligibleAt <= now
             /\ A # {} /\ N # {}
  <2>1. GCBlockedReason(life) = "" /\ e.gcEligibleAt = now
    BY <1>2, <1>7
  <2>2. life.finalized /\ life.retentionUntil <= now /\ A # {} /\ N # {}
    BY <1>3, <1>4, <1>5, <2>1
  <2>3. now \in Nat /\ now <= now
    BY <1>1
  <2>4. e.finalized /\ e.retentionUntil <= now
    BY <1>2, <2>2, Zenon
  <2> QED BY <2>1, <2>2, <2>3, <2>4, Zenon
<1>8. e.retainedArtifactCount <= Cardinality(A) /\ e.terminalNodeCount <= Cardinality(N)
  BY <1>2 DEF LifeSound
<1>9. LifeSound(artifacts, terminals, now, r, e)
  BY <1>6, <1>7, <1>8 DEF LifeSound
<1> QED BY <1>9 DEF e


\* The invariant survives a step that only lets the tables and the clock grow.
LEMMA SoundWhenTablesGrow ==
    ASSUME LifecycleIInv, LifecycleTypeOK',
           \A k \in ArtifactKey : artifacts[k] # None => artifacts'[k] # None,
           \A n \in NodeAttemptKey : terminals[n] # None => terminals'[n] # None,
           now <= now', lifecycles' = lifecycles, lc' = lc
    PROVE  LifecycleIInv'
<1>1. now \in Nat /\ now' \in Nat
  BY DEF LifecycleIInv, LifecycleTypeOK
<1>2. ASSUME NEW r \in Runs, lifecycles[r] # None
      PROVE  LifeSound(artifacts', terminals', now', r, lifecycles[r])
  <2>1. lifecycles[r] \in RunLifecycle /\ LifeSound(artifacts, terminals, now, r, lifecycles[r])
    BY <1>2 DEF LifecycleIInv, LifecycleTypeOK
  <2> QED BY <1>1, <2>1, LifeSoundMonotone, Zenon
<1>3. ASSUME NEW w \in LifecycleWorkers, lc[w].pc # "idle"
      PROVE  LifeSound(artifacts', terminals', now', lc[w].run, lc[w].life)
  <2>1. lc[w].life \in RunLifecycle
    BY DEF LifecycleIInv, LifecycleTypeOK, LifecycleRequest
  <2>2. LifeSound(artifacts, terminals, now, lc[w].run, lc[w].life)
    BY <1>3 DEF LifecycleIInv
  <2> QED BY <1>1, <2>1, <2>2, LifeSoundMonotone, Zenon
<1> QED BY <1>2, <1>3 DEF LifecycleIInv

\* The invariant survives a step that replaces one request by one with a sound record.
LEMMA SoundWhenRequestMoves ==
    ASSUME LifecycleIInv, LifecycleTypeOK', NEW w \in LifecycleWorkers, NEW q,
           lc' = [lc EXCEPT ![w] = q],
           q.pc # "idle" => LifeSound(artifacts, terminals, now, q.run, q.life),
           UNCHANGED <<artifacts, terminals, lifecycles, now>>
    PROVE  LifecycleIInv'
<1>1. ASSUME NEW v \in LifecycleWorkers, lc'[v].pc # "idle"
      PROVE  LifeSound(artifacts, terminals, now, lc'[v].run, lc'[v].life)
  <2>1. CASE v = w
    <3>1. lc'[v] = q
      BY <2>1 DEF LifecycleIInv, LifecycleTypeOK
    <3> QED BY <1>1, <3>1
  <2>2. CASE v # w
    <3>1. lc'[v] = lc[v]
      BY <2>2 DEF LifecycleIInv, LifecycleTypeOK
    <3> QED BY <1>1, <3>1 DEF LifecycleIInv
  <2> QED BY <2>1, <2>2
<1> QED BY <1>1 DEF LifecycleIInv

\* What a request reads from the store is sound, found or not.
LEMMA StoredLifecycleSound ==
    ASSUME LifecycleIInv, NEW r \in Runs
    PROVE  LifeSound(artifacts, terminals, now, r, StoredLifecycle(r))
BY NewLifecycleSound DEF LifecycleIInv, StoredLifecycle

\* No record exists initially.
LEMMA SoundInit == LifecycleInit => LifecycleIInv
<1> SUFFICES ASSUME LifecycleInit PROVE LifecycleIInv
  OBVIOUS
<1>1. \A r \in Runs : lifecycles[r] = None
  BY DEF LifecycleInit, EmptyTable
<1>2. \A w \in LifecycleWorkers : lc[w].pc = "idle"
  BY DEF LifecycleInit, IdleRequest
<1> QED BY <1>1, <1>2, TypeInit DEF LifecycleIInv

\* Every step of every handler keeps every record sound.
LEMMA SoundStep == LifecycleIInv /\ [LifecycleNext]_lifecycleVars => LifecycleIInv'
<1> SUFFICES ASSUME LifecycleIInv, [LifecycleNext]_lifecycleVars
             PROVE  LifecycleIInv'
  OBVIOUS
<1>a. LifecycleTypeOK /\ LifecycleTypeOK'
  BY TypeStep DEF LifecycleIInv
<1>b. ASSUME NEW w \in LifecycleWorkers, lc[w].pc # "idle"
      PROVE  /\ lc[w].run \in Runs
             /\ lc[w].at \in Nat
             /\ lc[w].life \in RunLifecycle
             /\ lc[w] \in LifecycleRequest
             /\ LifeSound(artifacts, terminals, now, lc[w].run, lc[w].life)
  BY <1>b DEF LifecycleIInv, LifecycleTypeOK, LifecycleRequest
<1>1. ASSUME NEW w \in LifecycleWorkers, NEW r \in Runs, FinalizeRun(w, r) PROVE LifecycleIInv'
  <2> DEFINE q == [pc |-> "getLifecycle", op |-> "finalize", run |-> r, at |-> now,
                   life |-> NewLifecycle]
  <2>1. LifeSound(artifacts, terminals, now, q.run, q.life)
    BY NewLifecycleSound
  <2>2. lc' = [lc EXCEPT ![w] = q] /\ UNCHANGED <<artifacts, terminals, lifecycles, now>>
    BY <1>1 DEF FinalizeRun
  <2> HIDE DEF q
  <2> QED BY <1>a, <2>1, <2>2, SoundWhenRequestMoves, Zenon
<1>2. ASSUME NEW w \in LifecycleWorkers, NEW r \in Runs, EvaluateRunGC(w, r) PROVE LifecycleIInv'
  <2> DEFINE q == [pc |-> "listArtifacts", op |-> "evaluate", run |-> r, at |-> 0,
                   life |-> StoredLifecycle(r)]
  <2>1. LifeSound(artifacts, terminals, now, q.run, q.life)
    BY StoredLifecycleSound
  <2>2. lc' = [lc EXCEPT ![w] = q] /\ UNCHANGED <<artifacts, terminals, lifecycles, now>>
    BY <1>2 DEF EvaluateRunGC
  <2> HIDE DEF q
  <2> QED BY <1>a, <2>1, <2>2, SoundWhenRequestMoves, Zenon
<1>3. ASSUME NEW w \in LifecycleWorkers, FinalizeGetLifecycle(w) PROVE LifecycleIInv'
  <2>1. lc[w].run \in Runs /\ lc[w] \in LifecycleRequest
    BY <1>3, <1>b DEF FinalizeGetLifecycle
  <2>2. CASE lc' = [lc EXCEPT ![w] = IdleRequest]
    <3>1. IdleRequest.pc = "idle"
      BY DEF IdleRequest
    <3> QED BY <1>3, <1>a, <2>2, <3>1, SoundWhenRequestMoves, Zenon DEF FinalizeGetLifecycle
  <2>3. CASE lc' = [lc EXCEPT ![w].pc = "listArtifacts", ![w].life = StoredLifecycle(lc[w].run)]
    <3> DEFINE q == [lc[w] EXCEPT !.pc = "listArtifacts", !.life = StoredLifecycle(lc[w].run)]
    <3>1. q.run = lc[w].run /\ q.life = StoredLifecycle(lc[w].run)
      BY <2>1 DEF LifecycleRequest
    <3>2. lc' = [lc EXCEPT ![w] = q]
      BY <2>3, Zenon
    <3> HIDE DEF q
    <3>3. LifeSound(artifacts, terminals, now, q.run, q.life)
      BY <2>1, <3>1, StoredLifecycleSound
    <3> QED BY <1>3, <1>a, <3>2, <3>3, SoundWhenRequestMoves, Zenon DEF FinalizeGetLifecycle
  <2> QED BY <1>3, <2>2, <2>3 DEF FinalizeGetLifecycle
<1>4. ASSUME NEW w \in LifecycleWorkers, ListArtifacts(w) PROVE LifecycleIInv'
  <2> DEFINE rows == ListArtifactsByRun(artifacts, lc[w].run)
             bytes == RetainedBytes(rows)
             q == [lc[w] EXCEPT !.pc = "listTerminals", !.life.retainedArtifactCount = Cardinality(rows),
                                !.life.retainedArtifactBytes = bytes]
  <2>1. /\ lc[w].life \in RunLifecycle /\ lc[w] \in LifecycleRequest
        /\ LifeSound(artifacts, terminals, now, lc[w].run, lc[w].life)
    BY <1>4, <1>b DEF ListArtifacts
  <2>2. Cardinality(rows) \in Nat
    BY ListingsFinite
  <2>3. lc' = [lc EXCEPT ![w] = q] /\ UNCHANGED <<artifacts, terminals, lifecycles, now>>
    BY <1>4, Zenon DEF ListArtifacts
  <2> HIDE DEF bytes
  <2>4. /\ q.run = lc[w].run
        /\ q.life = [lc[w].life EXCEPT !.retainedArtifactCount = Cardinality(rows),
                                       !.retainedArtifactBytes = bytes]
    BY <2>1 DEF LifecycleRequest, RunLifecycle
  <2> HIDE DEF q
  <2>5. LifeSound(artifacts, terminals, now, q.run, q.life)
    BY <2>1, <2>2, <2>4 DEF LifeSound, RunLifecycle
  <2> QED BY <1>a, <2>3, <2>5, SoundWhenRequestMoves, Zenon
<1>5. ASSUME NEW w \in LifecycleWorkers, ListTerminals(w) PROVE LifecycleIInv'
  <2> DEFINE rows == ListNodeTerminalsByRun(terminals, lc[w].run)
             counts == [s \in TerminalState |-> Cardinality({n \in rows : terminals[n] = s})]
             q == [lc[w] EXCEPT !.pc = "decide", !.life.terminalNodeCount = Cardinality(rows),
                                !.life.stateCount = counts]
  <2>1. /\ lc[w].life \in RunLifecycle /\ lc[w] \in LifecycleRequest
        /\ LifeSound(artifacts, terminals, now, lc[w].run, lc[w].life)
    BY <1>5, <1>b DEF ListTerminals
  <2>2. Cardinality(rows) \in Nat
    BY ListingsFinite
  <2>3. lc' = [lc EXCEPT ![w] = q] /\ UNCHANGED <<artifacts, terminals, lifecycles, now>>
    BY <1>5, Zenon DEF ListTerminals
  <2> HIDE DEF counts
  <2>4. /\ q.run = lc[w].run
        /\ q.life = [lc[w].life EXCEPT !.terminalNodeCount = Cardinality(rows), !.stateCount = counts]
    BY <2>1 DEF LifecycleRequest, RunLifecycle
  <2> HIDE DEF q
  <2>5. LifeSound(artifacts, terminals, now, q.run, q.life)
    BY <2>1, <2>2, <2>4 DEF LifeSound, RunLifecycle
  <2> QED BY <1>a, <2>3, <2>5, SoundWhenRequestMoves
<1>6. ASSUME NEW w \in LifecycleWorkers, FinalizeDecide(w) PROVE LifecycleIInv'
  <2> DEFINE q == [lc[w] EXCEPT !.pc = "upsert", !.at = 0, !.life = Finalized(lc[w].life, lc[w].at)]
  <2>1. /\ lc[w].at \in Nat /\ lc[w].life \in RunLifecycle /\ lc[w] \in LifecycleRequest
        /\ LifeSound(artifacts, terminals, now, lc[w].run, lc[w].life)
    BY <1>6, <1>b DEF FinalizeDecide
  <2>2. lc' = [lc EXCEPT ![w] = q] /\ UNCHANGED <<artifacts, terminals, lifecycles, now>>
    BY <1>6, Zenon DEF FinalizeDecide
  <2>3. q.run = lc[w].run /\ q.life = Finalized(lc[w].life, lc[w].at)
    BY <2>1 DEF LifecycleRequest
  <2> HIDE DEF q
  <2>4. LifeSound(artifacts, terminals, now, q.run, q.life)
    BY <2>1, <2>3, FinalizedSound
  <2> QED BY <1>a, <2>2, <2>4, SoundWhenRequestMoves
<1>7. ASSUME NEW w \in LifecycleWorkers, EvaluateDecide(w) PROVE LifecycleIInv'
  <2> DEFINE q == [lc[w] EXCEPT !.pc = "upsert", !.life = Evaluated(lc[w].life)]
  <2>1. /\ lc[w].life \in RunLifecycle /\ lc[w] \in LifecycleRequest
        /\ LifeSound(artifacts, terminals, now, lc[w].run, lc[w].life)
    BY <1>7, <1>b DEF EvaluateDecide
  <2>2. lc' = [lc EXCEPT ![w] = q] /\ UNCHANGED <<artifacts, terminals, lifecycles, now>>
    BY <1>7, Zenon DEF EvaluateDecide
  <2>3. q.run = lc[w].run /\ q.life = Evaluated(lc[w].life)
    BY <2>1 DEF LifecycleRequest
  <2> HIDE DEF q
  <2>4. LifeSound(artifacts, terminals, now, q.run, q.life)
    BY <1>a, <2>1, <2>3, EvaluatedSound
  <2> QED BY <1>a, <2>2, <2>4, SoundWhenRequestMoves
<1>8. ASSUME NEW w \in LifecycleWorkers, UpsertRunLifecycle(w) PROVE LifecycleIInv'
  <2>1. lc[w].run \in Runs /\ LifeSound(artifacts, terminals, now, lc[w].run, lc[w].life)
    BY <1>8, <1>b DEF UpsertRunLifecycle
  <2>2. UNCHANGED <<artifacts, terminals, now>>
    BY <1>8 DEF UpsertRunLifecycle
  <2>3. ASSUME NEW r \in Runs, lifecycles'[r] # None
        PROVE  LifeSound(artifacts, terminals, now, r, lifecycles'[r])
    <3>1. CASE r = lc[w].run
      <4>1. lifecycles'[r] = lc[w].life
        BY <1>8, <1>a, <2>1, <3>1 DEF UpsertRunLifecycle, LifecycleTypeOK
      <4> QED BY <2>1, <3>1, <4>1
    <3>2. CASE r # lc[w].run
      <4>1. lifecycles'[r] = lifecycles[r]
        BY <1>8, <1>a, <2>1, <3>2 DEF UpsertRunLifecycle, LifecycleTypeOK
      <4> QED BY <2>3, <4>1 DEF LifecycleIInv
    <3> QED BY <3>1, <3>2
  <2>4. ASSUME NEW v \in LifecycleWorkers, lc'[v].pc # "idle" PROVE lc'[v] = lc[v]
    BY <1>8, <1>a, <2>4 DEF UpsertRunLifecycle, LifecycleTypeOK, IdleRequest
  <2>5. ASSUME NEW v \in LifecycleWorkers, lc'[v].pc # "idle"
        PROVE  LifeSound(artifacts, terminals, now, lc'[v].run, lc'[v].life)
    BY <2>4, <2>5 DEF LifecycleIInv
  <2> QED BY <1>a, <2>2, <2>3, <2>5 DEF LifecycleIInv
<1>9. ASSUME NEW w \in LifecycleWorkers, LifecycleStoreError(w) PROVE LifecycleIInv'
  <2>1. IdleRequest.pc = "idle"
    BY DEF IdleRequest
  <2> QED BY <1>9, <1>a, <2>1, SoundWhenRequestMoves, Zenon DEF LifecycleStoreError
<1>10. ASSUME NEW n \in NodeAttemptKey, NEW s \in TerminalState, NotifyNodeTerminal(n, s)
       PROVE  LifecycleIInv'
  <2>1. \A m \in NodeAttemptKey : terminals[m] # None => terminals'[m] # None
    BY <1>10, <1>a, NoneAssumption DEF NotifyNodeTerminal, RecordNodeTerminal, LifecycleTypeOK
  <2>2. now <= now'
    BY <1>10, <1>a DEF NotifyNodeTerminal, LifecycleTypeOK
  <2> QED BY <1>10, <1>a, <2>1, <2>2, SoundWhenTablesGrow DEF NotifyNodeTerminal
<1>11. CASE Tick
  <2>1. now <= now'
    BY <1>11, <1>a DEF Tick, LifecycleTypeOK
  <2> QED BY <1>11, <1>a, <2>1, SoundWhenTablesGrow DEF Tick
<1>12. ASSUME NEW k \in ArtifactKey, NEW a \in Offers, CommitArtifact(k, a) PROVE LifecycleIInv'
  <2>1. a # None
    BY InventoryAssumption, NoneAssumption
  <2>2. \A j \in ArtifactKey : artifacts[j] # None => artifacts'[j] # None
    BY <1>12, <1>a, <2>1 DEF CommitArtifact, PutArtifact, LifecycleTypeOK
  <2>3. now <= now'
    BY <1>12, <1>a DEF CommitArtifact, LifecycleTypeOK
  <2> QED BY <1>12, <1>a, <2>2, <2>3, SoundWhenTablesGrow DEF CommitArtifact
<1>13. CASE LifecycleRestart
  <2>1. \A w \in LifecycleWorkers : lc'[w].pc = "idle"
    BY <1>13 DEF LifecycleRestart, IdleRequest
  <2>2. CASE Backend = "sqlite"
    <3>1. UNCHANGED <<artifacts, terminals, lifecycles, now>>
      BY <1>13, <2>2 DEF LifecycleRestart, AfterRestart
    <3> QED BY <1>a, <2>1, <3>1 DEF LifecycleIInv
  <2>3. CASE Backend # "sqlite"
    <3>1. \A r \in Runs : lifecycles'[r] = None
      BY <1>13, <1>a, <2>3 DEF LifecycleRestart, AfterRestart, EmptyTable, LifecycleTypeOK
    <3> QED BY <1>a, <2>1, <3>1 DEF LifecycleIInv
  <2> QED BY <2>2, <2>3
<1>14. CASE UNCHANGED lifecycleVars
  BY <1>14, <1>a DEF lifecycleVars, LifecycleIInv
<1> QED BY <1>1, <1>2, <1>3, <1>4, <1>5, <1>6, <1>7, <1>8, <1>9, <1>10, <1>11, <1>12, <1>13, <1>14
        DEF LifecycleNext, LifecycleHandlers, LifecycleStep

\* A stored GC eligibility is justified under every interleaving of FinalizeRun,
\* EvaluateRunGC, registrations, terminals, store errors and restarts.
THEOREM GCEligibleIsSound == LifecycleSpec => []GCEligibleSound
<1>1. LifecycleIInv => GCEligibleSound
  <2> SUFFICES ASSUME LifecycleIInv, NEW r \in Runs, lifecycles[r] # None, lifecycles[r].gcEligible
               PROVE  /\ lifecycles[r].finalized
                      /\ lifecycles[r].finalizedAt + MinRetention <= lifecycles[r].gcEligibleAt
                      /\ lifecycles[r].gcEligibleAt <= now
                      /\ ListArtifactsByRun(artifacts, r) # {}
                      /\ ListNodeTerminalsByRun(terminals, r) # {}
    BY DEF GCEligibleSound
  <2>1. LifeSound(artifacts, terminals, now, r, lifecycles[r])
    BY DEF LifecycleIInv
  <2> QED BY <2>1 DEF LifeSound
<1> QED BY <1>1, SoundInit, SoundStep, PTL DEF LifecycleSpec

\* The counts of a stored lifecycle, read before it was written, never exceed the store's.
THEOREM SnapshotIsConservative == LifecycleSpec => []SnapshotNeverOverstates
<1>1. LifecycleIInv => SnapshotNeverOverstates
  BY Zenon DEF LifecycleIInv, SnapshotNeverOverstates, LifeSound, ListArtifactsByRun, ListNodeTerminalsByRun
<1> QED BY <1>1, SoundInit, SoundStep, PTL DEF LifecycleSpec
-----------------------------------------------------------------------------
(***************************************************************************)
(* Requests that do not overlap.                                            *)
(*                                                                          *)
(* FinalizeRun and EvaluateRunGC overwrite a Run's row with what they read  *)
(* before, so a deadline or an eligibility can be lost to a request of the  *)
(* same Run that started earlier and ends later.  That is the only way:     *)
(* under OnePerRun, requests of different Runs interleave freely, and two   *)
(* requests of one Run do not.                                              *)
(***************************************************************************)

\* With one worker no requests overlap.
LEMMA OneWorkerNeverOverlaps ==
    ASSUME \A v, w \in LifecycleWorkers : v = w
    PROVE  OnePerRun
BY DEF OnePerRun

(***************************************************************************)
(* What a request holds compared with the row st that it will overwrite:    *)
(* FinalizeRun only ever replaces a row that is not finalized, EvaluateRunGC *)
(* carries the row's deadline along, and where the row is eligible its      *)
(* counts, read again, are not zero.                                        *)
(***************************************************************************)
Fresh(q, st) ==
    /\ q.pc = "getLifecycle" => q.op = "finalize"
    /\ (q.op = "finalize" /\ q.pc # "getLifecycle") => ~st.finalized
    /\ q.op # "finalize" => /\ q.life.finalized = st.finalized
                            /\ q.life.retentionUntil = st.retentionUntil
    /\ (q.op # "finalize" /\ st.gcEligible) =>
          /\ q.pc \in {"listTerminals", "decide"} => q.life.retainedArtifactCount # 0
          /\ q.pc = "decide" => q.life.terminalNodeCount # 0
          /\ q.pc = "upsert" => q.life.gcEligible

SerialInv ==
    /\ LifecycleIInv
    /\ \A w \in LifecycleWorkers : lc[w].pc # "idle" => Fresh(lc[w], StoredLifecycle(lc[w].run))

\* The invariant survives a step that moves one request and writes no row.
LEMMA FreshWhenRequestMoves ==
    ASSUME SerialInv, LifecycleIInv', NEW w \in LifecycleWorkers, NEW q,
           lc' = [lc EXCEPT ![w] = q], UNCHANGED lifecycles,
           q.pc # "idle" => Fresh(q, StoredLifecycle(q.run))
    PROVE  SerialInv'
<1>1. lc \in [LifecycleWorkers -> LifecycleRequest]
  BY DEF SerialInv, LifecycleIInv, LifecycleTypeOK
<1>2. ASSUME NEW v \in LifecycleWorkers, lc'[v].pc # "idle"
      PROVE  Fresh(lc'[v], StoredLifecycle(lc'[v].run))
  <2>1. CASE v = w
    <3>1. lc'[v] = q
      BY <1>1, <2>1
    <3> QED BY <1>2, <3>1
  <2>2. CASE v # w
    <3>1. lc'[v] = lc[v]
      BY <1>1, <2>2
    <3> QED BY <1>2, <3>1 DEF SerialInv
  <2> QED BY <2>1, <2>2
<1>3. ASSUME NEW v \in LifecycleWorkers, lc'[v].pc # "idle"
      PROVE  Fresh(lc[v], StoredLifecycle(lc[v].run))'
  BY <1>2, <1>3 DEF StoredLifecycle
<1> QED BY <1>3 DEF SerialInv

\* An eligible row is finalized, its deadline has passed and its Run has rows to count.
LEMMA EligibleRow ==
    ASSUME LifecycleIInv, NEW r \in Runs, StoredLifecycle(r).gcEligible
    PROVE  /\ StoredLifecycle(r).finalized
           /\ StoredLifecycle(r).retentionUntil \in Nat
           /\ StoredLifecycle(r).retentionUntil <= now
           /\ Cardinality(ListArtifactsByRun(artifacts, r)) # 0
           /\ Cardinality(ListNodeTerminalsByRun(terminals, r)) # 0
<1> DEFINE st == StoredLifecycle(r)
           A == ListArtifactsByRun(artifacts, r)
           N == ListNodeTerminalsByRun(terminals, r)
<1>1. LifeSound(artifacts, terminals, now, r, st)
  BY StoredLifecycleSound
<1>2. now \in Nat /\ MinRetention \in Nat
  BY LifecycleAssumption DEF LifecycleIInv, LifecycleTypeOK
<1> HIDE DEF st
<1>3. /\ st.finalized /\ st.finalizedAt \in Nat
      /\ st.retentionUntil = st.finalizedAt + MinRetention
      /\ st.gcEligibleAt \in Nat /\ st.retentionUntil <= st.gcEligibleAt /\ st.gcEligibleAt <= now
      /\ A # {} /\ N # {}
  BY <1>1 DEF LifeSound, st
<1>4. IsFiniteSet(A) /\ IsFiniteSet(N)
  BY ListingsFinite
<1> HIDE DEF A, N
<1>5. Cardinality(A) # 0 /\ Cardinality(N) # 0
  BY <1>3, <1>4, FS_EmptySet
<1>6. st.retentionUntil \in Nat /\ st.retentionUntil <= now
  BY <1>2, <1>3
<1> QED BY <1>3, <1>5, <1>6 DEF st, A, N

\* Without overlap, every step keeps what the requests hold in line with the rows.
LEMMA SerialStep == SerialInv /\ OnePerRun /\ [LifecycleNext]_lifecycleVars => SerialInv'
<1> SUFFICES ASSUME SerialInv, OnePerRun, [LifecycleNext]_lifecycleVars
             PROVE  SerialInv'
  OBVIOUS
<1>a. LifecycleIInv /\ LifecycleIInv' /\ LifecycleTypeOK
  BY SoundStep DEF SerialInv, LifecycleIInv
<1>b. ASSUME NEW w \in LifecycleWorkers, lc[w].pc # "idle"
      PROVE  /\ lc[w].run \in Runs
             /\ lc[w].life \in RunLifecycle
             /\ lc[w] \in LifecycleRequest
             /\ Fresh(lc[w], StoredLifecycle(lc[w].run))
  BY <1>a, <1>b DEF SerialInv, LifecycleTypeOK, LifecycleRequest
<1>c. ASSUME UNCHANGED <<lifecycles, lc>> PROVE SerialInv'
  BY <1>a, <1>c DEF SerialInv, StoredLifecycle
<1>1. ASSUME NEW w \in LifecycleWorkers, NEW r \in Runs, FinalizeRun(w, r) PROVE SerialInv'
  <2> DEFINE q == [pc |-> "getLifecycle", op |-> "finalize", run |-> r, at |-> now,
                   life |-> NewLifecycle]
  <2>1. lc' = [lc EXCEPT ![w] = q] /\ UNCHANGED lifecycles
    BY <1>1 DEF FinalizeRun
  <2>2. q.pc = "getLifecycle" /\ q.op = "finalize"
    OBVIOUS
  <2> HIDE DEF q
  <2>3. Fresh(q, StoredLifecycle(q.run))
    BY <2>2 DEF Fresh
  <2> QED BY <1>a, <2>1, <2>3, FreshWhenRequestMoves, Zenon
<1>2. ASSUME NEW w \in LifecycleWorkers, NEW r \in Runs, EvaluateRunGC(w, r) PROVE SerialInv'
  <2> DEFINE q == [pc |-> "listArtifacts", op |-> "evaluate", run |-> r, at |-> 0,
                   life |-> StoredLifecycle(r)]
  <2>1. lc' = [lc EXCEPT ![w] = q] /\ UNCHANGED lifecycles
    BY <1>2 DEF EvaluateRunGC
  <2>2. q.pc = "listArtifacts" /\ q.op = "evaluate" /\ q.life = StoredLifecycle(q.run)
    OBVIOUS
  <2> HIDE DEF q
  <2>3. Fresh(q, StoredLifecycle(q.run))
    BY <2>2 DEF Fresh
  <2> QED BY <1>a, <2>1, <2>3, FreshWhenRequestMoves, Zenon
<1>3. ASSUME NEW w \in LifecycleWorkers, FinalizeGetLifecycle(w) PROVE SerialInv'
  <2> DEFINE st == StoredLifecycle(lc[w].run)
  <2>1. lc[w] \in LifecycleRequest /\ lc[w].pc = "getLifecycle" /\ lc[w].op = "finalize"
    BY <1>3, <1>b DEF FinalizeGetLifecycle, Fresh
  <2>2. CASE lc' = [lc EXCEPT ![w] = IdleRequest]
    <3>1. IdleRequest.pc = "idle"
      BY DEF IdleRequest
    <3> QED BY <1>3, <1>a, <2>2, <3>1, FreshWhenRequestMoves, Zenon DEF FinalizeGetLifecycle
  <2>3. CASE ~st.finalized /\ lc' = [lc EXCEPT ![w].pc = "listArtifacts", ![w].life = st]
    <3> DEFINE q == [lc[w] EXCEPT !.pc = "listArtifacts", !.life = st]
    <3>1. q.run = lc[w].run /\ q.op = "finalize" /\ q.pc = "listArtifacts"
      BY <2>1 DEF LifecycleRequest
    <3>2. lc' = [lc EXCEPT ![w] = q]
      BY <2>3, Zenon
    <3> HIDE DEF q
    <3>3. Fresh(q, StoredLifecycle(q.run))
      BY <2>3, <3>1 DEF Fresh
    <3> QED BY <1>3, <1>a, <3>2, <3>3, FreshWhenRequestMoves, Zenon DEF FinalizeGetLifecycle
  <2> QED BY <1>3, <2>2, <2>3 DEF FinalizeGetLifecycle
<1>4. ASSUME NEW w \in LifecycleWorkers, ListArtifacts(w) PROVE SerialInv'
  <2> DEFINE rows == ListArtifactsByRun(artifacts, lc[w].run)
             bytes == RetainedBytes(rows)
             count == Cardinality(rows)
             st == StoredLifecycle(lc[w].run)
             q == [lc[w] EXCEPT !.pc = "listTerminals", !.life.retainedArtifactCount = count,
                                !.life.retainedArtifactBytes = bytes]
  <2>1. /\ lc[w].life \in RunLifecycle /\ lc[w] \in LifecycleRequest /\ lc[w].run \in Runs
        /\ Fresh(lc[w], st) /\ lc[w].pc = "listArtifacts"
    BY <1>4, <1>b DEF ListArtifacts
  <2>2. st.gcEligible => count # 0
    BY <1>a, <2>1, EligibleRow
  <2>3. lc' = [lc EXCEPT ![w] = q] /\ UNCHANGED lifecycles
    BY <1>4, Zenon DEF ListArtifacts
  <2> HIDE DEF bytes, count
  <2>4. /\ q.run = lc[w].run /\ q.op = lc[w].op /\ q.pc = "listTerminals"
        /\ q.life.retainedArtifactCount = count
        /\ q.life.finalized = lc[w].life.finalized
        /\ q.life.retentionUntil = lc[w].life.retentionUntil
    BY <2>1, Zenon DEF LifecycleRequest, RunLifecycle
  <2>5. StoredLifecycle(q.run) = st
    BY <2>4
  <2> HIDE DEF q, st
  <2>6. Fresh(q, st)
    BY <2>1, <2>2, <2>4 DEF Fresh
  <2> QED BY <1>a, <2>3, <2>5, <2>6, FreshWhenRequestMoves, Zenon
<1>5. ASSUME NEW w \in LifecycleWorkers, ListTerminals(w) PROVE SerialInv'
  <2> DEFINE rows == ListNodeTerminalsByRun(terminals, lc[w].run)
             counts == [s \in TerminalState |-> Cardinality({n \in rows : terminals[n] = s})]
             count == Cardinality(rows)
             st == StoredLifecycle(lc[w].run)
             q == [lc[w] EXCEPT !.pc = "decide", !.life.terminalNodeCount = count,
                                !.life.stateCount = counts]
  <2>1. /\ lc[w].life \in RunLifecycle /\ lc[w] \in LifecycleRequest /\ lc[w].run \in Runs
        /\ Fresh(lc[w], st) /\ lc[w].pc = "listTerminals"
    BY <1>5, <1>b DEF ListTerminals
  <2>2. st.gcEligible => count # 0
    BY <1>a, <2>1, EligibleRow
  <2>3. lc' = [lc EXCEPT ![w] = q] /\ UNCHANGED lifecycles
    BY <1>5, Zenon DEF ListTerminals
  <2> HIDE DEF counts, count
  <2>4. /\ q.run = lc[w].run /\ q.op = lc[w].op /\ q.pc = "decide"
        /\ q.life.terminalNodeCount = count
        /\ q.life.retainedArtifactCount = lc[w].life.retainedArtifactCount
        /\ q.life.finalized = lc[w].life.finalized
        /\ q.life.retentionUntil = lc[w].life.retentionUntil
    BY <2>1, Zenon DEF LifecycleRequest, RunLifecycle
  <2>5. StoredLifecycle(q.run) = st
    BY <2>4
  <2> HIDE DEF q, st
  <2>6. Fresh(q, st)
    BY <2>1, <2>2, <2>4 DEF Fresh
  <2> QED BY <1>a, <2>3, <2>5, <2>6, FreshWhenRequestMoves
<1>6. ASSUME NEW w \in LifecycleWorkers, FinalizeDecide(w) PROVE SerialInv'
  <2> DEFINE st == StoredLifecycle(lc[w].run)
             q == [lc[w] EXCEPT !.pc = "upsert", !.at = 0, !.life = Finalized(lc[w].life, lc[w].at)]
  <2>1. lc[w] \in LifecycleRequest /\ Fresh(lc[w], st) /\ lc[w].pc = "decide" /\ lc[w].op = "finalize"
    BY <1>6, <1>b DEF FinalizeDecide
  <2>2. lc' = [lc EXCEPT ![w] = q] /\ UNCHANGED lifecycles
    BY <1>6, Zenon DEF FinalizeDecide
  <2>3. q.run = lc[w].run /\ q.op = "finalize" /\ q.pc = "upsert"
    BY <2>1 DEF LifecycleRequest
  <2>4. StoredLifecycle(q.run) = st
    BY <2>3
  <2> HIDE DEF q, st
  <2>5. Fresh(q, st)
    BY <2>1, <2>3 DEF Fresh
  <2> QED BY <1>a, <2>2, <2>4, <2>5, FreshWhenRequestMoves
<1>7. ASSUME NEW w \in LifecycleWorkers, EvaluateDecide(w) PROVE SerialInv'
  <2> DEFINE st == StoredLifecycle(lc[w].run)
             life == lc[w].life
             e == Evaluated(life)
             q == [lc[w] EXCEPT !.pc = "upsert", !.life = e]
  <2>1. /\ life \in RunLifecycle /\ lc[w] \in LifecycleRequest /\ lc[w].run \in Runs
        /\ Fresh(lc[w], st) /\ lc[w].pc = "decide" /\ lc[w].op = "evaluate"
    BY <1>7, <1>b DEF EvaluateDecide
  <2>2. lc' = [lc EXCEPT ![w] = q] /\ UNCHANGED lifecycles
    BY <1>7, Zenon DEF EvaluateDecide
  <2>3. q.run = lc[w].run /\ q.op = "evaluate" /\ q.pc = "upsert" /\ q.life = e
    BY <2>1 DEF LifecycleRequest
  <2>4. StoredLifecycle(q.run) = st
    BY <2>3
  <2>5. /\ e.finalized = life.finalized /\ e.retentionUntil = life.retentionUntil
        /\ e.gcEligible = (GCBlockedReason(life) = "")
    BY <2>1 DEF Evaluated, RunLifecycle
  <2> HIDE DEF q, e, life
  <2>6. ASSUME st.gcEligible PROVE GCBlockedReason(life) = ""
    <3>1. st.finalized /\ st.retentionUntil \in Nat /\ st.retentionUntil <= now
      BY <1>a, <2>1, <2>6, EligibleRow
    <3>2. now \in Nat
      BY <1>a DEF LifecycleTypeOK
    <3> HIDE DEF st
    <3>3. /\ life.finalized /\ life.retentionUntil = st.retentionUntil
          /\ life.retainedArtifactCount # 0 /\ life.terminalNodeCount # 0
      BY <2>1, <2>6, <3>1, Zenon DEF Fresh, life
    <3>4. ~(now < life.retentionUntil)
      BY <3>1, <3>2, <3>3
    <3> QED BY <3>3, <3>4 DEF GCBlockedReason
  <2> HIDE DEF st
  <2>7. life.finalized = st.finalized /\ life.retentionUntil = st.retentionUntil
    BY <2>1 DEF Fresh, life
  <2>8. Fresh(q, st)
    BY <2>3, <2>5, <2>6, <2>7 DEF Fresh
  <2> QED BY <1>a, <2>2, <2>4, <2>8, FreshWhenRequestMoves
<1>8. ASSUME NEW w \in LifecycleWorkers, UpsertRunLifecycle(w) PROVE SerialInv'
  <2>1. lc[w].run \in Runs /\ lc[w].pc = "upsert"
    BY <1>8, <1>b DEF UpsertRunLifecycle
  <2>2. ASSUME NEW v \in LifecycleWorkers, lc'[v].pc # "idle"
        PROVE  Fresh(lc[v], StoredLifecycle(lc[v].run))'
    <3>1. v # w /\ lc'[v] = lc[v]
      BY <1>8, <1>a, <2>2 DEF UpsertRunLifecycle, LifecycleTypeOK, IdleRequest
    <3>2. lc[v].run # lc[w].run /\ lc[v].run \in Runs
      BY <1>b, <2>1, <2>2, <3>1 DEF OnePerRun
    <3>3. lifecycles'[lc[v].run] = lifecycles[lc[v].run]
      BY <1>8, <1>a, <2>1, <3>2 DEF UpsertRunLifecycle, LifecycleTypeOK
    <3>4. StoredLifecycle(lc[v].run)' = StoredLifecycle(lc[v].run)
      BY <3>1, <3>3 DEF StoredLifecycle
    <3> QED BY <1>b, <2>2, <3>1, <3>4
  <2> QED BY <1>a, <2>2 DEF SerialInv
<1>9. ASSUME NEW w \in LifecycleWorkers, LifecycleStoreError(w) PROVE SerialInv'
  <2>1. IdleRequest.pc = "idle"
    BY DEF IdleRequest
  <2> QED BY <1>9, <1>a, <2>1, FreshWhenRequestMoves, Zenon DEF LifecycleStoreError
<1>10. ASSUME NEW n \in NodeAttemptKey, NEW s \in TerminalState, NotifyNodeTerminal(n, s)
       PROVE  SerialInv'
  BY <1>10, <1>c DEF NotifyNodeTerminal
<1>11. CASE Tick
  BY <1>11, <1>c DEF Tick
<1>12. ASSUME NEW k \in ArtifactKey, NEW a \in Offers, CommitArtifact(k, a) PROVE SerialInv'
  BY <1>12, <1>c DEF CommitArtifact
<1>13. CASE LifecycleRestart
  BY <1>13, <1>a DEF LifecycleRestart, IdleRequest, SerialInv
<1>14. CASE UNCHANGED lifecycleVars
  BY <1>14, <1>c DEF lifecycleVars
<1> QED BY <1>1, <1>2, <1>3, <1>4, <1>5, <1>6, <1>7, <1>8, <1>9, <1>10, <1>11, <1>12, <1>13, <1>14
        DEF LifecycleNext, LifecycleHandlers, LifecycleStep

\* No request is in flight initially.
LEMMA SerialInit == LifecycleInit => SerialInv
BY SoundInit DEF LifecycleInit, SerialInv, IdleRequest

\* A step changes no row but the one its request writes, and keeps all rows over a restart
\* of a persistent store.
LEMMA RowsChange ==
    ASSUME LifecycleTypeOK, Backend = "sqlite" \/ ~Faults, [LifecycleNext]_lifecycleVars, NEW r \in Runs
    PROVE  \/ lifecycles'[r] = lifecycles[r]
           \/ \E w \in LifecycleWorkers :
                 lc[w].pc = "upsert" /\ lc[w].run = r /\ lifecycles'[r] = lc[w].life
<1>1. UNCHANGED lifecycles \/ \E w \in LifecycleWorkers : UpsertRunLifecycle(w)
  BY ZenonT(30) DEF LifecycleNext, LifecycleHandlers, LifecycleStep, FinalizeRun, EvaluateRunGC,
     FinalizeGetLifecycle, ListTerminals, ListArtifacts, FinalizeDecide, EvaluateDecide,
     LifecycleStoreError, NotifyNodeTerminal, Tick, CommitArtifact, LifecycleRestart, AfterRestart,
     lifecycleVars
<1>2. ASSUME NEW w \in LifecycleWorkers, UpsertRunLifecycle(w), lifecycles'[r] # lifecycles[r]
      PROVE  lc[w].pc = "upsert" /\ lc[w].run = r /\ lifecycles'[r] = lc[w].life
  BY <1>2 DEF UpsertRunLifecycle, LifecycleTypeOK
<1> QED BY <1>1, <1>2, SMTT(20)

\* While requests of one Run do not overlap and the store persists, the retention deadline
\* of a finalized Run never moves, whatever FinalizeRun and EvaluateRunGC calls follow.
THEOREM RetentionIsFixed ==
    ASSUME Backend = "sqlite" \/ ~Faults
    PROVE  LifecycleSpec /\ []OnePerRun => RetentionFixed
<1> DEFINE Fixed == \A r \in Runs :
                       (lifecycles[r] # None /\ lifecycles[r].finalized) =>
                           /\ lifecycles'[r] # None
                           /\ lifecycles'[r].retentionUntil = lifecycles[r].retentionUntil
<1>1. ASSUME SerialInv, [LifecycleNext]_lifecycleVars PROVE Fixed
  <2> SUFFICES ASSUME NEW r \in Runs, lifecycles[r] # None, lifecycles[r].finalized
               PROVE  /\ lifecycles'[r] # None
                      /\ lifecycles'[r].retentionUntil = lifecycles[r].retentionUntil
    OBVIOUS
  <2>1. LifecycleTypeOK
    BY <1>1 DEF SerialInv, LifecycleIInv
  <2>2. ASSUME NEW w \in LifecycleWorkers, lc[w].pc = "upsert", lc[w].run = r,
               lifecycles'[r] = lc[w].life
        PROVE  /\ lifecycles'[r] # None
               /\ lifecycles'[r].retentionUntil = lifecycles[r].retentionUntil
    <3>1. Fresh(lc[w], lifecycles[r])
      BY <1>1, <2>2 DEF SerialInv, StoredLifecycle
    <3>2. lc[w].life \in RunLifecycle
      BY <2>1 DEF LifecycleTypeOK, LifecycleRequest
    <3> QED BY <2>2, <3>1, <3>2, NoLifecycleAssumption, Zenon DEF Fresh
  <2> QED BY <1>1, <2>1, <2>2, RowsChange
<1> QED BY <1>1, SerialInit, SerialStep, PTL DEF LifecycleSpec, RetentionFixed

\* While requests of one Run do not overlap and the store persists, a committed GC
\* eligibility is never taken back: EvaluateRunGC finds it justified again.
THEOREM EligibilityIsFinal ==
    ASSUME Backend = "sqlite" \/ ~Faults
    PROVE  LifecycleSpec /\ []OnePerRun => GCEligibleStays
<1> DEFINE Stays == \A r \in Runs :
                       (lifecycles[r] # None /\ lifecycles[r].gcEligible) =>
                           lifecycles'[r] # None /\ lifecycles'[r].gcEligible
<1>1. ASSUME SerialInv, [LifecycleNext]_lifecycleVars PROVE Stays
  <2> SUFFICES ASSUME NEW r \in Runs, lifecycles[r] # None, lifecycles[r].gcEligible
               PROVE  lifecycles'[r] # None /\ lifecycles'[r].gcEligible
    OBVIOUS
  <2>1. LifecycleTypeOK /\ lifecycles[r].finalized
    BY <1>1, Zenon DEF SerialInv, LifecycleIInv, LifeSound
  <2>2. ASSUME NEW w \in LifecycleWorkers, lc[w].pc = "upsert", lc[w].run = r,
               lifecycles'[r] = lc[w].life
        PROVE  lifecycles'[r] # None /\ lifecycles'[r].gcEligible
    <3>1. Fresh(lc[w], lifecycles[r])
      BY <1>1, <2>2 DEF SerialInv, StoredLifecycle
    <3>2. lc[w].life \in RunLifecycle
      BY <2>1 DEF LifecycleTypeOK, LifecycleRequest
    <3> QED BY <2>1, <2>2, <3>1, <3>2, NoLifecycleAssumption DEF Fresh
  <2> QED BY <1>1, <2>1, <2>2, RowsChange
<1> QED BY <1>1, SerialInit, SerialStep, PTL DEF LifecycleSpec, GCEligibleStays

-----------------------------------------------------------------------------
(***************************************************************************)
(* The gauge.  The Run r it was last set for either still holds its record  *)
(* in a request about to write it, or has it stored with no request about   *)
(* to overwrite it: any such request has set the gauge anew.                *)
(***************************************************************************)
Backs(life) == life.gcEligible /\ life.retainedArtifactBytes = gcBacklogBytes

BacklogOf(r) ==
    \/ \E w \in LifecycleWorkers : lc[w].pc = "upsert" /\ lc[w].run = r /\ Backs(lc[w].life)
    \/ /\ lifecycles[r] # None /\ Backs(lifecycles[r])
       /\ \A w \in LifecycleWorkers : lc[w].pc = "upsert" => lc[w].run # r

BacklogInv ==
    /\ LifecycleTypeOK
    /\ gcBacklogBytes # 0 => gcBacklogBytes > 0 /\ \E r \in Runs : BacklogOf(r)

\* Without failing upserts and without overlap, every step keeps the gauge attributed.
LEMMA BacklogStep ==
    ASSUME ~Faults
    PROVE  BacklogInv /\ OnePerRun /\ [LifecycleNext]_lifecycleVars => BacklogInv'
<1> SUFFICES ASSUME BacklogInv, OnePerRun, [LifecycleNext]_lifecycleVars PROVE BacklogInv'
  OBVIOUS
<1>a. LifecycleTypeOK /\ LifecycleTypeOK'
  BY TypeStep DEF BacklogInv
<1>b. lc \in [LifecycleWorkers -> LifecycleRequest] /\ lifecycles \in [Runs -> RunLifecycle \cup {None}]
  BY <1>a DEF LifecycleTypeOK
<1>c. ASSUME UNCHANGED <<gcBacklogBytes, lifecycles>>,
             \A v \in LifecycleWorkers :
                 (lc[v].pc = "upsert" \/ lc'[v].pc = "upsert") => lc'[v] = lc[v]
      PROVE  BacklogInv'
  <2>1. ASSUME NEW r \in Runs, BacklogOf(r) PROVE BacklogOf(r)'
    BY <1>c, <2>1 DEF BacklogOf, Backs
  <2> QED BY <1>a, <1>c, <2>1 DEF BacklogInv
<1>d. ASSUME NEW w \in LifecycleWorkers, NEW q, lc' = [lc EXCEPT ![w] = q], q.pc # "upsert",
             lc[w].pc # "upsert"
      PROVE  \A v \in LifecycleWorkers :
                 (lc[v].pc = "upsert" \/ lc'[v].pc = "upsert") => lc'[v] = lc[v]
  BY <1>b, <1>d
<1>1. ASSUME NEW w \in LifecycleWorkers, NEW r \in Runs, FinalizeRun(w, r) \/ EvaluateRunGC(w, r)
      PROVE  BacklogInv'
  <2>1. PICK q : lc' = [lc EXCEPT ![w] = q] /\ q.pc # "upsert"
    BY <1>1 DEF FinalizeRun, EvaluateRunGC
  <2>2. lc[w].pc # "upsert" /\ UNCHANGED <<gcBacklogBytes, lifecycles>>
    BY <1>1 DEF FinalizeRun, EvaluateRunGC
  <2> QED BY <1>c, <1>d, <2>1, <2>2
<1>2. ASSUME NEW w \in LifecycleWorkers, FinalizeGetLifecycle(w) \/ ListArtifacts(w) \/ ListTerminals(w)
      PROVE  BacklogInv'
  <2>1. lc[w] \in LifecycleRequest
    BY <1>b
  <2>2. \A v \in LifecycleWorkers : v # w => lc'[v] = lc[v]
    BY <1>2, <1>b DEF FinalizeGetLifecycle, ListArtifacts, ListTerminals
  <2>3. lc'[w].pc # "upsert"
    BY <1>2, <1>b, <2>1 DEF FinalizeGetLifecycle, ListArtifacts, ListTerminals, LifecycleRequest, IdleRequest
  <2>4. lc[w].pc # "upsert" /\ UNCHANGED <<gcBacklogBytes, lifecycles>>
    BY <1>2 DEF FinalizeGetLifecycle, ListArtifacts, ListTerminals
  <2> QED BY <1>c, <2>2, <2>3, <2>4
<1>3. ASSUME NEW w \in LifecycleWorkers, FinalizeDecide(w) PROVE BacklogInv'
  BY <1>3, <1>a DEF FinalizeDecide, BacklogInv
<1>4. ASSUME NEW w \in LifecycleWorkers, EvaluateDecide(w) PROVE BacklogInv'
  <2> DEFINE e == Evaluated(lc[w].life)
             q == [lc[w] EXCEPT !.pc = "upsert", !.life = e]
  <2>1. lc[w] \in LifecycleRequest /\ lc[w].run \in Runs
    BY <1>4, <1>a DEF EvaluateDecide, LifecycleTypeOK
  <2>2. gcBacklogBytes' = estimateGCBacklogBytes(e) /\ lc' = [lc EXCEPT ![w] = q]
    BY <1>4, Zenon DEF EvaluateDecide
  <2>3. q.pc = "upsert" /\ q.run = lc[w].run /\ q.life = e
    BY <2>1 DEF LifecycleRequest
  <2> HIDE DEF q, e
  <2>4. lc'[w] = q
    BY <1>b, <2>2
  <2>5. ASSUME gcBacklogBytes' # 0
        PROVE  gcBacklogBytes' > 0 /\ e.gcEligible /\ e.retainedArtifactBytes = gcBacklogBytes'
    BY <2>2, <2>5 DEF estimateGCBacklogBytes
  <2>6. gcBacklogBytes' # 0 => gcBacklogBytes' > 0 /\ \E r \in Runs : BacklogOf(r)'
    <3> SUFFICES ASSUME gcBacklogBytes' # 0 PROVE gcBacklogBytes' > 0 /\ \E r \in Runs : BacklogOf(r)'
      OBVIOUS
    <3>1. PICK r \in Runs : r = lc[w].run
      BY <2>1
    <3>2. BacklogOf(r)'
      BY <2>3, <2>4, <2>5, <3>1 DEF BacklogOf, Backs
    <3> QED BY <2>5, <3>2
  <2> QED BY <1>a, <2>6 DEF BacklogInv
<1>5. ASSUME NEW w \in LifecycleWorkers, UpsertRunLifecycle(w) PROVE BacklogInv'
  <2> DEFINE s == lc[w].run
  <2>1. /\ lc[w].pc = "upsert" /\ s \in Runs /\ lc[w].life \in RunLifecycle
        /\ lifecycles'[s] = lc[w].life /\ lifecycles'[s] # None
        /\ gcBacklogBytes' = gcBacklogBytes
    BY <1>5, <1>a, <1>b, NoLifecycleAssumption DEF UpsertRunLifecycle, LifecycleTypeOK, LifecycleRequest
  <2>2. \A r \in Runs : r # s => lifecycles'[r] = lifecycles[r]
    BY <1>5, <1>b DEF UpsertRunLifecycle
  <2>3. lc'[w].pc = "idle" /\ \A v \in LifecycleWorkers : v # w => lc'[v] = lc[v]
    BY <1>5, <1>b DEF UpsertRunLifecycle, IdleRequest
  <2>4. \A v \in LifecycleWorkers : (v # w /\ lc[v].pc = "upsert") => lc[v].run # s
    BY <2>1 DEF OnePerRun
  <2> HIDE DEF s
  <2>5. ASSUME NEW r \in Runs, NEW v \in LifecycleWorkers, lc[v].pc = "upsert", lc[v].run = r,
               Backs(lc[v].life)
        PROVE  BacklogOf(r)'
    <3>1. CASE v = w
      <4>1. r = s
        BY <2>5, <3>1 DEF s
      <4>2. lifecycles'[r] # None /\ lifecycles'[r] = lc[w].life
        BY <2>1, <4>1
      <4>3. \A u \in LifecycleWorkers : lc'[u].pc = "upsert" => lc'[u].run # r
        BY <2>3, <2>4, <4>1
      <4> QED BY <2>1, <2>5, <3>1, <4>2, <4>3 DEF BacklogOf, Backs
    <3>2. CASE v # w
      BY <2>1, <2>3, <2>5, <3>2 DEF BacklogOf, Backs
    <3> QED BY <3>1, <3>2
  <2>6. ASSUME NEW r \in Runs, lifecycles[r] # None, Backs(lifecycles[r]),
               \A v \in LifecycleWorkers : lc[v].pc = "upsert" => lc[v].run # r
        PROVE  BacklogOf(r)'
    <3>1. r # s
      BY <2>1, <2>6 DEF s
    <3>2. lifecycles'[r] = lifecycles[r]
      BY <2>2, <3>1
    <3>3. \A u \in LifecycleWorkers : lc'[u].pc = "upsert" => lc'[u].run # r
      BY <2>3, <2>6
    <3> QED BY <2>1, <2>6, <3>2, <3>3 DEF BacklogOf, Backs
  <2>7. \A r \in Runs : BacklogOf(r) => BacklogOf(r)'
    BY <2>5, <2>6 DEF BacklogOf
  <2> QED BY <1>a, <2>1, <2>7 DEF BacklogInv
<1>6. ASSUME UNCHANGED <<gcBacklogBytes, lifecycles, lc>> PROVE BacklogInv'
  BY <1>c, <1>6
<1>7. ASSUME NEW n \in NodeAttemptKey, NEW s \in TerminalState, NotifyNodeTerminal(n, s)
      PROVE  BacklogInv'
  BY <1>6, <1>7 DEF NotifyNodeTerminal
<1>8. ASSUME NEW k \in ArtifactKey, NEW a \in Offers, CommitArtifact(k, a) PROVE BacklogInv'
  BY <1>6, <1>8 DEF CommitArtifact
<1>9. CASE Tick \/ UNCHANGED lifecycleVars
  BY <1>6, <1>9 DEF Tick, lifecycleVars
<1>10. ~LifecycleRestart /\ \A w \in LifecycleWorkers : ~LifecycleStoreError(w)
  BY DEF LifecycleRestart, LifecycleStoreError
<1> QED BY <1>1, <1>2, <1>3, <1>4, <1>5, <1>7, <1>8, <1>9, <1>10
        DEF LifecycleNext, LifecycleHandlers, LifecycleStep

\* The backlog gauge is never negative and, where upserts succeed and requests of one Run do
\* not overlap, always the bytes of a Run whose eligibility is stored or being stored.
THEOREM BacklogIsSomeRuns ==
    ASSUME ~Faults
    PROVE  LifecycleSpec /\ []OnePerRun => []BacklogHasARun
<1>1. LifecycleInit => BacklogInv
  BY TypeInit DEF LifecycleInit, BacklogInv
<1>2. BacklogInv => BacklogHasARun
  BY DEF BacklogInv, BacklogOf, Backs, BacklogHasARun
<1> QED BY <1>1, <1>2, BacklogStep, PTL DEF LifecycleSpec
=============================================================================
