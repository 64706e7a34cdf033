---------------------------- MODULE HandoffProofs ----------------------------
(***************************************************************************)
(* The service, for every value of the constants: what ResolveHandoff       *)
(* answered stays true, whatever the other handlers do.                     *)
(***************************************************************************)
EXTENDS Handoff, CatalogProofs, LifecycleProofs

\* What a resolve request holds.
ResolveKnows(q) ==
    /\ {"pc", "binding", "art"} \subseteq DOMAIN q
    /\ q.pc \in {"getArtifact", "getTerminal", "listSources"} => q.binding \in Bindings
    /\ q.pc = "listSources" => q.art \in Artifact

(***************************************************************************)
(* The catalog's own invariant, with what the mapping needs on top of it: a *)
(* registration in flight carries an offered artifact, and a resolve        *)
(* request the artifact it read.                                            *)
(***************************************************************************)
HandoffInv ==
    /\ CatalogInv
    /\ \A w \in CatalogWorkers : cat[w].pc \in {"putArtifact", "putSources"} => cat[w].art \in Offers
    /\ hr = [w \in ResolveWorkers |-> hr[w]]
    /\ \A w \in ResolveWorkers : ResolveKnows(hr[w])

-----------------------------------------------------------------------------
(* The invariant.                                                           *)

\* The catalog's invariant survives node names filled in by a resolve request.
LEMMA FillKeepsCatalog ==
    ASSUME CatalogInv, artifacts' \in ArtifactTable, ArtifactsKept(artifacts, artifacts'),
           UNCHANGED <<sources, cat>>
    PROVE  CatalogInv'
<1>1. \A w \in CatalogWorkers : Knows(cat'[w], artifacts', sources')
  BY StillKnows, SameTables DEF CatalogInv
<1>2. SourceDigestAgrees'
  BY StillAgree
<1> QED BY <1>1, <1>2 DEF CatalogInv

\* A registration takes its artifact from the offers and keeps it to the end.
LEMMA OfferedStep ==
    ASSUME HandoffInv, CatalogHandlers
    PROVE  \A w \in CatalogWorkers : cat'[w].pc \in {"putArtifact", "putSources"} => cat'[w].art \in Offers
<1> DEFINE Offered(q) == q.pc \in {"putArtifact", "putSources"} => q.art \in Offers
<1>1. cat \in [CatalogWorkers -> CatalogRequest] /\ \A w \in CatalogWorkers : Offered(cat[w])
  BY DEF HandoffInv, CatalogInv
<1>2. ASSUME NEW w \in CatalogWorkers, NEW q, Offered(q), cat' = [cat EXCEPT ![w] = q]
      PROVE  \A v \in CatalogWorkers : Offered(cat'[v])
  BY <1>1, <1>2
<1>3. \A req \in CatalogRequest : \A err : Offered([req EXCEPT !.pc = "reply", !.err = err])
  BY DEF CatalogRequest
<1>4. NoRequest \in CatalogRequest /\ Offered(NoRequest)
  BY FailKnows, Zenon DEF ErrClass, NoRequest
<1>5. ASSUME NEW w \in CatalogWorkers, NEW err, Fail(w, err)
      PROVE  \A v \in CatalogWorkers : Offered(cat'[v])
  <2> DEFINE q == [NoRequest EXCEPT !.pc = "reply", !.err = err]
  <2>1. Offered(q)
    BY <1>3, <1>4
  <2>2. cat' = [cat EXCEPT ![w] = q]
    BY <1>5 DEF Fail, Answer
  <2> HIDE DEF q, Offered
  <2> QED BY <1>2, <2>1, <2>2, ZenonT(30)
<1>6. ASSUME NEW w \in CatalogWorkers, NEW k \in ArtifactKey, NEW a \in Offers, RegisterArtifact(w, k, a)
      PROVE  \A v \in CatalogWorkers : Offered(cat'[v])
  <2> DEFINE req == [NoRequest EXCEPT !.op = "register", !.key = k, !.art = a]
  <2>1. req \in CatalogRequest
    BY InventoryAssumption, Zenon DEF NoRequest, CatalogRequest, CatalogPC, ErrClass
  <2>2. Offered([req EXCEPT !.pc = "putArtifact"])
    BY DEF NoRequest
  <2>3. \/ Fail(w, "other")
        \/ cat' = [cat EXCEPT ![w] = [req EXCEPT !.pc = "reply", !.err = "AlreadyExists"]]
        \/ cat' = [cat EXCEPT ![w] = [req EXCEPT !.pc = "putArtifact"]]
    BY <1>6 DEF RegisterArtifact, Answer
  <2> HIDE DEF req, Offered
  <2> QED BY <1>2, <1>3, <1>5, <2>1, <2>2, <2>3, Zenon
<1>7. ASSUME NEW w \in CatalogWorkers, RegisterPutArtifact(w)
      PROVE  \A v \in CatalogWorkers : Offered(cat'[v])
  <2>1. cat[w].pc = "putArtifact" /\ cat[w] \in CatalogRequest
    BY <1>1, <1>7 DEF RegisterPutArtifact
  <2>2. Offered([cat[w] EXCEPT !.pc = "putSources"])
    BY <1>1, <2>1 DEF CatalogRequest
  <2>3. Fail(w, "other") \/ cat' = [cat EXCEPT ![w] = [cat[w] EXCEPT !.pc = "putSources"]]
    BY <1>1, <1>7, SMTT(20) DEF RegisterPutArtifact
  <2> HIDE DEF Offered
  <2> QED BY <1>2, <1>5, <2>2, <2>3
<1>8. ASSUME NEW w \in CatalogWorkers, RegisterPutSources(w) \/ RereadSource(w)
      PROVE  \A v \in CatalogWorkers : Offered(cat'[v])
  <2>1. Fail(w, "other") \/ cat' = [cat EXCEPT ![w] = [cat[w] EXCEPT !.pc = "reply", !.err = ""]]
    BY <1>8, SMTT(20) DEF RegisterPutSources, RereadSource, Answer
  <2> HIDE DEF Offered
  <2> QED BY <1>1, <1>2, <1>3, <1>5, <2>1, ZenonT(30)
<1>9. ASSUME NEW w \in CatalogWorkers, PutSource(w)
      PROVE  \A v \in CatalogWorkers : Offered(cat'[v])
  <2>1. \/ Fail(w, "other")
        \/ cat' = [cat EXCEPT ![w] = [cat[w] EXCEPT !.pc = "reply", !.err = "AlreadyExists"]]
        \/ cat' = [cat EXCEPT ![w] = [cat[w] EXCEPT !.pc = "reread"]]
    BY <1>1, <1>9 DEF PutSource, Answer
  <2>2. Offered([cat[w] EXCEPT !.pc = "reread"])
    BY <1>1 DEF CatalogRequest
  <2> HIDE DEF Offered
  <2> QED BY <1>1, <1>2, <1>3, <1>5, <2>1, <2>2, ZenonT(30)
<1>10. ASSUME NEW w \in CatalogWorkers, NEW k \in ArtifactKey, NEW o \in SourceOffers, AddSource(w, k, o)
       PROVE  \A v \in CatalogWorkers : Offered(cat'[v])
  <2> DEFINE q == [NoRequest EXCEPT !.pc = "putSource", !.op = "add",
                                    !.id = IF o.id = None THEN <<k, o.backend, o.loc>> ELSE o.id,
                                    !.src = AddedSource(k, o)]
  <2>1. Fail(w, "NotFound") \/ Fail(w, "other") \/ cat' = [cat EXCEPT ![w] = q]
    BY <1>10 DEF AddSource
  <2>2. q.pc = "putSource"
    BY DEF NoRequest
  <2> HIDE DEF q
  <2>3. Offered(q)
    BY <2>2
  <2> HIDE DEF Offered
  <2> QED BY <1>2, <1>5, <2>1, <2>3
<1>11. ASSUME NEW w \in CatalogWorkers, NEW id \in SourceID, NEW st \in RequestedStates,
              UpdateSourceState(w, id, st)
       PROVE  \A v \in CatalogWorkers : Offered(cat'[v])
  <2> DEFINE q == [NoRequest EXCEPT !.pc = "getArtifact", !.op = "update", !.id = id,
                                    !.src = [sources[id] EXCEPT !.state = st]]
  <2>1. Fail(w, "NotFound") \/ Fail(w, "other") \/ cat' = [cat EXCEPT ![w] = q]
    BY <1>11 DEF UpdateSourceState
  <2>2. q.pc = "getArtifact"
    BY DEF NoRequest
  <2> HIDE DEF q
  <2>3. Offered(q)
    BY <2>2
  <2> HIDE DEF Offered
  <2> QED BY <1>2, <1>5, <2>1, <2>3
<1>12. ASSUME NEW w \in CatalogWorkers, NEW id \in SourceID, VerifySource(w, id)
       PROVE  \A v \in CatalogWorkers : Offered(cat'[v])
  <2> DEFINE q == [NoRequest EXCEPT !.pc = "getArtifact", !.op = "verify", !.id = id,
                                    !.src = GetArtifactSource(artifacts, sources, id)]
  <2>1. Fail(w, "NotFound") \/ Fail(w, "FailedPrecondition") \/ cat' = [cat EXCEPT ![w] = q]
    BY <1>12 DEF VerifySource
  <2>2. q.pc = "getArtifact"
    BY DEF NoRequest
  <2> HIDE DEF q
  <2>3. Offered(q)
    BY <2>2
  <2> HIDE DEF Offered
  <2> QED BY <1>2, <1>5, <2>1, <2>3
<1>13. ASSUME NEW w \in CatalogWorkers, GetSourceArtifact(w)
       PROVE  \A v \in CatalogWorkers : Offered(cat'[v])
  BY <1>1, <1>13 DEF GetSourceArtifact, CatalogRequest
<1>14. ASSUME NEW w \in CatalogWorkers, Reply(w) \/ CatalogStoreError(w)
       PROVE  \A v \in CatalogWorkers : Offered(cat'[v])
  <2>1. Fail(w, "other") \/ cat' = [cat EXCEPT ![w] = NoRequest]
    BY <1>14 DEF Reply, CatalogStoreError
  <2> HIDE DEF Offered
  <2> QED BY <1>2, <1>4, <1>5, <2>1
<1>15. \A v \in CatalogWorkers : Offered(cat'[v])
  <2> HIDE DEF Offered
  <2> QED BY <1>6, <1>7, <1>8, <1>9, <1>10, <1>11, <1>12, <1>13, <1>14
          DEF CatalogHandlers, CatalogCall, CatalogStep
<1> QED BY <1>15

\* A resolve request keeps the binding and the artifact it works with.
LEMMA ResolveStep ==
    ASSUME HandoffInv, ResolveRequests
    PROVE  /\ hr' = [w \in ResolveWorkers |-> hr'[w]]
           /\ \A w \in ResolveWorkers : ResolveKnows(hr'[w])
<1> DEFINE Good == /\ hr' = [w \in ResolveWorkers |-> hr'[w]]
                   /\ \A w \in ResolveWorkers : ResolveKnows(hr'[w])
<1>1. hr = [w \in ResolveWorkers |-> hr[w]] /\ \A w \in ResolveWorkers : ResolveKnows(hr[w])
  BY DEF HandoffInv
<1>2. ASSUME NEW w \in ResolveWorkers, NEW q, ResolveKnows(q), hr' = [hr EXCEPT ![w] = q]
      PROVE  Good
  BY <1>1, <1>2
<1>3. ResolveKnows(NoResolve)
  BY DEF ResolveKnows, NoResolve
<1>4. ASSUME NEW b, NEW r PROVE ResolveKnows([NoResolve EXCEPT !.binding = b, !.answer = r])
  <2> DEFINE q == [NoResolve EXCEPT !.binding = b, !.answer = r]
  <2>1. DOMAIN q = DOMAIN NoResolve
    OBVIOUS
  <2>2. q.pc = "idle"
    BY DEF NoResolve
  <2>3. {"pc", "binding", "art"} \subseteq DOMAIN NoResolve
    BY DEF NoResolve
  <2> HIDE DEF q
  <2>4. ResolveKnows(q)
    BY <2>1, <2>2, <2>3, SMTT(20) DEF ResolveKnows
  <2> QED BY <2>4 DEF q
<1> HIDE DEF Good
<1>5. ASSUME NEW w \in ResolveWorkers, NEW r, AnswerResolve(w, r) PROVE Good
  BY <1>2, <1>4, <1>5, ZenonT(30) DEF AnswerResolve
<1>6. ASSUME NEW w \in ResolveWorkers, NEW b \in Bindings, NEW t \in Targets, ResolveHandoff(w, b, t)
      PROVE  Good
  <2> DEFINE q == [NoResolve EXCEPT !.pc = "getArtifact", !.binding = b, !.target = t]
  <2>1. ResolveKnows(q)
    <3>1. DOMAIN q = DOMAIN NoResolve
      OBVIOUS
    <3>2. q.pc = "getArtifact" /\ q.binding = b
      BY DEF NoResolve
    <3>3. {"pc", "binding", "art"} \subseteq DOMAIN NoResolve
      BY DEF NoResolve
    <3> HIDE DEF q
    <3> QED BY <3>1, <3>2, <3>3 DEF ResolveKnows
  <2>2. \/ hr' = [hr EXCEPT ![w] = q]
        \/ hr' = [hr EXCEPT ![w] = [NoResolve EXCEPT !.binding = b, !.answer = ResolveExpired]]
    BY <1>6 DEF ResolveHandoff
  <2> HIDE DEF q
  <2> QED BY <1>2, <1>4, <2>1, <2>2, ZenonT(30)
<1>7. ASSUME NEW w \in ResolveWorkers, ResolveGetArtifact(w) PROVE Good
  <2> DEFINE a == artifacts[hr[w].binding.key]
             terminal == [hr[w] EXCEPT !.pc = "getTerminal"]
             list == [hr[w] EXCEPT !.pc = "listSources", !.art = a]
  <2>1. hr[w].pc = "getArtifact" /\ hr[w].binding \in Bindings /\ ResolveKnows(hr[w])
    BY <1>1, <1>7 DEF ResolveGetArtifact, ResolveKnows
  <2>2. a \in Artifact \cup {None}
    BY <2>1, HandoffAssumption, Zenon DEF HandoffInv, CatalogInv, ArtifactTable, Binding
  <2>3. \/ hr' = [hr EXCEPT ![w] = terminal]
        \/ AnswerResolve(w, NoPlan("DIGEST_MISMATCH"))
        \/ a # None /\ hr' = [hr EXCEPT ![w] = list]
    BY <1>1, <1>7 DEF ResolveGetArtifact
  <2>4. ResolveKnows(terminal)
    BY <2>1 DEF ResolveKnows
  <2> HIDE DEF a
  <2>5. a # None => ResolveKnows(list)
    <3>1. DOMAIN list = DOMAIN hr[w]
      OBVIOUS
    <3>2. list.pc = "listSources" /\ list.binding = hr[w].binding /\ list.art = a
      BY <2>1 DEF ResolveKnows
    <3> HIDE DEF list
    <3> QED BY <2>1, <2>2, <3>1, <3>2 DEF ResolveKnows
  <2> HIDE DEF terminal, list
  <2> QED BY <1>2, <1>5, <2>3, <2>4, <2>5
<1>8. ASSUME NEW w \in ResolveWorkers, ResolveGetTerminal(w) \/ ResolveListSources(w) \/ ResolveStoreError(w)
      PROVE  Good
  BY <1>2, <1>3, <1>5, <1>8 DEF ResolveGetTerminal, ResolveListSources, ResolveStoreError
<1>9. Good
  BY <1>6, <1>7, <1>8 DEF ResolveRequests
<1> QED BY <1>9 DEF Good

\* A step of a resolve request leaves the artifacts alone or fills node names in one it read.
LEMMA ResolveChanges ==
    ASSUME HandoffInv, ResolveRequests
    PROVE  /\ UNCHANGED <<terminals, lifecycles, now, gcBacklogBytes, lc, sources, cat>>
           /\ \/ artifacts' = artifacts
              \/ \E k \in ArtifactKey, a \in Artifact : artifacts' = FillNodeNames(artifacts, k, a)
<1>1. PICK w \in ResolveWorkers :
          \/ \E b \in Bindings, t \in Targets : ResolveHandoff(w, b, t)
          \/ ResolveGetArtifact(w)
          \/ ResolveGetTerminal(w)
          \/ ResolveListSources(w)
          \/ ResolveStoreError(w)
  BY DEF ResolveRequests
<1>2. CASE ResolveListSources(w)
  <2>1. hr[w].pc = "listSources" /\ hr[w].binding \in Bindings /\ hr[w].art \in Artifact
    BY <1>2 DEF ResolveListSources, HandoffInv, ResolveKnows
  <2>2. hr[w].binding.key \in ArtifactKey
    BY <2>1, HandoffAssumption, ZenonT(30) DEF Binding
  <2> QED BY <1>2, <2>1, <2>2, SMTT(20) DEF ResolveListSources
<1>3. CASE ~ResolveListSources(w)
  BY <1>1, <1>3, Zenon DEF ResolveHandoff, ResolveGetArtifact, ResolveGetTerminal, ResolveStoreError, storeVars
<1> QED BY <1>2, <1>3

\* A step of a catalog request leaves the artifacts alone, fills node names in or puts an offer.
LEMMA CatalogChanges ==
    ASSUME HandoffInv, CatalogHandlers
    PROVE  \/ artifacts' = artifacts
           \/ \E k \in ArtifactKey, a \in Artifact : artifacts' = FillNodeNames(artifacts, k, a)
           \/ \E k \in ArtifactKey, a \in Offers :
                 ~DigestConflict(artifacts[k], a) /\ artifacts' = PutArtifact(artifacts, k, a)
<1>1. PICK w \in CatalogWorkers : CatalogCall(w) \/ CatalogStep(w) \/ CatalogStoreError(w)
  BY DEF CatalogHandlers
<1>2. cat[w].pc \in {"putArtifact", "putSources"} =>
          cat[w].key \in ArtifactKey /\ cat[w].art \in Artifact /\ cat[w].art \in Offers
  BY ZenonT(30) DEF HandoffInv, CatalogInv, Knows
<1>3. CASE CatalogCall(w)
  BY <1>3, Zenon DEF CatalogCall, RegisterArtifact, AddSource, UpdateSourceState, VerifySource
<1>4. CASE RegisterPutArtifact(w)
  BY <1>2, <1>4 DEF RegisterPutArtifact
<1>5. CASE RegisterPutSources(w)
  BY <1>2, <1>5, Zenon DEF RegisterPutSources
<1>6. CASE CatalogStoreError(w)
  BY <1>2, <1>6 DEF CatalogStoreError
<1>7. CASE GetSourceArtifact(w) \/ PutSource(w) \/ RereadSource(w) \/ Reply(w)
  BY <1>7, ZenonT(30) DEF GetSourceArtifact, PutSource, RereadSource, Reply
<1> QED BY <1>1, <1>3, <1>4, <1>5, <1>6, <1>7 DEF CatalogStep

\* The lifecycle handlers only read artifacts.
LEMMA LifecycleReads ==
    ASSUME LifecycleHandlers
    PROVE  artifacts' = artifacts
BY Zenon DEF LifecycleHandlers, LifecycleStep, FinalizeRun, EvaluateRunGC, FinalizeGetLifecycle, ListTerminals,
   ListArtifacts, FinalizeDecide, EvaluateDecide, UpsertRunLifecycle, LifecycleStoreError,
   NotifyNodeTerminal, Tick

\* The invariant holds initially.
LEMMA HandoffInvInit == HandoffInit => HandoffInv
<1> SUFFICES ASSUME HandoffInit PROVE HandoffInv
  OBVIOUS
<1>1. CatalogInv
  BY InvInit DEF HandoffInit
<1>2. \A w \in CatalogWorkers : cat[w].pc = "idle"
  BY Zenon DEF HandoffInit, CatalogInit, NoRequest
<1>3. ResolveKnows(NoResolve)
  BY DEF ResolveKnows, NoResolve
<1> QED BY <1>1, <1>2, <1>3 DEF HandoffInit, HandoffInv

\* Every step preserves it.
LEMMA HandoffInvStep == HandoffInv /\ [HandoffNext]_handoffVars => HandoffInv'
<1> SUFFICES ASSUME HandoffInv, [HandoffNext]_handoffVars PROVE HandoffInv'
  OBVIOUS
<1>1. CatalogInv /\ artifacts \in ArtifactTable
  BY DEF HandoffInv, CatalogInv
<1>2. CASE UNCHANGED <<artifacts, sources, cat, hr>>
  <2>1. CatalogInv'
    BY <1>1, <1>2, InvStep DEF catalogVars
  <2> QED BY <1>2, <2>1 DEF HandoffInv, ResolveKnows
<1>3. CASE LifecycleRequests
  BY <1>2, <1>3, LifecycleReads DEF LifecycleRequests
<1>4. CASE CatalogRequests
  <2>1. CatalogHandlers /\ hr' = hr
    BY <1>4 DEF CatalogRequests
  <2>2. CatalogInv'
    BY <1>1, <2>1, InvStep DEF CatalogNext
  <2> QED BY <2>1, <2>2, OfferedStep DEF HandoffInv, ResolveKnows
<1>5. CASE ResolveRequests
  <2>1. sources' = sources /\ cat' = cat
    BY <1>5, ResolveChanges
  <2>2. artifacts' \in ArtifactTable /\ ArtifactsKept(artifacts, artifacts')
    BY <1>1, <1>5, ResolveChanges, FillNodeNamesKeeps, SameTables
  <2>3. CatalogInv'
    BY <1>1, <2>1, <2>2, FillKeepsCatalog
  <2> QED BY <1>5, <2>1, <2>3, ResolveStep DEF HandoffInv
<1>6. CASE Restart
  <2>1. CatalogInv'
    BY <1>1, <1>6, RestartInv DEF Restart
  <2>2. \A w \in CatalogWorkers : cat'[w].pc = "idle"
    BY <1>6, Zenon DEF Restart, CatalogRestart, NoRequest
  <2>3. ResolveKnows(NoResolve)
    BY DEF ResolveKnows, NoResolve
  <2>4. hr' = [w \in ResolveWorkers |-> NoResolve]
    BY <1>6 DEF Restart
  <2> QED BY <2>1, <2>2, <2>3, <2>4 DEF HandoffInv
<1> QED BY <1>2, <1>3, <1>4, <1>5, <1>6 DEF HandoffNext, handoffVars

-----------------------------------------------------------------------------
(***************************************************************************)
(* The answers.  An answer is computed from reads made at different times,  *)
(* and kept while other requests go on.  What makes it true is what the     *)
(* tables never take back while the process runs: an artifact's digest, an  *)
(* attempt's terminal state, and the rows that justified a GC eligibility   *)
(* (LifecycleIInv).  A restart drops the requests with the tables.          *)
(***************************************************************************)

\* What a resolve request holds, in progress or answered, is true of the tables.
ResolveSound(q, arts, terms) ==
    /\ q \in ResolveRequest
    /\ q.pc # "idle" => q.binding \in Bindings /\ q.answer = None
    /\ q.pc = "listSources" =>
          /\ q.art \in Artifact /\ ~DigestMismatch(q.binding, q.art)
          /\ arts[q.binding.key] # None
          /\ q.art.digest # "" => arts[q.binding.key].digest = q.art.digest
    /\ q.answer # None => q.binding \in Bindings
    /\ (q.answer # None /\ q.answer.status = "RESOLVED") =>
          /\ arts[q.binding.key] # None
          /\ \A i \in DOMAIN q.answer.candidates :
                q.answer.candidates[i].digest = arts[q.binding.key].digest
    /\ (q.answer # None /\ q.answer.status = "PRODUCER_FAILED") =>
          terms[AttemptOf(q.binding.key)] \in {"Failed", "Canceled"}
    /\ (q.answer # None /\ q.answer.status = "GC_EXPIRED") =>
          /\ ListArtifactsByRun(arts, q.binding.key.run) # {}
          /\ ListNodeTerminalsByRun(terms, q.binding.key.run) # {}

\* Only finitely many sources are stored, so a listing is a sequence.
SourcesFinite == IsFiniteSet({id \in SourceID : sources[id] # None})

ServiceInv ==
    /\ HandoffInv
    /\ LifecycleIInv
    /\ SourcesFinite
    /\ HandoffTypeOK
    /\ \A w \in ResolveWorkers : ResolveSound(hr[w], artifacts, terminals)

\* The order of a listing: every row once.
LEMMA ListOrderType ==
    ASSUME NEW ids, IsFiniteSet(ids)
    PROVE  /\ Cardinality(ids) \in Nat
           /\ ListOrder(ids) \in [1 .. Cardinality(ids) -> ids]
           /\ IsInjective(ListOrder(ids))
<1> DEFINE n == Cardinality(ids)
<1>1. PICK m \in Nat : ExistsBijection(1 .. m, ids)
  BY FS_NatBijection
<1>2. n = m
  BY <1>1, FS_CountingElements
<1>3. PICK f : f \in Bijection(1 .. n, ids)
  BY <1>1, <1>2 DEF ExistsBijection
<1>4. f \in [1 .. n -> ids] /\ IsInjective(f)
  BY <1>3 DEF Bijection, Injection
<1> HIDE DEF n
<1>5. \E order \in [1 .. n -> ids] : IsInjective(order)
  BY <1>4
<1>6. (CHOOSE order \in [1 .. n -> ids] : IsInjective(order)) \in [1 .. n -> ids]
      /\ IsInjective(CHOOSE order \in [1 .. n -> ids] : IsInjective(order))
  BY <1>5, Zenon
<1> QED BY <1>1, <1>2, <1>6 DEF ListOrder, n

\* A registration derives finitely many sources: at most one per location and one for the URI.
LEMMA InitialSourcesFinite ==
    ASSUME NEW k \in ArtifactKey, NEW a \in Artifact
    PROVE  IsFiniteSet(DOMAIN initialSourcesForArtifact(k, a))
<1> DEFINE n == Len(a.locations)
           id(l) == <<k, DefaultBackend(l), l>>
           f == [i \in 1 .. n + 1 |-> id(DeclaredAt(a, i))]
           ids == {f[i] : i \in 1 .. n + 1}
<1>1. n \in Nat /\ DOMAIN a.locations = 1 .. n
  BY LocationFacts
<1>2. IsFiniteSet(1 .. n + 1)
  <2>1. 1 \in Int /\ n + 1 \in Int
    BY <1>1
  <2> HIDE DEF n
  <2> QED BY <2>1, FS_Interval
<1>3. f \in Surjection(1 .. n + 1, ids)
  <2> HIDE DEF id, n
  <2>1. f \in [1 .. n + 1 -> ids] /\ \A t \in ids : \E s \in 1 .. n + 1 : f[s] = t
    OBVIOUS
  <2> HIDE DEF f, ids
  <2> QED BY <2>1 DEF Surjection
<1>4. IsFiniteSet(ids)
  <2> HIDE DEF f, ids, n
  <2> QED BY <1>2, <1>3, FS_Surjection
<1>5. ASSUME NEW l \in DeclaredLocations(a) PROVE id(l) \in ids
  <2>1. CASE l \in Range(a.locations)
    <3>1. PICK i \in 1 .. n : l = a.locations[i]
      BY <1>1, <2>1 DEF Range
    <3>2. i \in 1 .. n + 1 /\ i # n + 1
      <4> HIDE DEF n
      <4> QED BY <1>1, <3>1
    <3>3. DeclaredAt(a, i) = l
      BY <3>1, <3>2 DEF DeclaredAt
    <3>4. f[i] = id(l)
      BY <3>2, <3>3
    <3> HIDE DEF f, id, n
    <3> QED BY <3>2, <3>4
  <2>2. CASE l \notin Range(a.locations)
    <3>1. l = DeclaredAt(a, n + 1)
      BY <2>2, Zenon DEF DeclaredLocations, DeclaredAt
    <3>2. n + 1 \in 1 .. n + 1
      <4> HIDE DEF n
      <4> QED BY <1>1
    <3>3. f[n + 1] = id(l)
      BY <3>1, <3>2
    <3> HIDE DEF f, id, n
    <3> QED BY <3>2, <3>3
  <2> QED BY <2>1, <2>2, Zenon
<1>6. DOMAIN initialSourcesForArtifact(k, a) \in SUBSET ids
  <2> HIDE DEF ids
  <2> QED BY <1>5 DEF initialSourcesForArtifact
<1> HIDE DEF ids
<1> QED BY <1>4, <1>6, FS_Subset

\* A catalog step writes finitely many sources.
LEMMA FiniteStep ==
    ASSUME CatalogInv, SourcesFinite, CatalogHandlers
    PROVE  SourcesFinite'
<1> DEFINE stored == {id \in SourceID : sources[id] # None}
           after == {id \in SourceID : sources'[id] # None}
<1>1. ASSUME NEW rows, DOMAIN rows \subseteq SourceID, \A id \in DOMAIN rows : rows[id] \in Source,
             IsFiniteSet(DOMAIN rows), ~ErrSourceOwnershipConflict(sources, rows),
             sources' = PutArtifactSources(sources, rows)
      PROVE  IsFiniteSet(after)
  <2>1. \A id \in SourceID : id \notin DOMAIN rows => sources'[id] = sources[id]
    BY <1>1, PutSourcesKeeps DEF CatalogInv
  <2>2. after \in SUBSET (stored \cup DOMAIN rows)
    BY <2>1
  <2>3. IsFiniteSet(stored \cup DOMAIN rows)
    BY <1>1, FS_Union, ZenonT(30) DEF SourcesFinite
  <2> HIDE DEF stored, after
  <2> QED BY <2>2, <2>3, FS_Subset, SMTT(20)
<1>2. CASE UNCHANGED sources
  BY <1>2 DEF SourcesFinite
<1> HIDE DEF after
<1>3. ASSUME NEW w \in CatalogWorkers, RegisterPutSources(w), sources' # sources PROVE IsFiniteSet(after)
  <2> DEFINE rows == initialSourcesForArtifact(cat[w].key, cat[w].art)
  <2>1. cat[w].key \in ArtifactKey /\ cat[w].art \in Artifact
    BY <1>3, ZenonT(30) DEF CatalogInv, Knows, RegisterPutSources
  <2>2. ~ErrSourceOwnershipConflict(sources, rows) /\ sources' = PutArtifactSources(sources, rows)
    BY <1>3, Zenon DEF RegisterPutSources
  <2>3. DOMAIN rows \subseteq SourceID /\ \A id \in DOMAIN rows : rows[id] \in Source
    BY <2>1, InitialSources, Zenon
  <2>4. IsFiniteSet(DOMAIN rows)
    BY <2>1, InitialSourcesFinite, SMTT(20)
  <2> HIDE DEF rows
  <2> QED BY <1>1, <2>2, <2>3, <2>4
<1>4. ASSUME NEW w \in CatalogWorkers, PutSource(w), sources' # sources PROVE IsFiniteSet(after)
  <2> DEFINE rows == [id \in {cat[w].id} |-> cat[w].src]
  <2>1. cat[w].id \in SourceID /\ cat[w].src \in Source
    BY <1>4, Zenon DEF CatalogInv, Knows, PutSource
  <2>2. ~ErrSourceOwnershipConflict(sources, rows) /\ sources' = PutArtifactSources(sources, rows)
    BY <1>4 DEF PutSource
  <2>3. DOMAIN rows = {cat[w].id} /\ \A id \in DOMAIN rows : rows[id] = cat[w].src
    OBVIOUS
  <2> HIDE DEF rows
  <2>4. IsFiniteSet(DOMAIN rows)
    BY <2>3, FS_Singleton, Zenon
  <2> QED BY <1>1, <2>1, <2>2, <2>3, <2>4
<1>5. UNCHANGED sources \/ \E w \in CatalogWorkers : RegisterPutSources(w) \/ PutSource(w)
  BY ZenonT(30) DEF CatalogHandlers, CatalogCall, CatalogStep, RegisterArtifact, AddSource, UpdateSourceState,
         VerifySource, GetSourceArtifact, RereadSource, Reply, RegisterPutArtifact, CatalogStoreError
<1>6. IsFiniteSet(after) => SourcesFinite'
  BY DEF after, SourcesFinite
<1> QED BY <1>2, <1>3, <1>4, <1>5, <1>6

\* What the tables keep, an answer can rely on.
LEMMA StillSound ==
    ASSUME NEW q, NEW arts, NEW arts2, NEW terms, NEW terms2,
           ArtifactsKept(arts, arts2),
           \A n \in NodeAttemptKey : terms[n] # None => terms2[n] = terms[n],
           ResolveSound(q, arts, terms)
    PROVE  ResolveSound(q, arts2, terms2)
<1> DEFINE k == q.binding.key
<1>0. q \in ResolveRequest
  BY Zenon DEF ResolveSound
<1>1. ASSUME q.binding \in Bindings
      PROVE  k \in ArtifactKey /\ AttemptOf(k) \in NodeAttemptKey
  BY <1>1, HandoffAssumption, ZenonT(30) DEF Binding, ArtifactKey, NodeAttemptKey, AttemptOf
<1>2. ASSUME q.pc = "listSources"
      PROVE  /\ arts2[k] # None
             /\ q.art.digest # "" => arts2[k].digest = q.art.digest
  <2>1. /\ q.binding \in Bindings /\ arts[k] # None
        /\ q.art.digest # "" => arts[k].digest = q.art.digest
    BY <1>2, ZenonT(30) DEF ResolveSound
  <2>2. k \in ArtifactKey
    BY <1>1, <2>1, ZenonT(30)
  <2> HIDE DEF k
  <2> QED BY <2>1, <2>2, ZenonT(30) DEF ArtifactsKept
<1>3. ASSUME q.answer # None, q.answer.status = "RESOLVED"
      PROVE  /\ arts2[k] # None
             /\ \A i \in DOMAIN q.answer.candidates : q.answer.candidates[i].digest = arts2[k].digest
  <2>1. /\ q.binding \in Bindings /\ arts[k] # None
        /\ \A i \in DOMAIN q.answer.candidates : q.answer.candidates[i].digest = arts[k].digest
    BY <1>3, ZenonT(30) DEF ResolveSound
  <2>2. k \in ArtifactKey
    BY <1>1, <2>1
  <2>3. ASSUME NEW i \in DOMAIN q.answer.candidates PROVE q.answer.candidates[i].digest # ""
    <3>1. q.answer.candidates \in Seq(Candidate)
      BY <1>0, <1>3, ZenonT(30) DEF ResolveRequest, ResolvedHandoff
    <3>2. q.answer.candidates[i] \in Candidate
      BY <3>1
    <3> QED BY <3>2, DomainAssumption, ZenonT(30) DEF Candidate
  <2> HIDE DEF k
  <2> QED BY <2>1, <2>2, <2>3, ZenonT(30) DEF ArtifactsKept
<1>4. ASSUME q.answer # None, q.answer.status = "PRODUCER_FAILED"
      PROVE  terms2[AttemptOf(k)] \in {"Failed", "Canceled"}
  <2>1. q.binding \in Bindings /\ terms[AttemptOf(k)] \in {"Failed", "Canceled"}
    BY <1>4, ZenonT(30) DEF ResolveSound
  <2>2. AttemptOf(k) \in NodeAttemptKey
    BY <1>1, <2>1
  <2>3. terms[AttemptOf(k)] # None
    BY <2>1, NoneAssumption DEF TerminalState
  <2> QED BY <2>1, <2>2, <2>3, SMTT(20)
<1>5. ASSUME q.answer # None, q.answer.status = "GC_EXPIRED"
      PROVE  /\ ListArtifactsByRun(arts2, k.run) # {}
             /\ ListNodeTerminalsByRun(terms2, k.run) # {}
  <2>1. ListArtifactsByRun(arts, k.run) # {} /\ ListNodeTerminalsByRun(terms, k.run) # {}
    BY <1>5, ZenonT(30) DEF ResolveSound
  <2> HIDE DEF k
  <2>2. ListArtifactsByRun(arts, k.run) \subseteq ListArtifactsByRun(arts2, k.run)
    BY Zenon DEF ListArtifactsByRun, ArtifactsKept
  <2>3. ListNodeTerminalsByRun(terms, k.run) \subseteq ListNodeTerminalsByRun(terms2, k.run)
    BY DEF ListNodeTerminalsByRun
  <2> QED BY <2>1, <2>2, <2>3, SMTT(20)
<1> QED BY <1>2, <1>3, <1>4, <1>5, ZenonT(30) DEF ResolveSound

\* An answer without candidates is well formed.
LEMMA NoPlanType ==
    ASSUME NEW status \in Status
    PROVE  /\ NoPlan(status) \in ResolvedHandoff
           /\ NoPlan(status).status = status
           /\ [NoPlan(status) EXCEPT !.retryable = TRUE] \in ResolvedHandoff
           /\ [NoPlan(status) EXCEPT !.decision = "producer_failed"] \in ResolvedHandoff
<1>1. <<>> \in Seq(Candidate)
  OBVIOUS
<1> QED BY <1>1, Zenon DEF NoPlan, ResolvedHandoff, Decision, Mode

\* The answer to an unregistered artifact calls its producer failed only when it is.
LEMMA UnregisteredAnswer ==
    ASSUME NEW terminal \in TerminalState \cup {None}
    PROVE  /\ ResolveUnregistered(terminal) \in ResolvedHandoff
           /\ ResolveUnregistered(terminal).status \in {"PENDING", "MISSING", "PRODUCER_FAILED"}
           /\ ResolveUnregistered(terminal).status = "PRODUCER_FAILED" => terminal \in {"Failed", "Canceled"}
<1>1. {"PENDING", "MISSING", "PRODUCER_FAILED"} \subseteq Status
  BY DEF Status
<1>2. CASE terminal = None
  <2>1. ResolveUnregistered(terminal) = [NoPlan("PENDING") EXCEPT !.retryable = TRUE]
    BY <1>2, NoneAssumption DEF ResolveUnregistered, TerminalState
  <2>2. [NoPlan("PENDING") EXCEPT !.retryable = TRUE].status = "PENDING"
    BY DEF NoPlan
  <2> QED BY <1>1, <2>1, <2>2, NoPlanType, Zenon
<1>3. CASE terminal = "Succeeded"
  <2>1. ResolveUnregistered(terminal) = NoPlan("MISSING")
    BY <1>3, NoneAssumption DEF ResolveUnregistered, TerminalState
  <2> QED BY <1>1, <2>1, NoPlanType, Zenon
<1>4. CASE terminal \in {"Failed", "Canceled"}
  <2>1. ResolveUnregistered(terminal) = [NoPlan("PRODUCER_FAILED") EXCEPT !.decision = "producer_failed"]
    BY <1>4, NoneAssumption DEF ResolveUnregistered, TerminalState
  <2>2. [NoPlan("PRODUCER_FAILED") EXCEPT !.decision = "producer_failed"].status = "PRODUCER_FAILED"
    BY DEF NoPlan
  <2> QED BY <1>1, <1>4, <2>1, <2>2, NoPlanType, Zenon
<1> QED BY <1>2, <1>3, <1>4 DEF TerminalState

\* A request that holds nothing yet.
LEMMA NoResolveSound ==
    ASSUME NEW arts, NEW terms
    PROVE  NoResolve \in ResolveRequest /\ ResolveSound(NoResolve, arts, terms)
BY DEF NoResolve, ResolveRequest, ResolveSound

\* An answered request is sound when its answer is.
LEMMA AnsweredSound ==
    ASSUME NEW arts, NEW terms, NEW b \in Bindings, NEW r \in ResolvedHandoff,
           r.status = "RESOLVED" =>
               arts[b.key] # None /\ \A i \in DOMAIN r.candidates : r.candidates[i].digest = arts[b.key].digest,
           r.status = "PRODUCER_FAILED" => terms[AttemptOf(b.key)] \in {"Failed", "Canceled"},
           r.status = "GC_EXPIRED" => /\ ListArtifactsByRun(arts, b.key.run) # {}
                                      /\ ListNodeTerminalsByRun(terms, b.key.run) # {}
    PROVE  ResolveSound([NoResolve EXCEPT !.binding = b, !.answer = r], arts, terms)
<1> DEFINE q == [NoResolve EXCEPT !.binding = b, !.answer = r]
<1>1. NoResolve \in ResolveRequest
  BY NoResolveSound
<1>2. q \in ResolveRequest
  BY <1>1, Zenon DEF ResolveRequest
<1>3. q.pc = "idle" /\ q.binding = b /\ q.answer = r
  BY DEF NoResolve
<1> HIDE DEF q
<1>4. ResolveSound(q, arts, terms)
  BY <1>2, <1>3 DEF ResolveSound
<1> QED BY <1>4, SMTT(20) DEF q

\* Every step of a resolve request keeps what it holds true of the tables before the step.
LEMMA ResolveSoundStep ==
    ASSUME ServiceInv, ResolveRequests
    PROVE  hr' \in [ResolveWorkers -> ResolveRequest]
           /\ \A w \in ResolveWorkers : ResolveSound(hr'[w], artifacts, terminals)
<1> DEFINE Sound(q) == ResolveSound(q, artifacts, terminals)
           Good == /\ hr' \in [ResolveWorkers -> ResolveRequest]
                   /\ \A w \in ResolveWorkers : Sound(hr'[w])
<1>1. hr \in [ResolveWorkers -> ResolveRequest] /\ \A w \in ResolveWorkers : Sound(hr[w])
  BY DEF ServiceInv, HandoffTypeOK
<1>2. \A q : Sound(q) => q \in ResolveRequest
  BY Zenon DEF ResolveSound
<1>3. /\ artifacts \in ArtifactTable /\ sources \in SourceTable
      /\ terminals \in [NodeAttemptKey -> TerminalState \cup {None}]
      /\ lifecycles \in [Runs -> RunLifecycle \cup {None}]
  BY DEF ServiceInv, HandoffInv, CatalogInv, LifecycleIInv, LifecycleTypeOK
<1>4. ASSUME NEW b \in Bindings
      PROVE  /\ b \in Binding /\ b.key \in ArtifactKey /\ b.key.run \in Runs
             /\ AttemptOf(b.key) \in NodeAttemptKey
  BY HandoffAssumption, Zenon DEF Binding, ArtifactKey, NodeAttemptKey, AttemptOf
<1>5. ASSUME NEW w \in ResolveWorkers, NEW q, Sound(q), hr' = [hr EXCEPT ![w] = q]
      PROVE  Good
  <2>1. q \in ResolveRequest
    BY <1>2, <1>5
  <2> HIDE DEF Sound
  <2> QED BY <1>1, <1>5, <2>1
<1> HIDE DEF Good
<1>6. ASSUME NEW w \in ResolveWorkers, NEW b \in Bindings, NEW t \in Targets, ResolveHandoff(w, b, t)
      PROVE  Good
  <2> DEFINE life == lifecycles[b.key.run]
  <2>1. CASE life # None /\ life.gcEligible
    <3>1. LifeSound(artifacts, terminals, now, b.key.run, life)
      BY <1>4, <2>1 DEF ServiceInv, LifecycleIInv
    <3>2. /\ ListArtifactsByRun(artifacts, b.key.run) # {}
          /\ ListNodeTerminalsByRun(terminals, b.key.run) # {}
      BY <2>1, <3>1 DEF LifeSound
    <3>3. ResolveExpired \in ResolvedHandoff /\ ResolveExpired.status = "GC_EXPIRED"
      BY NoPlanType, SMTT(20) DEF ResolveExpired, Status
    <3>4. Sound([NoResolve EXCEPT !.binding = b, !.answer = ResolveExpired])
      BY <3>2, <3>3, AnsweredSound, ZenonT(30)
    <3>5. hr' = [hr EXCEPT ![w] = [NoResolve EXCEPT !.binding = b, !.answer = ResolveExpired]]
      BY <1>6, <2>1 DEF ResolveHandoff
    <3> HIDE DEF Sound
    <3> QED BY <1>5, <3>4, <3>5, ZenonT(30)
  <2>2. CASE ~(life # None /\ life.gcEligible)
    <3> DEFINE q == [NoResolve EXCEPT !.pc = "getArtifact", !.binding = b, !.target = t]
    <3>1. NoResolve \in ResolveRequest
      BY NoResolveSound
    <3>2. q \in ResolveRequest
      BY <3>1, Zenon DEF ResolveRequest
    <3>3. q.pc = "getArtifact" /\ q.binding = b /\ q.answer = None
      BY DEF NoResolve
    <3>4. hr' = [hr EXCEPT ![w] = q]
      BY <1>6, <2>2 DEF ResolveHandoff
    <3> HIDE DEF q
    <3>5. Sound(q)
      BY <3>2, <3>3 DEF ResolveSound
    <3> HIDE DEF Sound
    <3> QED BY <1>5, <3>4, <3>5, Zenon
  <2> QED BY <2>1, <2>2
<1>7. ASSUME NEW w \in ResolveWorkers, ResolveGetArtifact(w) PROVE Good
  <2> DEFINE b == hr[w].binding
             a == artifacts[b.key]
             terminal == [hr[w] EXCEPT !.pc = "getTerminal"]
             list == [hr[w] EXCEPT !.pc = "listSources", !.art = a]
  <2>1. hr[w].pc = "getArtifact" /\ hr[w] \in ResolveRequest /\ b \in Bindings /\ hr[w].answer = None
    BY <1>1, <1>7, ZenonT(30) DEF ResolveGetArtifact, ResolveSound
  <2>2. a \in Artifact \cup {None}
    BY <1>3, <1>4, <2>1, SMTT(20) DEF ArtifactTable
  <2>3. \/ hr' = [hr EXCEPT ![w] = terminal]
        \/ hr' = [hr EXCEPT ![w] = [NoResolve EXCEPT !.binding = b, !.answer = NoPlan("DIGEST_MISMATCH")]]
        \/ a # None /\ ~DigestMismatch(b, a) /\ hr' = [hr EXCEPT ![w] = list]
    BY <1>1, <1>7, ZenonT(30) DEF ResolveGetArtifact, AnswerResolve
  <2>4. Sound(terminal)
    <3>1. terminal \in ResolveRequest
      BY <2>1, Zenon DEF ResolveRequest
    <3>2. terminal.pc = "getTerminal" /\ terminal.binding = b /\ terminal.answer = None
      BY <2>1, ZenonT(30) DEF ResolveRequest
    <3> HIDE DEF terminal, b
    <3> QED BY <2>1, <3>1, <3>2 DEF ResolveSound
  <2>5. Sound([NoResolve EXCEPT !.binding = b, !.answer = NoPlan("DIGEST_MISMATCH")])
    <3>1. NoPlan("DIGEST_MISMATCH") \in ResolvedHandoff /\ NoPlan("DIGEST_MISMATCH").status = "DIGEST_MISMATCH"
      BY NoPlanType DEF Status
    <3> HIDE DEF b
    <3> QED BY <2>1, <3>1, AnsweredSound, ZenonT(30)
  <2>6. ASSUME a # None, ~DigestMismatch(b, a) PROVE Sound(list)
    <3>1. list \in ResolveRequest
      <4> HIDE DEF a
      <4> QED BY <2>1, <2>2, ZenonT(30) DEF ResolveRequest
    <3>2. list.pc = "listSources" /\ list.binding = b /\ list.answer = None /\ list.art = a
      BY <2>1, ZenonT(30) DEF ResolveRequest
    <3>3. a \in Artifact /\ a = artifacts[b.key]
      BY <2>2, <2>6
    <3> HIDE DEF list, b, a
    <3> QED BY <2>1, <2>6, <3>1, <3>2, <3>3 DEF ResolveSound
  <2> HIDE DEF terminal, list, b, a, Sound
  <2> QED BY <1>5, <2>3, <2>4, <2>5, <2>6
<1>8. ASSUME NEW w \in ResolveWorkers, ResolveGetTerminal(w) PROVE Good
  <2> DEFINE b == hr[w].binding
             r == ResolveUnregistered(terminals[AttemptOf(b.key)])
  <2>1. b \in Bindings
    BY <1>1, <1>8, Zenon DEF ResolveGetTerminal, ResolveSound
  <2>2. terminals[AttemptOf(b.key)] \in TerminalState \cup {None}
    BY <1>3, <1>4, <2>1, SMTT(20)
  <2>3. /\ r \in ResolvedHandoff
        /\ r.status \in {"PENDING", "MISSING", "PRODUCER_FAILED"}
        /\ r.status = "PRODUCER_FAILED" => terminals[AttemptOf(b.key)] \in {"Failed", "Canceled"}
    BY <2>2, UnregisteredAnswer
  <2>4. hr' = [hr EXCEPT ![w] = [NoResolve EXCEPT !.binding = b, !.answer = r]]
    BY <1>8, SMTT(20) DEF ResolveGetTerminal, AnswerResolve
  <2> HIDE DEF b, r
  <2>5. Sound([NoResolve EXCEPT !.binding = b, !.answer = r])
    BY <2>1, <2>3, AnsweredSound, ZenonT(30)
  <2> HIDE DEF Sound
  <2> QED BY <1>5, <2>4, <2>5, ZenonT(30)
<1>9. ASSUME NEW w \in ResolveWorkers, ResolveListSources(w) PROVE Good
  <2> DEFINE b == hr[w].binding
             a == hr[w].art
             t == hr[w].target
             rows == ListArtifactSources(artifacts, sources, b.key)
             ids == ListOrder(rows)
             listed == [i \in DOMAIN ids |-> sources[ids[i]]]
             srcs == effectiveArtifactSources(b.key, a, listed)
             r == ResolveRegistered(b, t, a, srcs)
  <2>1. /\ hr[w] \in ResolveRequest /\ b \in Bindings /\ a \in Artifact /\ ~DigestMismatch(b, a)
        /\ artifacts[b.key] # None
        /\ a.digest # "" => artifacts[b.key].digest = a.digest
    BY <1>1, <1>9, ZenonT(30) DEF ResolveListSources, ResolveSound
  <2>2. t \in Nodes \cup {""}
    BY <2>1, HandoffAssumption, ZenonT(30) DEF ResolveRequest
  <2>3. hr' = [hr EXCEPT ![w] = [NoResolve EXCEPT !.binding = b, !.answer = r]]
    BY <1>9 DEF ResolveListSources, AnswerResolve
  <2>4. b \in Binding /\ b.key \in ArtifactKey
    BY <1>4, <2>1, Zenon
  <2> HIDE DEF b, a, t
  <2>5. rows \in SUBSET {id \in SourceID : sources[id] # None}
    BY <1>3 DEF ListArtifactSources, SourceTable
  <2>6. IsFiniteSet(rows)
    BY <2>5, FS_Subset DEF ServiceInv, SourcesFinite
  <2>7. Cardinality(rows) \in Nat /\ ids \in [1 .. Cardinality(rows) -> rows]
    <3> HIDE DEF rows
    <3> QED BY <2>6, ListOrderType
  <2>8. \A id \in rows : sources[id] \in Source
    BY <1>3, <2>5 DEF SourceTable
  <2> HIDE DEF rows, ids
  <2>9. listed \in [1 .. Cardinality(rows) -> Source]
    BY <2>7, <2>8
  <2> HIDE DEF listed
  <2>10. listed \in Seq(Source)
    <3> DEFINE n == Cardinality(rows)
    <3>1. n \in Nat /\ listed \in [1 .. n -> Source]
      BY <2>7, <2>9
    <3> HIDE DEF n
    <3> QED BY <3>1
  <2>11. SourceList(srcs)
    BY <2>1, <2>4, <2>10, EffectiveType, Zenon
  <2> HIDE DEF srcs
  <2>12. /\ r \in ResolvedHandoff
         /\ r.status \in {"RESOLVED", "POLICY_BLOCKED", "UNAVAILABLE"}
         /\ \A i \in DOMAIN r.candidates : OfferOf(b, a, r.candidates[i])
    BY <2>1, <2>2, <2>4, <2>11, RegisteredAnswer, Zenon
  <2> HIDE DEF r
  <2>13. ASSUME NEW i \in DOMAIN r.candidates PROVE r.candidates[i].digest = artifacts[b.key].digest
    <3>1. r.candidates[i].digest = a.digest /\ r.candidates[i] \in Candidate
      BY <2>12, Zenon DEF OfferOf
    <3>2. a.digest # ""
      BY <3>1, DomainAssumption, ZenonT(30) DEF Candidate
    <3> QED BY <2>1, <3>1, <3>2, ZenonT(30)
  <2>14. Sound([NoResolve EXCEPT !.binding = b, !.answer = r])
    BY <2>1, <2>12, <2>13, AnsweredSound, Zenon
  <2> HIDE DEF Sound
  <2> QED BY <1>5, <2>3, <2>14, Zenon
<1>10. ASSUME NEW w \in ResolveWorkers, ResolveStoreError(w) PROVE Good
  <2>1. hr' = [hr EXCEPT ![w] = NoResolve] /\ Sound(NoResolve)
    BY <1>10, NoResolveSound DEF ResolveStoreError
  <2> HIDE DEF Sound
  <2> QED BY <1>5, <2>1, Zenon
<1>11. Good
  BY <1>6, <1>7, <1>8, <1>9, <1>10 DEF ResolveRequests
<1> QED BY <1>11 DEF Good

\* The invariant holds initially.
LEMMA ServiceInvInit == HandoffInit => ServiceInv
<1> SUFFICES ASSUME HandoffInit PROVE ServiceInv
  OBVIOUS
<1>1. HandoffInv /\ LifecycleIInv
  BY HandoffInvInit, SoundInit DEF HandoffInit
<1>2. SourcesFinite
  <2>1. {id \in SourceID : sources[id] # None} = {}
    BY DEF HandoffInit, CatalogInit, EmptyTable
  <2> QED BY <2>1, FS_EmptySet DEF SourcesFinite
<1>3. NoResolve \in ResolveRequest /\ ResolveSound(NoResolve, artifacts, terminals)
  BY NoResolveSound
<1>4. hr = [w \in ResolveWorkers |-> NoResolve]
  BY DEF HandoffInit
<1> QED BY <1>1, <1>2, <1>3, <1>4 DEF ServiceInv, HandoffTypeOK

\* A terminal state, once recorded, stands while the process runs.
LEMMA TerminalsKept ==
    ASSUME LifecycleTypeOK, LifecycleHandlers
    PROVE  \A n \in NodeAttemptKey : terminals[n] # None => terminals'[n] = terminals[n]
<1>1. \/ UNCHANGED terminals
      \/ \E n \in NodeAttemptKey, s \in TerminalState : NotifyNodeTerminal(n, s)
  BY Zenon DEF LifecycleHandlers, LifecycleStep, FinalizeRun, EvaluateRunGC, FinalizeGetLifecycle, ListTerminals,
     ListArtifacts, FinalizeDecide, EvaluateDecide, UpsertRunLifecycle, LifecycleStoreError, Tick
<1>2. ASSUME NEW n \in NodeAttemptKey, NEW s \in TerminalState, NotifyNodeTerminal(n, s)
      PROVE  \A m \in NodeAttemptKey : terminals[m] # None => terminals'[m] = terminals[m]
  BY <1>2 DEF NotifyNodeTerminal, RecordNodeTerminal, LifecycleTypeOK
<1> QED BY <1>1, <1>2, SMTT(20)

\* The requests stay sound when the tables are kept and the step is another handler's.
LEMMA OthersKeepAnswers ==
    ASSUME ServiceInv, ArtifactsKept(artifacts, artifacts'), UNCHANGED hr,
           \A n \in NodeAttemptKey : terminals[n] # None => terminals'[n] = terminals[n]
    PROVE  HandoffTypeOK' /\ \A w \in ResolveWorkers : ResolveSound(hr'[w], artifacts', terminals')
<1>1. ASSUME NEW w \in ResolveWorkers PROVE ResolveSound(hr[w], artifacts', terminals')
  <2>1. ResolveSound(hr[w], artifacts, terminals)
    BY DEF ServiceInv
  <2> QED BY <2>1, StillSound, SMTT(20)
<1> QED BY <1>1, Zenon DEF ServiceInv, HandoffTypeOK, ResolveRequest

\* The lifecycle invariant survives a step of another handler that keeps the artifacts.
LEMMA OthersKeepLifecycles ==
    ASSUME LifecycleIInv, artifacts' \in ArtifactTable, ArtifactsKept(artifacts, artifacts'),
           UNCHANGED <<terminals, lifecycles, now, gcBacklogBytes, lc>>
    PROVE  LifecycleIInv'
<1>1. LifecycleTypeOK'
  BY DEF LifecycleIInv, LifecycleTypeOK, ArtifactTable
<1>2. \A k \in ArtifactKey : artifacts[k] # None => artifacts'[k] # None
  BY Zenon DEF ArtifactsKept
<1>3. now <= now'
  BY DEF LifecycleIInv, LifecycleTypeOK
<1> QED BY <1>1, <1>2, <1>3, SoundWhenTablesGrow

\* Every step preserves the invariant.
LEMMA ServiceInvStep == ServiceInv /\ [HandoffNext]_handoffVars => ServiceInv'
<1> SUFFICES ASSUME ServiceInv, [HandoffNext]_handoffVars PROVE ServiceInv'
  OBVIOUS
<1>1. HandoffInv /\ HandoffInv' /\ CatalogInv /\ LifecycleIInv /\ artifacts \in ArtifactTable
  BY HandoffInvStep DEF ServiceInv, HandoffInv, CatalogInv
<1>2. ASSUME UNCHANGED sources PROVE SourcesFinite'
  BY <1>2 DEF ServiceInv, SourcesFinite
<1>3. CASE LifecycleRequests
  <2>1. LifecycleHandlers /\ UNCHANGED <<artifacts, sources, hr>>
    BY <1>3, LifecycleReads DEF LifecycleRequests
  <2>2. LifecycleIInv'
    BY <1>1, <2>1, SoundStep DEF LifecycleNext
  <2>3. ArtifactsKept(artifacts, artifacts')
    BY <2>1, SameTables, SMTT(20)
  <2>4. \A n \in NodeAttemptKey : terminals[n] # None => terminals'[n] = terminals[n]
    BY <1>1, <2>1, TerminalsKept DEF LifecycleIInv
  <2> QED BY <1>1, <1>2, <2>1, <2>2, <2>3, <2>4, OthersKeepAnswers DEF ServiceInv
<1>4. CASE CatalogRequests
  <2>1. CatalogHandlers /\ UNCHANGED <<terminals, lifecycles, now, gcBacklogBytes, lc, hr>>
    BY <1>4 DEF CatalogRequests
  <2>2. artifacts' \in ArtifactTable /\ ArtifactsKept(artifacts, artifacts')
    <3>1. artifacts' \in ArtifactTable
      BY <1>1 DEF HandoffInv, CatalogInv
    <3>2. CASE artifacts' = artifacts
      BY <3>1, <3>2, SameTables
    <3>3. ASSUME NEW k \in ArtifactKey, NEW a \in Artifact, artifacts' = FillNodeNames(artifacts, k, a)
          PROVE  ArtifactsKept(artifacts, artifacts')
      BY <1>1, <3>3, FillNodeNamesKeeps, SMTT(20)
    <3>4. ASSUME NEW k \in ArtifactKey, NEW a \in Offers, artifacts' = PutArtifact(artifacts, k, a)
          PROVE  ArtifactsKept(artifacts, artifacts')
      BY <1>1, <3>4, PutArtifactKeeps, InventoryAssumption, ZenonT(30)
    <3> QED BY <1>1, <2>1, <3>1, <3>2, <3>3, <3>4, CatalogChanges
  <2>3. LifecycleIInv'
    BY <1>1, <2>1, <2>2, OthersKeepLifecycles
  <2>4. SourcesFinite'
    BY <1>1, <2>1, FiniteStep, SMTT(20) DEF ServiceInv
  <2> QED BY <1>1, <2>1, <2>2, <2>3, <2>4, OthersKeepAnswers DEF ServiceInv
<1>5. CASE ResolveRequests
  <2>1. UNCHANGED <<terminals, lifecycles, now, gcBacklogBytes, lc, sources, cat>>
    BY <1>1, <1>5, ResolveChanges
  <2>2. artifacts' \in ArtifactTable /\ ArtifactsKept(artifacts, artifacts')
    BY <1>1, <1>5, ResolveChanges, FillNodeNamesKeeps, SameTables
  <2>3. LifecycleIInv'
    BY <1>1, <2>1, <2>2, OthersKeepLifecycles
  <2>4. HandoffTypeOK' /\ \A w \in ResolveWorkers : ResolveSound(hr'[w], artifacts, terminals)
    BY <1>5, ResolveSoundStep, Zenon DEF HandoffTypeOK, ResolveRequest
  <2>5. \A w \in ResolveWorkers : ResolveSound(hr'[w], artifacts', terminals')
    BY <2>1, <2>2, <2>4, StillSound, SMTT(20)
  <2> QED BY <1>1, <1>2, <2>1, <2>3, <2>4, <2>5 DEF ServiceInv
<1>6. CASE Restart
  <2>1. LifecycleIInv'
    BY <1>1, <1>6, SoundStep DEF Restart, LifecycleNext
  <2>2. SourcesFinite'
    <3>1. CASE Backend = "sqlite"
      BY <1>2, <1>6, <3>1 DEF Restart, CatalogRestart, AfterRestart
    <3>2. CASE Backend # "sqlite"
      <4>1. {id \in SourceID : sources'[id] # None} = {}
        BY <1>1, <1>6, <3>2 DEF Restart, CatalogRestart, AfterRestart, EmptyTable, CatalogInv, SourceTable
      <4> QED BY <4>1, FS_EmptySet DEF SourcesFinite
    <3> QED BY <3>1, <3>2
  <2>3. NoResolve \in ResolveRequest /\ ResolveSound(NoResolve, artifacts', terminals')
    BY NoResolveSound
  <2>4. hr' = [w \in ResolveWorkers |-> NoResolve]
    BY <1>6 DEF Restart
  <2>5. HandoffTypeOK' /\ \A w \in ResolveWorkers : ResolveSound(hr'[w], artifacts', terminals')
    BY <2>3, <2>4, ZenonT(30) DEF HandoffTypeOK, ResolveRequest
  <2> QED BY <1>1, <2>1, <2>2, <2>5 DEF ServiceInv
<1>7. CASE UNCHANGED handoffVars
  <2>1. LifecycleIInv'
    BY <1>1, <1>7, SoundStep DEF handoffVars, lifecycleVars
  <2>2. ArtifactsKept(artifacts, artifacts') /\ UNCHANGED <<sources, terminals, hr>>
    BY <1>7, SameTables DEF handoffVars
  <2> QED BY <1>1, <1>2, <2>1, <2>2, OthersKeepAnswers DEF ServiceInv
<1> QED BY <1>3, <1>4, <1>5, <1>6, <1>7 DEF HandoffNext

\* Resolve requests and their answers, computed or pending, always have their types.
THEOREM HandoffTypeCorrect == HandoffSpec => []HandoffTypeOK
<1>1. ServiceInv => HandoffTypeOK
  BY DEF ServiceInv
<1> QED BY <1>1, ServiceInvInit, ServiceInvStep, PTL DEF HandoffSpec

(***************************************************************************)
(* What ResolveHandoff answered stays true while the process runs, for any  *)
(* number of requests of every kind in flight: the digest of a RESOLVED     *)
(* answer, the failure of the producer, the rows behind a GC expiry.        *)
(***************************************************************************)
THEOREM AnswersRemainTrue == HandoffSpec => []AnswersStayTrue
<1>1. ServiceInv => AnswersStayTrue
  BY Zenon DEF ServiceInv, ResolveSound, AnswersStayTrue, Answered
<1> QED BY <1>1, ServiceInvInit, ServiceInvStep, PTL DEF HandoffSpec
=============================================================================
