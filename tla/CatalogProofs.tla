---------------------------- MODULE CatalogProofs ----------------------------
(***************************************************************************)
(* Proofs about Catalog, for any artifacts, offers, workers, either store   *)
(* and with or without faults: sources agree with their artifacts, handlers *)
(* find again what they read, digests and owners are final, what is         *)
(* answered OK is stored, AlreadyExists is final; and, of the memory store, *)
(* stored sources are valid.                                                *)
(*                                                                          *)
(* The argument: tables only grow (an artifact with a digest keeps it, a    *)
(* source keeps its owner) until a restart drops the requests with them, so *)
(* what a handler knew after one store call still holds at the next.        *)
(***************************************************************************)
EXTENDS Catalog, DomainProofs

ArtifactTable == [ArtifactKey -> Artifact \cup {None}]
SourceTable == [SourceID -> Source \cup {None}]

\* What one request knows about the tables.
Knows(q, arts, srcs) ==
    /\ q.pc \in {"putArtifact", "putSources"} =>
          q.op = "register" /\ q.key \in ArtifactKey /\ q.art \in Artifact
    /\ q.pc = "putSources" =>
          /\ arts[q.key] # None
          /\ q.art.digest # "" => arts[q.key].digest = q.art.digest
    /\ q.pc \in {"getArtifact", "putSource", "reread"} =>
          /\ q.op # "register"
          /\ q.id \in SourceID /\ q.src \in Source
          /\ arts[q.src.owner] # None
          /\ ~Blank(q.src.digest)
          /\ q.src.digest = arts[q.src.owner].digest
    /\ q.pc = "reread" => srcs[q.id] # None /\ srcs[q.id].owner = q.src.owner
    /\ (q.pc = "reply" /\ q.err = "AlreadyExists") =>
          IF q.op = "register"
          THEN /\ q.key \in ArtifactKey /\ q.art \in Artifact
               /\ DigestConflict(arts[q.key], q.art)
          ELSE /\ q.id \in SourceID /\ q.src \in Source
               /\ srcs[q.id] # None /\ srcs[q.id].owner # q.src.owner

CatalogInv ==
    /\ artifacts \in ArtifactTable
    /\ sources \in SourceTable
    /\ cat \in [CatalogWorkers -> CatalogRequest]
    /\ \A w \in CatalogWorkers : Knows(cat[w], artifacts, sources)
    /\ SourceDigestAgrees

\* From one table to the next, no artifact disappears and no digest changes.
ArtifactsKept(old, new) ==
    \A k \in ArtifactKey :
        old[k] # None =>
            /\ new[k] # None
            /\ old[k].digest # "" => new[k].digest = old[k].digest

\* No source disappears or changes owner.
SourcesKept(old, new) ==
    \A id \in SourceID : old[id] # None => new[id] # None /\ new[id].owner = old[id].owner

-----------------------------------------------------------------------------
(* The operators.                                                           *)

\* PutArtifact keeps what is stored, and stores the key with the digest it is given.
LEMMA PutArtifactKeeps ==
    ASSUME NEW table \in ArtifactTable, NEW k \in ArtifactKey, NEW a \in Artifact
    PROVE  /\ PutArtifact(table, k, a) \in ArtifactTable
           /\ ArtifactsKept(table, PutArtifact(table, k, a))
           /\ PutArtifact(table, k, a)[k] # None
           /\ (~DigestConflict(table[k], a) /\ a.digest # "") =>
                 PutArtifact(table, k, a)[k].digest = a.digest
BY NoneAssumption DEF PutArtifact, ArtifactTable, ArtifactsKept, DigestConflict

\* Filling in node names keeps what is stored.
LEMMA FillNodeNamesKeeps ==
    ASSUME NEW table \in ArtifactTable, NEW k \in ArtifactKey, NEW a \in Artifact
    PROVE  /\ FillNodeNames(table, k, a) \in ArtifactTable
           /\ ArtifactsKept(table, FillNodeNames(table, k, a))
           /\ \A j \in ArtifactKey : FillNodeNames(table, k, a)[j] \in {table[j], NodesFilled(table[j])}
<1>1. NodesFilled(a) \in Artifact /\ NodesFilled(a).digest = a.digest
  BY NodesFilledType
<1> QED BY <1>1, NoneAssumption DEF FillNodeNames, ArtifactTable, ArtifactsKept

\* What PutArtifactSources leaves under an ID: the row that was there, up to its state and
\* location, or the row of the call, which has the same owner as the one it replaces.
LEMMA PutSourcesKeeps ==
    ASSUME NEW table \in SourceTable, NEW rows, DOMAIN rows \subseteq SourceID,
           \A id \in DOMAIN rows : rows[id] \in Source,
           ~ErrSourceOwnershipConflict(table, rows)
    PROVE  LET new == PutArtifactSources(table, rows)
           IN  /\ new \in SourceTable
               /\ SourcesKept(table, new)
               /\ \A id \in DOMAIN rows : new[id] # None /\ new[id].owner = rows[id].owner
               /\ \A id \in SourceID : id \notin DOMAIN rows => new[id] = table[id]
               /\ \A id \in SourceID : new[id] # None =>
                     \/ /\ table[id] # None
                        /\ new[id].owner = table[id].owner /\ new[id].digest = table[id].digest
                     \/ /\ id \in DOMAIN rows
                        /\ new[id].owner = rows[id].owner /\ new[id].digest = rows[id].digest
<1> DEFINE new == PutArtifactSources(table, rows)
<1>1. \A id \in DOMAIN rows : table[id] # None => table[id].owner = rows[id].owner
  BY DEF ErrSourceOwnershipConflict
<1>2. CASE Backend = "memory"
  <2>1. new = [id \in SourceID |-> IF id \in DOMAIN rows THEN rows[id] ELSE table[id]]
    BY <1>2 DEF PutArtifactSources, MemoryPutArtifactSources, SourceTable
  <2> HIDE DEF new
  <2>2. new \in SourceTable
    BY <2>1 DEF SourceTable
  <2>3. \A id \in DOMAIN rows : new[id] = rows[id] /\ new[id] # None
    BY <2>1, NoneAssumption
  <2>4. \A id \in SourceID : id \notin DOMAIN rows => new[id] = table[id]
    BY <2>1
  <2>5. SourcesKept(table, new)
    BY <1>1, <2>3, <2>4 DEF SourcesKept
  <2> QED BY <2>2, <2>3, <2>4, <2>5 DEF new
<1>3. CASE Backend # "memory"
  <2> DEFINE merged(id) == [table[id] EXCEPT !.state = rows[id].state, !.loc = rows[id].loc]
  <2>1. new = [id \in SourceID |-> IF id \notin DOMAIN rows THEN table[id]
                                   ELSE IF table[id] = None THEN rows[id] ELSE merged(id)]
    BY <1>3 DEF PutArtifactSources, SQLitePutArtifactSources, SourceTable
  <2>2. \A id \in DOMAIN rows : table[id] # None =>
            /\ merged(id) \in Source
            /\ merged(id).owner = table[id].owner
            /\ merged(id).digest = table[id].digest
    BY Zenon DEF SourceTable, Source
  <2> HIDE DEF new, merged
  <2>3. new \in SourceTable
    BY <2>1, <2>2 DEF SourceTable
  <2>4. \A id \in SourceID : id \notin DOMAIN rows => new[id] = table[id]
    BY <2>1
  <2>5. \A id \in DOMAIN rows : table[id] = None => new[id] = rows[id] /\ new[id] # None
    BY <2>1, NoneAssumption
  <2>6. \A id \in DOMAIN rows : table[id] # None =>
            /\ new[id] # None
            /\ new[id].owner = table[id].owner
            /\ new[id].digest = table[id].digest
    BY <2>1, <2>2, NoneAssumption
  <2>7. SourcesKept(table, new)
    BY <2>4, <2>5, <2>6 DEF SourcesKept
  <2> QED BY <1>1, <2>3, <2>4, <2>5, <2>6, <2>7 DEF new
<1> QED BY <1>2, <1>3

\* What a request knows stays true while the tables are kept.
LEMMA StillKnows ==
    ASSUME NEW q \in CatalogRequest,
           NEW arts \in ArtifactTable, NEW arts2 \in ArtifactTable, ArtifactsKept(arts, arts2),
           NEW srcs \in SourceTable, NEW srcs2 \in SourceTable, SourcesKept(srcs, srcs2),
           Knows(q, arts, srcs)
    PROVE  Knows(q, arts2, srcs2)
<1>1. q.pc = "putSources" =>
          /\ arts2[q.key] # None
          /\ q.art.digest # "" => arts2[q.key].digest = q.art.digest
  BY DEF Knows, ArtifactsKept
<1>2. q.pc \in {"getArtifact", "putSource", "reread"} =>
          /\ arts2[q.src.owner] # None
          /\ q.src.digest = arts2[q.src.owner].digest
  BY DEF Knows, ArtifactsKept, Source, Blank
<1>3. q.pc = "reread" => srcs2[q.id] # None /\ srcs2[q.id].owner = q.src.owner
  BY DEF Knows, SourcesKept
<1>4. (q.pc = "reply" /\ q.err = "AlreadyExists" /\ q.op = "register") =>
          DigestConflict(arts2[q.key], q.art)
  BY DEF Knows, ArtifactsKept, DigestConflict
<1>5. (q.pc = "reply" /\ q.err = "AlreadyExists" /\ q.op # "register") =>
          srcs2[q.id] # None /\ srcs2[q.id].owner # q.src.owner
  BY DEF Knows, SourcesKept
<1> QED BY <1>1, <1>2, <1>3, <1>4, <1>5 DEF Knows

-----------------------------------------------------------------------------
(* The steps.                                                               *)

\* Sources still agree with their artifacts while the artifacts are kept.
LEMMA StillAgree ==
    ASSUME CatalogInv, ArtifactsKept(artifacts, artifacts'), UNCHANGED sources
    PROVE  SourceDigestAgrees'
<1> SUFFICES ASSUME NEW id \in SourceID, sources[id] # None
             PROVE  /\ artifacts'[sources[id].owner] # None
                    /\ ~Blank(sources[id].digest)
                    /\ sources[id].digest = artifacts'[sources[id].owner].digest
  BY DEF SourceDigestAgrees
<1>1. sources[id].owner \in ArtifactKey
  BY DEF CatalogInv, SourceTable, Source
<1> QED BY <1>1 DEF CatalogInv, SourceDigestAgrees, ArtifactsKept, Blank

\* A step of one request that keeps the tables keeps the invariant.
LEMMA StepInv ==
    ASSUME CatalogInv, NEW w \in CatalogWorkers, NEW q \in CatalogRequest,
           cat' = [cat EXCEPT ![w] = q],
           artifacts' \in ArtifactTable, ArtifactsKept(artifacts, artifacts'),
           sources' \in SourceTable, SourcesKept(sources, sources'),
           Knows(q, artifacts', sources'), SourceDigestAgrees'
    PROVE  CatalogInv'
<1>1. cat' \in [CatalogWorkers -> CatalogRequest]
  BY DEF CatalogInv
<1>2. ASSUME NEW v \in CatalogWorkers PROVE Knows(cat'[v], artifacts', sources')
  <2>1. CASE v = w
    BY <2>1 DEF CatalogInv
  <2>2. CASE v # w
    <3>1. cat'[v] = cat[v] /\ cat[v] \in CatalogRequest /\ Knows(cat[v], artifacts, sources)
      BY <2>2 DEF CatalogInv
    <3> QED BY <3>1, StillKnows DEF CatalogInv
  <2> QED BY <2>1, <2>2
<1> QED BY <1>1, <1>2 DEF CatalogInv

\* Tables that do not change are kept.
LEMMA SameTables == ArtifactsKept(artifacts, artifacts) /\ SourcesKept(sources, sources)
BY DEF ArtifactsKept, SourcesKept

\* A step that changes only the request.
LEMMA RequestStepInv ==
    ASSUME CatalogInv, NEW w \in CatalogWorkers, NEW q \in CatalogRequest,
           cat' = [cat EXCEPT ![w] = q], UNCHANGED <<artifacts, sources>>,
           Knows(q, artifacts, sources)
    PROVE  CatalogInv'
BY StepInv, SameTables DEF CatalogInv, SourceDigestAgrees

\* A request that failed, or that is over, knows nothing.
LEMMA FailKnows ==
    ASSUME NEW err \in ErrClass, err # "AlreadyExists", NEW arts, NEW srcs
    PROVE  /\ [NoRequest EXCEPT !.pc = "reply", !.err = err] \in CatalogRequest
           /\ Knows([NoRequest EXCEPT !.pc = "reply", !.err = err], arts, srcs)
           /\ NoRequest \in CatalogRequest /\ Knows(NoRequest, arts, srcs)
BY DEF NoRequest, CatalogRequest, CatalogPC, Knows, ErrClass

\* A failing request leaves the tables alone or fills in node names.
LEMMA FailInv ==
    ASSUME CatalogInv, NEW w \in CatalogWorkers, NEW err \in ErrClass, err # "AlreadyExists",
           Fail(w, err), UNCHANGED sources,
           artifacts' \in ArtifactTable, ArtifactsKept(artifacts, artifacts')
    PROVE  CatalogInv'
<1> DEFINE q == [NoRequest EXCEPT !.pc = "reply", !.err = err]
<1>1. q \in CatalogRequest /\ Knows(q, artifacts', sources')
  BY FailKnows, Zenon
<1>2. cat' = [cat EXCEPT ![w] = q]
  BY DEF Fail, Answer
<1> HIDE DEF q
<1> QED BY <1>1, <1>2, StillAgree, SameTables, StepInv, Zenon DEF CatalogInv

\* A failing request that leaves both tables alone.
LEMMA FailOnlyInv ==
    ASSUME CatalogInv, NEW w \in CatalogWorkers, NEW err \in ErrClass, err # "AlreadyExists",
           Fail(w, err), UNCHANGED <<artifacts, sources>>
    PROVE  CatalogInv'
BY FailInv, SameTables DEF CatalogInv

\* The request of a registration.
LEMMA RegisterInv ==
    ASSUME CatalogInv, NEW w \in CatalogWorkers, NEW k \in ArtifactKey, NEW a \in Offers,
           RegisterArtifact(w, k, a)
    PROVE  CatalogInv'
<1> DEFINE req == [NoRequest EXCEPT !.op = "register", !.key = k, !.art = a]
           conflict == [req EXCEPT !.pc = "reply", !.err = "AlreadyExists"]
           put == [req EXCEPT !.pc = "putArtifact"]
<1>1. a \in Artifact
  BY InventoryAssumption
<1>2. CASE DigestConflict(artifacts[k], a)
  <2>1. conflict \in CatalogRequest /\ Knows(conflict, artifacts, sources)
    BY <1>1, <1>2 DEF NoRequest, CatalogRequest, CatalogPC, ErrClass, Knows
  <2>2. cat' = [cat EXCEPT ![w] = conflict] /\ UNCHANGED <<artifacts, sources>>
    BY <1>2 DEF RegisterArtifact, Answer
  <2> HIDE DEF conflict
  <2> QED BY <2>1, <2>2, RequestStepInv, Zenon
<1>3. CASE ~DigestConflict(artifacts[k], a) /\ ~ValidateArtifactForRegistration(a)
  <2>1. Fail(w, "other") /\ UNCHANGED <<artifacts, sources>>
    BY <1>3 DEF RegisterArtifact
  <2> QED BY <2>1, FailOnlyInv DEF ErrClass
<1>4. CASE ~DigestConflict(artifacts[k], a) /\ ValidateArtifactForRegistration(a)
  <2>1. put \in CatalogRequest /\ Knows(put, artifacts, sources)
    BY <1>1 DEF NoRequest, CatalogRequest, CatalogPC, ErrClass, Knows
  <2>2. cat' = [cat EXCEPT ![w] = put] /\ UNCHANGED <<artifacts, sources>>
    BY <1>4 DEF RegisterArtifact
  <2> HIDE DEF put
  <2> QED BY <2>1, <2>2, RequestStepInv, Zenon
<1> QED BY <1>2, <1>3, <1>4

\* PutArtifact of a registration.
LEMMA RegisterPutArtifactInv ==
    ASSUME CatalogInv, NEW w \in CatalogWorkers, RegisterPutArtifact(w)
    PROVE  CatalogInv'
<1> DEFINE k == cat[w].key
           a == cat[w].art
           q == [cat[w] EXCEPT !.pc = "putSources"]
<1>1. /\ cat[w] \in CatalogRequest /\ k \in ArtifactKey /\ a \in Artifact
      /\ cat[w].op = "register"
  BY DEF CatalogInv, Knows, RegisterPutArtifact
<1>2. CASE DigestConflict(artifacts[k], a)
  <2>1. Fail(w, "other") /\ UNCHANGED <<artifacts, sources>>
    BY <1>2 DEF RegisterPutArtifact
  <2> QED BY <2>1, FailOnlyInv DEF ErrClass
<1>3. CASE ~DigestConflict(artifacts[k], a)
  <2>1. artifacts' = PutArtifact(artifacts, k, a) /\ UNCHANGED sources
    BY <1>3 DEF RegisterPutArtifact
  <2>2. cat' = [cat EXCEPT ![w] = q]
    BY <1>3 DEF RegisterPutArtifact, CatalogInv
  <2>3. /\ artifacts' \in ArtifactTable
        /\ ArtifactsKept(artifacts, artifacts')
        /\ artifacts'[k] # None
        /\ a.digest # "" => artifacts'[k].digest = a.digest
    BY <1>1, <1>3, <2>1, PutArtifactKeeps DEF CatalogInv
  <2>4. /\ q \in CatalogRequest /\ q.pc = "putSources" /\ q.key = k /\ q.art = a
        /\ q.op = "register"
    BY <1>1 DEF CatalogRequest, CatalogPC
  <2> HIDE DEF q
  <2>5. Knows(q, artifacts', sources')
    BY <1>1, <2>3, <2>4 DEF Knows
  <2>6. SourceDigestAgrees'
    BY <2>1, <2>3, StillAgree
  <2> QED BY <2>1, <2>2, <2>3, <2>4, <2>5, <2>6, SameTables, StepInv DEF CatalogInv
<1> QED BY <1>2, <1>3

\* Sources written for artifacts that exist, with their digest, agree with them.
LEMMA WrittenAgree ==
    ASSUME CatalogInv, NEW rows, DOMAIN rows \subseteq SourceID,
           \A id \in DOMAIN rows :
              /\ rows[id] \in Source
              /\ artifacts[rows[id].owner] # None
              /\ ~Blank(rows[id].digest)
              /\ rows[id].digest = artifacts[rows[id].owner].digest,
           ~ErrSourceOwnershipConflict(sources, rows),
           sources' = PutArtifactSources(sources, rows),
           artifacts' \in ArtifactTable, ArtifactsKept(artifacts, artifacts')
    PROVE  /\ sources' \in SourceTable /\ SourcesKept(sources, sources')
           /\ \A id \in DOMAIN rows : sources'[id] # None /\ sources'[id].owner = rows[id].owner
           /\ SourceDigestAgrees'
<1>1. sources \in SourceTable /\ \A id \in DOMAIN rows : rows[id] \in Source
  BY DEF CatalogInv
<1>2. /\ sources' \in SourceTable /\ SourcesKept(sources, sources')
      /\ \A id \in DOMAIN rows : sources'[id] # None /\ sources'[id].owner = rows[id].owner
      /\ \A id \in SourceID : sources'[id] # None =>
            \/ /\ sources[id] # None
               /\ sources'[id].owner = sources[id].owner /\ sources'[id].digest = sources[id].digest
            \/ /\ id \in DOMAIN rows
               /\ sources'[id].owner = rows[id].owner /\ sources'[id].digest = rows[id].digest
  BY <1>1, PutSourcesKeeps
<1>3. ASSUME NEW id \in SourceID, sources'[id] # None
      PROVE  /\ sources'[id].owner \in ArtifactKey
             /\ artifacts[sources'[id].owner] # None
             /\ ~Blank(sources'[id].digest)
             /\ sources'[id].digest = artifacts[sources'[id].owner].digest
  <2>1. sources'[id].owner \in ArtifactKey
    BY <1>2, <1>3 DEF SourceTable, Source
  <2>2. CASE /\ sources[id] # None
             /\ sources'[id].owner = sources[id].owner /\ sources'[id].digest = sources[id].digest
    BY <2>1, <2>2 DEF CatalogInv, SourceDigestAgrees
  <2>3. CASE /\ id \in DOMAIN rows
             /\ sources'[id].owner = rows[id].owner /\ sources'[id].digest = rows[id].digest
    BY <2>1, <2>3
  <2> QED BY <1>2, <1>3, <2>2, <2>3
<1>4. SourceDigestAgrees'
  BY <1>3 DEF SourceDigestAgrees, ArtifactsKept, Blank
<1> QED BY <1>2, <1>4

\* PutArtifactSources of a registration.
LEMMA RegisterPutSourcesInv ==
    ASSUME CatalogInv, NEW w \in CatalogWorkers, RegisterPutSources(w)
    PROVE  CatalogInv'
<1> DEFINE k == cat[w].key
           a == cat[w].art
           rows == initialSourcesForArtifact(k, a)
           q == [cat[w] EXCEPT !.pc = "reply", !.err = ""]
<1>1. /\ cat[w] \in CatalogRequest /\ k \in ArtifactKey /\ a \in Artifact
      /\ artifacts[k] # None
      /\ a.digest # "" => artifacts[k].digest = a.digest
  BY DEF CatalogInv, Knows, RegisterPutSources
<1>2. artifacts' \in ArtifactTable /\ ArtifactsKept(artifacts, artifacts')
  BY <1>1, FillNodeNamesKeeps DEF RegisterPutSources, CatalogInv
<1>3. CASE ErrSourceOwnershipConflict(sources, rows)
  <2>1. Fail(w, "other") /\ UNCHANGED sources
    BY <1>3 DEF RegisterPutSources
  <2> QED BY <1>2, <2>1, FailInv DEF ErrClass
<1>4. CASE ~ErrSourceOwnershipConflict(sources, rows)
  <2>1. sources' = PutArtifactSources(sources, rows) /\ cat' = [cat EXCEPT ![w] = q]
    BY <1>4 DEF RegisterPutSources, Answer
  <2>2. /\ DOMAIN rows \subseteq SourceID
        /\ \A id \in DOMAIN rows :
              /\ rows[id] \in Source
              /\ artifacts[rows[id].owner] # None
              /\ ~Blank(rows[id].digest)
              /\ rows[id].digest = artifacts[rows[id].owner].digest
    <3>1. k \in ArtifactKey /\ a \in Artifact
      BY <1>1
    <3> HIDE DEF k, a
    <3>2. /\ DOMAIN rows \subseteq SourceID
          /\ \A id \in DOMAIN rows :
                /\ rows[id] \in Source
                /\ rows[id].owner = k
                /\ rows[id].digest = a.digest
                /\ ~Blank(rows[id].digest)
      BY <3>1, InitialSources, Zenon
    <3> HIDE DEF rows
    <3> QED BY <1>1, <3>2 DEF Blank
  <2>3. q \in CatalogRequest /\ q.pc = "reply" /\ q.err = ""
    BY <1>1 DEF CatalogRequest, CatalogPC, ErrClass
  <2> HIDE DEF q, rows
  <2>4. Knows(q, artifacts', sources')
    BY <2>3 DEF Knows
  <2>5. sources' \in SourceTable /\ SourcesKept(sources, sources') /\ SourceDigestAgrees'
    BY <1>2, <1>4, <2>1, <2>2, WrittenAgree
  <2> QED BY <1>2, <2>1, <2>3, <2>4, <2>5, StepInv
<1> QED BY <1>3, <1>4

\* The first reads of AddSource.
LEMMA AddSourceInv ==
    ASSUME CatalogInv, NEW w \in CatalogWorkers, NEW k \in ArtifactKey, NEW o \in SourceOffers,
           AddSource(w, k, o)
    PROVE  CatalogInv'
<1> DEFINE src == AddedSource(k, o)
           id == IF o.id = None THEN <<k, o.backend, o.loc>> ELSE o.id
           q == [NoRequest EXCEPT !.pc = "putSource", !.op = "add", !.id = id, !.src = src]
           valid == artifacts[k] # None /\ ValidAddedSource(k, o)
<1>1. CASE ~valid
  <2>1. PICK err \in {"NotFound", "other"} : Fail(w, err) /\ UNCHANGED <<artifacts, sources>>
    BY <1>1 DEF AddSource
  <2> QED BY <2>1, FailOnlyInv DEF ErrClass
<1>2. CASE valid
  <2>1. o \in SourceOffer /\ artifacts[k] \in Artifact
    BY <1>2, CatalogAssumption DEF CatalogInv, ArtifactTable
  <2>2. src \in Source
    BY <1>2, <2>1 DEF ValidAddedSource, AddedSource, Source, SourceOffer, Artifact
  <2>3. src.owner = k /\ ~Blank(src.digest) /\ src.digest = artifacts[k].digest
    BY <1>2 DEF ValidAddedSource, ValidateArtifactSourceForArtifact
  <2>4. id \in SourceID
    BY <2>1 DEF SourceOffer, SourceID
  <2>5. cat' = [cat EXCEPT ![w] = q] /\ UNCHANGED <<artifacts, sources>>
    BY <1>2 DEF AddSource
  <2> HIDE DEF src, id, valid
  <2>6. q \in CatalogRequest /\ q.pc = "putSource" /\ q.op = "add" /\ q.id = id /\ q.src = src
    BY <2>2, <2>4 DEF NoRequest, CatalogRequest, CatalogPC, ErrClass
  <2> HIDE DEF q
  <2>7. Knows(q, artifacts, sources)
    BY <1>2, <2>2, <2>3, <2>4, <2>6 DEF Knows, valid
  <2> QED BY <2>5, <2>6, <2>7, RequestStepInv, Zenon
<1> QED BY <1>1, <1>2

\* A source a handler read belongs to an artifact and agrees with it, whatever its state.
LEMMA ReadSourceKnows ==
    ASSUME CatalogInv, NEW id \in SourceID, GetArtifactSource(artifacts, sources, id) # None,
           NEW st \in SourceState, NEW op \in {"update", "verify"}
    PROVE  LET q == [NoRequest EXCEPT !.pc = "getArtifact", !.op = op, !.id = id,
                                      !.src = [sources[id] EXCEPT !.state = st]]
           IN  q \in CatalogRequest /\ Knows(q, artifacts, sources)
<1> DEFINE src == [sources[id] EXCEPT !.state = st]
           q == [NoRequest EXCEPT !.pc = "getArtifact", !.op = op, !.id = id, !.src = src]
<1>1. sources[id] # None /\ sources[id] \in Source
  BY DEF GetArtifactSource, CatalogInv, SourceTable
<1>2. src \in Source /\ src.owner = sources[id].owner /\ src.digest = sources[id].digest
  BY <1>1 DEF Source
<1>3. /\ artifacts[src.owner] # None
      /\ ~Blank(src.digest)
      /\ src.digest = artifacts[src.owner].digest
  BY <1>1, <1>2 DEF CatalogInv, SourceDigestAgrees
<1> HIDE DEF src
<1>4. q \in CatalogRequest /\ q.pc = "getArtifact" /\ q.op = op /\ q.id = id /\ q.src = src
  BY <1>2 DEF NoRequest, CatalogRequest, CatalogPC, ErrClass
<1> HIDE DEF q
<1>5. Knows(q, artifacts, sources)
  BY <1>2, <1>3, <1>4 DEF Knows
<1> QED BY <1>4, <1>5 DEF q, src

\* The first read of UpdateSourceState.
LEMMA UpdateSourceStateInv ==
    ASSUME CatalogInv, NEW w \in CatalogWorkers, NEW id \in SourceID, NEW st \in RequestedStates,
           UpdateSourceState(w, id, st)
    PROVE  CatalogInv'
<1> DEFINE q == [NoRequest EXCEPT !.pc = "getArtifact", !.op = "update", !.id = id,
                                  !.src = [sources[id] EXCEPT !.state = st]]
<1>1. CASE st \notin SourceState \/ GetArtifactSource(artifacts, sources, id) = None
  <2>1. PICK err \in {"NotFound", "other"} : Fail(w, err) /\ UNCHANGED <<artifacts, sources>>
    BY <1>1 DEF UpdateSourceState
  <2> QED BY <2>1, FailOnlyInv DEF ErrClass
<1>2. CASE st \in SourceState /\ GetArtifactSource(artifacts, sources, id) # None
  <2>1. q \in CatalogRequest /\ Knows(q, artifacts, sources)
    BY <1>2, ReadSourceKnows, Zenon
  <2>2. cat' = [cat EXCEPT ![w] = q] /\ UNCHANGED <<artifacts, sources>>
    BY <1>2 DEF UpdateSourceState
  <2> HIDE DEF q
  <2> QED BY <2>1, <2>2, RequestStepInv, Zenon
<1> QED BY <1>1, <1>2

\* The first read of VerifySource.
LEMMA VerifySourceInv ==
    ASSUME CatalogInv, NEW w \in CatalogWorkers, NEW id \in SourceID, VerifySource(w, id)
    PROVE  CatalogInv'
<1> DEFINE source == GetArtifactSource(artifacts, sources, id)
           q == [NoRequest EXCEPT !.pc = "getArtifact", !.op = "verify", !.id = id, !.src = source]
<1>1. CASE source = None \/ source.state = "deleted"
  <2>1. PICK err \in {"NotFound", "FailedPrecondition"} :
            Fail(w, err) /\ UNCHANGED <<artifacts, sources>>
    BY <1>1 DEF VerifySource
  <2> QED BY <2>1, FailOnlyInv DEF ErrClass
<1>2. CASE source # None /\ source.state # "deleted"
  <2>1. source = sources[id] /\ sources[id] \in Source
    BY <1>2 DEF GetArtifactSource, CatalogInv, SourceTable
  <2>2. sources[id].state \in SourceState /\ [sources[id] EXCEPT !.state = sources[id].state] = sources[id]
    BY <2>1 DEF Source
  <2>3. q \in CatalogRequest /\ Knows(q, artifacts, sources)
    BY <1>2, <2>1, <2>2, ReadSourceKnows, Zenon
  <2>4. cat' = [cat EXCEPT ![w] = q] /\ UNCHANGED <<artifacts, sources>>
    BY <1>2 DEF VerifySource
  <2> HIDE DEF q
  <2> QED BY <2>3, <2>4, RequestStepInv, Zenon
<1> QED BY <1>1, <1>2

\* GetArtifactByID of UpdateSourceState and VerifySource.
LEMMA GetSourceArtifactInv ==
    ASSUME CatalogInv, NEW w \in CatalogWorkers, GetSourceArtifact(w)
    PROVE  CatalogInv'
<1> DEFINE st == IF cat[w].op = "verify" THEN VerifiedState(cat[w].src) ELSE cat[w].src.state
           src == [cat[w].src EXCEPT !.state = st]
           q == [cat[w] EXCEPT !.pc = "putSource", !.src = src]
<1>1. /\ cat[w] \in CatalogRequest /\ Knows(cat[w], artifacts, sources)
      /\ cat[w].pc = "getArtifact" /\ cat[w].src \in Source
  BY DEF CatalogInv, GetSourceArtifact, Knows
<1>2. st \in SourceState
  BY <1>1 DEF VerifiedState, SourceState, Source
<1>3. cat' = [cat EXCEPT ![w] = q] /\ UNCHANGED <<artifacts, sources>>
  BY <1>1, Zenon DEF GetSourceArtifact, CatalogInv, CatalogRequest, Source
<1> HIDE DEF st
<1>4. src \in Source /\ src.owner = cat[w].src.owner /\ src.digest = cat[w].src.digest
  BY <1>1, <1>2 DEF Source
<1> HIDE DEF src
<1>5. /\ q \in CatalogRequest /\ q.pc = "putSource" /\ q.op = cat[w].op
      /\ q.id = cat[w].id /\ q.src = src
  BY <1>1, <1>4, Zenon DEF CatalogRequest, CatalogPC
<1> HIDE DEF q
<1>6. Knows(q, artifacts, sources)
  BY <1>1, <1>4, <1>5 DEF Knows
<1> QED BY <1>3, <1>5, <1>6, RequestStepInv, Zenon

\* The write of AddSource, UpdateSourceState and VerifySource.
LEMMA PutSourceInv ==
    ASSUME CatalogInv, NEW w \in CatalogWorkers, PutSource(w)
    PROVE  CatalogInv'
<1> DEFINE rows == [id \in {cat[w].id} |-> cat[w].src]
           exists == [cat[w] EXCEPT !.pc = "reply", !.err = "AlreadyExists"]
           written == [cat[w] EXCEPT !.pc = "reread"]
<1>1. /\ cat[w] \in CatalogRequest /\ Knows(cat[w], artifacts, sources)
      /\ cat[w].pc = "putSource" /\ cat[w].id \in SourceID /\ cat[w].src \in Source
      /\ artifacts \in ArtifactTable /\ UNCHANGED artifacts
  BY DEF CatalogInv, PutSource, Knows
<1>2. /\ DOMAIN rows \subseteq SourceID
      /\ cat[w].id \in DOMAIN rows
      /\ rows[cat[w].id] = cat[w].src
      /\ \A id \in DOMAIN rows : id = cat[w].id /\ rows[id] = cat[w].src
  BY <1>1
<1>3. CASE ErrSourceOwnershipConflict(sources, rows) /\ cat[w].op # "add"
  <2>1. Fail(w, "other") /\ UNCHANGED <<artifacts, sources>>
    BY <1>1, <1>3 DEF PutSource
  <2> QED BY <2>1, FailOnlyInv DEF ErrClass
<1>4. CASE ErrSourceOwnershipConflict(sources, rows) /\ cat[w].op = "add"
  <2>1. cat' = [cat EXCEPT ![w] = exists] /\ UNCHANGED <<artifacts, sources>>
    BY <1>1, <1>4 DEF PutSource, Answer
  <2> HIDE DEF rows
  <2>2. sources[cat[w].id] # None /\ sources[cat[w].id].owner # cat[w].src.owner
    BY <1>2, <1>4 DEF ErrSourceOwnershipConflict
  <2>3. /\ exists \in CatalogRequest /\ exists.pc = "reply" /\ exists.op = "add"
        /\ exists.id = cat[w].id /\ exists.src = cat[w].src
    BY <1>1, <1>4 DEF CatalogRequest, CatalogPC, ErrClass
  <2> HIDE DEF exists
  <2>4. Knows(exists, artifacts, sources)
    BY <1>1, <2>2, <2>3 DEF Knows
  <2> QED BY <2>1, <2>3, <2>4, RequestStepInv, Zenon
<1>5. CASE ~ErrSourceOwnershipConflict(sources, rows)
  <2>1. sources' = PutArtifactSources(sources, rows) /\ cat' = [cat EXCEPT ![w] = written]
    BY <1>5 DEF PutSource, CatalogInv
  <2>2. \A id \in DOMAIN rows :
            /\ rows[id] \in Source
            /\ artifacts[rows[id].owner] # None
            /\ ~Blank(rows[id].digest)
            /\ rows[id].digest = artifacts[rows[id].owner].digest
    <3> HIDE DEF rows
    <3> QED BY <1>1, <1>2 DEF Knows
  <2> HIDE DEF rows
  <2>3. /\ sources' \in SourceTable /\ SourcesKept(sources, sources') /\ SourceDigestAgrees'
        /\ sources'[cat[w].id] # None /\ sources'[cat[w].id].owner = cat[w].src.owner
    BY <1>1, <1>2, <1>5, <2>1, <2>2, SameTables, WrittenAgree
  <2>4. /\ written \in CatalogRequest /\ written.pc = "reread" /\ written.op = cat[w].op
        /\ written.id = cat[w].id /\ written.src = cat[w].src
    BY <1>1, SMTT(20) DEF CatalogRequest, CatalogPC
  <2> HIDE DEF written
  <2>5. Knows(written, artifacts', sources')
    BY <1>1, <2>3, <2>4 DEF Knows
  <2> QED BY <1>1, <2>1, <2>3, <2>4, <2>5, SameTables, StepInv, Zenon
<1> QED BY <1>3, <1>4, <1>5

\* The answer, and the end of the request.
LEMMA ReplyInv ==
    ASSUME CatalogInv, NEW w \in CatalogWorkers, RereadSource(w) \/ Reply(w)
    PROVE  CatalogInv'
<1>1. CASE RereadSource(w)
  <2> DEFINE q == [cat[w] EXCEPT !.pc = "reply", !.err = ""]
  <2>1. cat[w] \in CatalogRequest
    BY DEF CatalogInv
  <2>2. q \in CatalogRequest /\ q.pc = "reply" /\ q.err = ""
    BY <2>1, ZenonT(60) DEF CatalogRequest, CatalogPC, ErrClass
  <2>3. cat' = [cat EXCEPT ![w] = q] /\ UNCHANGED <<artifacts, sources>>
    BY <1>1 DEF RereadSource, Answer
  <2> HIDE DEF q
  <2>4. Knows(q, artifacts, sources)
    BY <2>2 DEF Knows
  <2> QED BY <2>2, <2>3, <2>4, RequestStepInv
<1>2. CASE Reply(w)
  <2>1. NoRequest \in CatalogRequest /\ Knows(NoRequest, artifacts, sources)
    BY FailKnows DEF ErrClass
  <2> QED BY <1>2, <2>1, RequestStepInv, Zenon DEF Reply
<1> QED BY <1>1, <1>2

\* A failed store call.
LEMMA StoreErrorInv ==
    ASSUME CatalogInv, NEW w \in CatalogWorkers, CatalogStoreError(w)
    PROVE  CatalogInv'
<1>1. cat[w].pc = "putSources" => cat[w].key \in ArtifactKey /\ cat[w].art \in Artifact
  BY DEF CatalogInv, Knows
<1>2. artifacts' \in ArtifactTable /\ ArtifactsKept(artifacts, artifacts')
  BY <1>1, FillNodeNamesKeeps, SameTables DEF CatalogStoreError, CatalogInv
<1> QED BY <1>2, FailInv DEF CatalogStoreError, ErrClass

\* A restart keeps both tables or empties both, and drops the requests.
LEMMA RestartInv ==
    ASSUME CatalogInv, CatalogRestart
    PROVE  CatalogInv'
<1>1. /\ NoRequest \in CatalogRequest
      /\ \A arts, srcs : Knows(NoRequest, arts, srcs)
  BY FailKnows DEF ErrClass
<1>2. cat' \in [CatalogWorkers -> CatalogRequest] /\ \A w \in CatalogWorkers : cat'[w] = NoRequest
  BY <1>1 DEF CatalogRestart
<1>3. CASE Backend = "sqlite"
  <2>1. artifacts' = artifacts /\ sources' = sources
    BY <1>3 DEF CatalogRestart, AfterRestart
  <2> QED BY <1>1, <1>2, <2>1 DEF CatalogInv, SourceDigestAgrees
<1>4. CASE Backend # "sqlite"
  <2>1. artifacts' = [k \in ArtifactKey |-> None] /\ sources' = [id \in SourceID |-> None]
    BY <1>4 DEF CatalogRestart, AfterRestart, EmptyTable, CatalogInv, ArtifactTable, SourceTable
  <2> QED BY <1>1, <1>2, <2>1 DEF CatalogInv, SourceDigestAgrees, ArtifactTable, SourceTable
<1> QED BY <1>3, <1>4

\* The invariant holds initially.
LEMMA InvInit == CatalogInit => CatalogInv
<1>1. NoRequest \in CatalogRequest /\ \A arts, srcs : Knows(NoRequest, arts, srcs)
  BY FailKnows DEF ErrClass
<1> QED BY <1>1 DEF CatalogInit, CatalogInv, EmptyTable, ArtifactTable, SourceTable, SourceDigestAgrees

\* Every step preserves the invariant.
LEMMA InvStep == CatalogInv /\ [CatalogNext]_catalogVars => CatalogInv'
<1> SUFFICES ASSUME CatalogInv, [CatalogNext]_catalogVars PROVE CatalogInv'
  OBVIOUS
<1>1. ASSUME NEW w \in CatalogWorkers, CatalogCall(w) PROVE CatalogInv'
  BY <1>1, RegisterInv, AddSourceInv, UpdateSourceStateInv, VerifySourceInv DEF CatalogCall
<1>2. ASSUME NEW w \in CatalogWorkers, CatalogStep(w) PROVE CatalogInv'
  BY <1>2, RegisterPutArtifactInv, RegisterPutSourcesInv, GetSourceArtifactInv, PutSourceInv, ReplyInv
     DEF CatalogStep
<1>3. ASSUME NEW w \in CatalogWorkers, CatalogStoreError(w) PROVE CatalogInv'
  BY <1>3, StoreErrorInv
<1>4. CASE CatalogRestart
  BY <1>4, RestartInv
<1>5. CASE UNCHANGED catalogVars
  BY <1>5 DEF CatalogInv, SourceDigestAgrees, catalogVars
<1> QED BY <1>1, <1>2, <1>3, <1>4, <1>5 DEF CatalogNext, CatalogHandlers

-----------------------------------------------------------------------------
(* The theorems.                                                            *)

\* Every stored source carries the nonblank digest of its stored artifact, whatever
\* registrations race with the handler that wrote it.
THEOREM SourcesAgree == CatalogSpec => []SourceDigestAgrees
<1>1. CatalogInv => SourceDigestAgrees
  BY DEF CatalogInv
<1> QED BY <1>1, InvInit, InvStep, PTL DEF CatalogSpec

\* A handler finds again the artifact it read and the source it wrote: the branches for
\* "not found after write" and for a source without its artifact are dead.
THEOREM HandlersFindAgain == CatalogSpec => []NothingVanishes
<1>1. ASSUME CatalogInv PROVE NothingVanishes
  <2> SUFFICES ASSUME NEW w \in CatalogWorkers
               PROVE  /\ cat[w].pc = "getArtifact" => artifacts[cat[w].src.owner] # None
                      /\ cat[w].pc = "reread" => GetArtifactSource(artifacts, sources, cat[w].id) # None
    BY DEF NothingVanishes
  <2> QED BY <1>1 DEF CatalogInv, Knows, GetArtifactSource
<1> QED BY <1>1, InvInit, InvStep, PTL DEF CatalogSpec

\* AlreadyExists is final: the conflict it reports is in the store, and stays there.
THEOREM AlreadyExistsStands == CatalogSpec => []AlreadyExistsIsFinal
<1>1. ASSUME CatalogInv PROVE AlreadyExistsIsFinal
  <2> SUFFICES ASSUME NEW w \in CatalogWorkers, cat[w].pc = "reply",
                      toGRPCError(cat[w].err) = "AlreadyExists"
               PROVE  IF cat[w].op = "register" THEN DigestConflict(artifacts[cat[w].key], cat[w].art)
                      ELSE /\ sources[cat[w].id] # None
                           /\ sources[cat[w].id].owner # cat[w].src.owner
    BY DEF AlreadyExistsIsFinal
  <2>1. cat[w].err \in ErrClass
    BY <1>1 DEF CatalogInv, CatalogRequest
  <2>2. cat[w].err = "AlreadyExists"
    BY <2>1 DEF toGRPCError, ErrClass
  <2> QED BY <1>1, <2>2 DEF CatalogInv, Knows
<1> QED BY <1>1, InvInit, InvStep, PTL DEF CatalogSpec

\* An artifact that has a digest is never rewritten, in either store, by any order of
\* registrations: only node names are filled in, until a restart of the memory store.
THEOREM DigestsNeverChange == CatalogSpec => DigestImmutable
<1> DEFINE Kept == \A k \in ArtifactKey :
                      (artifacts[k] # None /\ artifacts[k].digest # "") =>
                          artifacts'[k] \in {artifacts[k], NodesFilled(artifacts[k]),
                                             AfterRestart(artifacts)[k]}
<1>1. ASSUME CatalogInv, [CatalogNext]_catalogVars PROVE Kept
  <2>1. CASE UNCHANGED artifacts
    BY <2>1
  <2>2. CASE artifacts' = AfterRestart(artifacts)
    BY <2>2
  <2>3. ASSUME NEW w \in CatalogWorkers, RegisterPutArtifact(w) PROVE Kept
    <3>1. cat[w].key \in ArtifactKey /\ artifacts \in ArtifactTable
      BY <1>1, <2>3 DEF CatalogInv, Knows, RegisterPutArtifact
    <3>2. artifacts' \in {artifacts, PutArtifact(artifacts, cat[w].key, cat[w].art)}
      BY <2>3 DEF RegisterPutArtifact
    <3> QED BY <3>1, <3>2 DEF PutArtifact, ArtifactTable
  <2>4. ASSUME NEW w \in CatalogWorkers, RegisterPutSources(w) \/ CatalogStoreError(w) PROVE Kept
    <3>1. cat[w].pc = "putSources" => cat[w].key \in ArtifactKey /\ cat[w].art \in Artifact
      BY <1>1 DEF CatalogInv, Knows
    <3>2. artifacts \in ArtifactTable
      BY <1>1 DEF CatalogInv
    <3>3. CASE UNCHANGED artifacts
      BY <3>3
    <3>4. CASE cat[w].pc = "putSources" /\ artifacts' = FillNodeNames(artifacts, cat[w].key, cat[w].art)
      BY <3>1, <3>2, <3>4, FillNodeNamesKeeps
    <3> QED BY <2>4, <3>3, <3>4 DEF RegisterPutSources, CatalogStoreError
  <2> QED BY <1>1, <2>1, <2>2, <2>3, <2>4, Zenon
          DEF CatalogNext, CatalogHandlers, CatalogCall, CatalogStep, CatalogRestart, RegisterArtifact,
              AddSource, UpdateSourceState, VerifySource, GetSourceArtifact, PutSource, RereadSource,
              Reply, catalogVars
<1> QED BY <1>1, InvInit, InvStep, PTL DEF CatalogSpec, DigestImmutable

\* Both tables and every request are well formed throughout.
THEOREM CatalogTypeCorrect == CatalogSpec => []CatalogTypeOK
<1>1. CatalogInv => CatalogTypeOK
  BY DEF CatalogInv, Knows, CatalogTypeOK, ArtifactTable, SourceTable
<1> QED BY <1>1, InvInit, InvStep, PTL DEF CatalogSpec

\* The steps of a handler that answers OK.
LEMMA OnlyTheseAnswerOK ==
    ASSUME CatalogInv, [CatalogNext]_catalogVars, NEW w \in CatalogWorkers,
           cat[w].pc # "reply", cat'[w].pc = "reply", toGRPCError(cat'[w].err) = "OK"
    PROVE  \/ /\ RegisterPutSources(w)
              /\ ~ErrSourceOwnershipConflict(sources, initialSourcesForArtifact(cat[w].key, cat[w].art))
           \/ RereadSource(w)
<1>1. cat \in [CatalogWorkers -> CatalogRequest] /\ cat'[w].err = ""
  <2>1. cat' \in [CatalogWorkers -> CatalogRequest]
    BY InvStep DEF CatalogInv
  <2> QED BY <2>1 DEF CatalogInv, CatalogRequest, ErrClass, toGRPCError
<1>2. ASSUME NEW v \in CatalogWorkers, NEW err, err # "" PROVE ~Fail(v, err)
  BY <1>1, <1>2 DEF Fail, Answer, NoRequest
<1>3. ASSUME NEW v \in CatalogWorkers, NEW q, Answer(v, q, "AlreadyExists") PROVE q \notin CatalogRequest
  BY <1>1, <1>3 DEF Answer, CatalogRequest
<1>4. ASSUME NEW v \in CatalogWorkers, NEW q, q.pc # "reply", cat' = [cat EXCEPT ![v] = q] PROVE FALSE
  BY <1>1, <1>4
<1>5. ASSUME NEW v \in CatalogWorkers, NEW k \in ArtifactKey, NEW a \in Offers, RegisterArtifact(v, k, a)
      PROVE  FALSE
  <2> DEFINE req == [NoRequest EXCEPT !.op = "register", !.key = k, !.art = a]
  <2>1. req \in CatalogRequest
    BY InventoryAssumption DEF NoRequest, CatalogRequest, CatalogPC, ErrClass
  <2>2. [req EXCEPT !.pc = "putArtifact"].pc # "reply"
    BY DEF NoRequest
  <2> QED BY <1>2, <1>3, <1>4, <1>5, <2>1, <2>2 DEF RegisterArtifact
<1>6. ASSUME NEW v \in CatalogWorkers, NEW k \in ArtifactKey, NEW o \in SourceOffers, AddSource(v, k, o)
      PROVE  FALSE
  BY <1>1, <1>2, <1>6 DEF AddSource, NoRequest
<1>7. ASSUME NEW v \in CatalogWorkers, NEW id \in SourceID, NEW st \in RequestedStates,
             UpdateSourceState(v, id, st)
      PROVE  FALSE
  BY <1>1, <1>2, <1>7 DEF UpdateSourceState, NoRequest
<1>8. ASSUME NEW v \in CatalogWorkers, NEW id \in SourceID, VerifySource(v, id) PROVE FALSE
  BY <1>1, <1>2, <1>8 DEF VerifySource, NoRequest
<1>9. ASSUME NEW v \in CatalogWorkers, RegisterPutArtifact(v) \/ GetSourceArtifact(v) PROVE FALSE
  <2>1. cat[v] \in CatalogRequest
    BY <1>1
  <2> QED BY <1>1, <1>2, <1>9, <2>1, ZenonT(60) DEF RegisterPutArtifact, GetSourceArtifact, CatalogRequest
<1>10. ASSUME NEW v \in CatalogWorkers, PutSource(v) PROVE FALSE
  <2>1. cat[v] \in CatalogRequest
    BY <1>1
  <2> QED BY <1>1, <1>2, <1>3, <1>10, <2>1, ZenonT(60) DEF PutSource, CatalogRequest
<1>11. ASSUME NEW v \in CatalogWorkers, Reply(v) \/ CatalogStoreError(v) PROVE FALSE
  BY <1>1, <1>2, <1>11 DEF Reply, CatalogStoreError, NoRequest
<1>12. ASSUME CatalogRestart PROVE FALSE
  BY <1>12 DEF CatalogRestart, NoRequest
<1>13. ASSUME NEW v \in CatalogWorkers, RereadSource(v) PROVE v = w
  BY <1>1, <1>13 DEF RereadSource, Answer
<1>14. ASSUME NEW v \in CatalogWorkers, RegisterPutSources(v)
       PROVE  v = w /\ ~ErrSourceOwnershipConflict(sources, initialSourcesForArtifact(cat[v].key, cat[v].art))
  BY <1>1, <1>2, <1>14 DEF RegisterPutSources, Answer
<1>15. ~UNCHANGED catalogVars
  BY DEF catalogVars
<1> QED BY <1>5, <1>6, <1>7, <1>8, <1>9, <1>10, <1>11, <1>12, <1>13, <1>14, <1>15
        DEF CatalogNext, CatalogHandlers, CatalogCall, CatalogStep

\* A client is told OK only when the store holds what it asked for, under its own
\* artifact, whatever other requests wrote since its first check.
THEOREM AcknowledgementsHold == CatalogSpec => AcknowledgedIsStored
<1> DEFINE Acknowledged == \A w \in CatalogWorkers :
                              (cat[w].pc # "reply" /\ cat'[w].pc = "reply" /\ toGRPCError(cat'[w].err) = "OK") =>
                                  Stored(w)'
<1>1. ASSUME CatalogInv, NEW w \in CatalogWorkers, RegisterPutSources(w),
             ~ErrSourceOwnershipConflict(sources, initialSourcesForArtifact(cat[w].key, cat[w].art))
      PROVE  Stored(w)'
  <2> DEFINE k == cat[w].key
             a == cat[w].art
             rows == initialSourcesForArtifact(k, a)
             q == cat'[w]
  <2>1. /\ cat[w] \in CatalogRequest /\ k \in ArtifactKey /\ a \in Artifact
        /\ cat[w].op = "register" /\ artifacts[k] # None
        /\ a.digest # "" => artifacts[k].digest = a.digest
    BY <1>1 DEF CatalogInv, Knows, RegisterPutSources
  <2>2. artifacts' \in ArtifactTable /\ ArtifactsKept(artifacts, artifacts')
    BY <1>1, <2>1, FillNodeNamesKeeps DEF RegisterPutSources, CatalogInv
  <2>3. sources' = PutArtifactSources(sources, rows) /\ sources \in SourceTable
    BY <1>1 DEF RegisterPutSources, CatalogInv
  <2>4. cat'[w] = [cat[w] EXCEPT !.pc = "reply", !.err = ""]
    BY <1>1 DEF RegisterPutSources, Answer, CatalogInv
  <2>5. q.op = "register" /\ q.key = k /\ q.art = a
    BY <2>1, <2>4 DEF CatalogRequest
  <2>6. artifacts'[k] # None /\ (a.digest # "" => artifacts'[k].digest = a.digest)
    BY <2>1, <2>2 DEF ArtifactsKept
  <2>7. ~ErrSourceOwnershipConflict(sources, rows)
    BY <1>1
  <2> HIDE DEF k, a
  <2>8. /\ DOMAIN rows \subseteq SourceID
        /\ \A id \in DOMAIN rows : rows[id] \in Source /\ rows[id].owner = k
    BY <2>1, InitialSources, Zenon
  <2> HIDE DEF rows
  <2>9. /\ sources' \in SourceTable
        /\ \A id \in DOMAIN rows : sources'[id] # None /\ sources'[id].owner = rows[id].owner
    BY <2>3, <2>7, <2>8, PutSourcesKeeps
  <2>10. DOMAIN rows \subseteq ListArtifactSources(artifacts', sources', k)
    BY <2>6, <2>8, <2>9 DEF ListArtifactSources, SourceTable
  <2> HIDE DEF q
  <2> QED BY <2>5, <2>6, <2>10 DEF Stored, q, rows
<1>2. ASSUME CatalogInv, NEW w \in CatalogWorkers, RereadSource(w) PROVE Stored(w)'
  <2> DEFINE q == cat'[w]
  <2>1. /\ cat[w] \in CatalogRequest /\ cat[w].op # "register" /\ cat[w].id \in SourceID
        /\ artifacts[cat[w].src.owner] # None
        /\ sources[cat[w].id] # None /\ sources[cat[w].id].owner = cat[w].src.owner
        /\ DOMAIN sources = SourceID
    BY <1>2 DEF CatalogInv, Knows, RereadSource, SourceTable
  <2>2. UNCHANGED <<artifacts, sources>> /\ q = [cat[w] EXCEPT !.pc = "reply", !.err = ""]
    BY <1>2 DEF RereadSource, Answer, CatalogInv
  <2>3. q.op = cat[w].op /\ q.id = cat[w].id /\ q.src = cat[w].src
    BY <2>1, <2>2 DEF CatalogRequest
  <2> HIDE DEF q
  <2> QED BY <2>1, <2>2, <2>3, SMTT(20) DEF Stored, ListArtifactSources, q
<1>3. ASSUME CatalogInv, [CatalogNext]_catalogVars PROVE Acknowledged
  BY <1>1, <1>2, <1>3, OnlyTheseAnswerOK
<1> QED BY <1>3, InvInit, InvStep, PTL DEF CatalogSpec, AcknowledgedIsStored

\* A source row stays while the process runs, keeps its owner, and changes only through
\* a request for its own artifact, whatever source IDs clients send.
THEOREM OwnersAreFixed == CatalogSpec => SourceOwnerFixed
<1> DEFINE Fixed == \A id \in SourceID :
                       (sources[id] # None /\ sources' # AfterRestart(sources)) =>
                           /\ sources'[id] # None
                           /\ sources'[id].owner = sources[id].owner
                           /\ sources'[id] # sources[id] =>
                                 \E w \in CatalogWorkers :
                                     /\ cat'[w] # cat[w]
                                     /\ \/ cat[w].key = sources[id].owner
                                        \/ cat[w].src # None /\ cat[w].src.owner = sources[id].owner
<1>1. ASSUME UNCHANGED sources \/ sources' = AfterRestart(sources) PROVE Fixed
  BY <1>1
<1>2. ASSUME CatalogInv, NEW w \in CatalogWorkers, NEW rows, DOMAIN rows \subseteq SourceID,
             \A id \in DOMAIN rows : rows[id] \in Source,
             ~ErrSourceOwnershipConflict(sources, rows), sources' = PutArtifactSources(sources, rows),
             \A id \in DOMAIN rows : \/ cat[w].key = rows[id].owner
                                     \/ cat[w].src # None /\ cat[w].src.owner = rows[id].owner,
             cat'[w] # cat[w]
      PROVE  Fixed
  <2>1. sources \in SourceTable
    BY <1>2 DEF CatalogInv
  <2>2. /\ SourcesKept(sources, sources')
        /\ \A id \in SourceID : id \notin DOMAIN rows => sources'[id] = sources[id]
    BY <1>2, <2>1, PutSourcesKeeps
  <2>3. \A id \in DOMAIN rows : sources[id] # None => sources[id].owner = rows[id].owner
    BY <1>2 DEF ErrSourceOwnershipConflict
  <2> QED BY <1>2, <2>2, <2>3 DEF SourcesKept
<1>3. ASSUME CatalogInv, NEW w \in CatalogWorkers, RegisterPutSources(w), sources' # sources PROVE Fixed
  <2> DEFINE k == cat[w].key
             a == cat[w].art
             rows == initialSourcesForArtifact(k, a)
  <2>1. /\ cat[w] \in CatalogRequest /\ k \in ArtifactKey /\ a \in Artifact
        /\ cat[w].pc = "putSources"
    BY <1>3, ZenonT(30) DEF CatalogInv, Knows, RegisterPutSources
  <2>2. ~ErrSourceOwnershipConflict(sources, rows) /\ sources' = PutArtifactSources(sources, rows)
    BY <1>3 DEF RegisterPutSources
  <2>3. cat'[w].pc = "reply"
    <3>1. cat' = [cat EXCEPT ![w] = [cat[w] EXCEPT !.pc = "reply", !.err = ""]]
      BY <1>3 DEF RegisterPutSources, Answer
    <3> QED BY <1>3, <2>1, <3>1 DEF CatalogInv, CatalogRequest
  <2> HIDE DEF k, a
  <2>4. /\ DOMAIN rows \subseteq SourceID
        /\ \A id \in DOMAIN rows : rows[id] \in Source /\ rows[id].owner = k
    BY <2>1, InitialSources, Zenon
  <2> HIDE DEF rows, Fixed
  <2> QED BY <1>2, <1>3, <2>1, <2>2, <2>3, <2>4, SMTT(20) DEF k
<1>4. ASSUME CatalogInv, NEW w \in CatalogWorkers, PutSource(w), sources' # sources PROVE Fixed
  <2> DEFINE rows == [id \in {cat[w].id} |-> cat[w].src]
  <2>1. /\ cat[w] \in CatalogRequest /\ cat[w].id \in SourceID /\ cat[w].src \in Source
        /\ cat[w].pc = "putSource"
    BY <1>4 DEF CatalogInv, Knows, PutSource
  <2>2. ~ErrSourceOwnershipConflict(sources, rows) /\ sources' = PutArtifactSources(sources, rows)
    BY <1>4 DEF PutSource
  <2>3. cat'[w].pc = "reread"
    BY <1>4, <2>1 DEF PutSource, CatalogInv, CatalogRequest
  <2>4. DOMAIN rows \subseteq SourceID /\ \A id \in DOMAIN rows : rows[id] = cat[w].src
    BY <2>1
  <2>5. cat[w].src # None
    BY <2>1, NoneAssumption
  <2> HIDE DEF rows, Fixed
  <2> QED BY <1>2, <1>4, <2>1, <2>2, <2>3, <2>4, <2>5
<1>5. ASSUME CatalogInv, [CatalogNext]_catalogVars PROVE Fixed
  <2>1. \/ UNCHANGED sources \/ sources' = AfterRestart(sources)
        \/ \E w \in CatalogWorkers : RegisterPutSources(w) \/ PutSource(w)
    BY <1>5, ZenonT(30) DEF CatalogNext, CatalogHandlers, CatalogCall, CatalogStep, CatalogRestart, RegisterArtifact,
                AddSource, UpdateSourceState, VerifySource, GetSourceArtifact, RereadSource, Reply,
                RegisterPutArtifact, CatalogStoreError, catalogVars
  <2> HIDE DEF Fixed
  <2> QED BY <1>1, <1>3, <1>4, <1>5, <2>1, SMTT(20)
<1> QED BY <1>5, InvInit, InvStep, PTL DEF CatalogSpec, SourceOwnerFixed

-----------------------------------------------------------------------------
(* Validation.  The memory store replaces a row whole, so what was validated *)
(* is what is stored.                                                        *)

\* Every source that a request is about to write, and every stored one, is valid.
ValidInv ==
    /\ \A w \in CatalogWorkers :
          cat[w].pc \in {"getArtifact", "putSource"} => ValidateArtifactSource(cat[w].src)
    /\ StoredSourcesValid

\* Validation does not look at the state of a source.
LEMMA StateIsNotValidated ==
    ASSUME NEW src \in Source, NEW st, ValidateArtifactSource(src)
    PROVE  ValidateArtifactSource([src EXCEPT !.state = st])
<1> DEFINE new == [src EXCEPT !.state = st]
<1>1. new.loc = src.loc /\ new.backend = src.backend
  BY DEF Source
<1> HIDE DEF new
<1> QED BY <1>1 DEF ValidateArtifactSource, new

\* A step of one request that leaves the sources alone.
LEMMA ValidRequest ==
    ASSUME CatalogInv, ValidInv, NEW w \in CatalogWorkers, NEW q, cat' = [cat EXCEPT ![w] = q],
           UNCHANGED sources, q.pc \in {"getArtifact", "putSource"} => ValidateArtifactSource(q.src)
    PROVE  ValidInv'
<1>1. ASSUME NEW v \in CatalogWorkers
      PROVE  cat'[v].pc \in {"getArtifact", "putSource"} => ValidateArtifactSource(cat'[v].src)
  BY DEF ValidInv, CatalogInv
<1> QED BY <1>1 DEF ValidInv, StoredSourcesValid

\* The step that fails a request.
LEMMA ValidFail ==
    ASSUME CatalogInv, ValidInv, NEW w \in CatalogWorkers, NEW err, Fail(w, err), UNCHANGED sources
    PROVE  ValidInv'
<1>1. [NoRequest EXCEPT !.pc = "reply", !.err = err].pc = "reply"
  BY DEF NoRequest
<1> QED BY <1>1, ValidRequest, Zenon DEF Fail, Answer

\* Rows that are valid stay so when valid ones are written.
LEMMA ValidWrite ==
    ASSUME Backend = "memory", CatalogInv, ValidInv, NEW w \in CatalogWorkers, NEW q,
           cat' = [cat EXCEPT ![w] = q], q.pc \notin {"getArtifact", "putSource"},
           NEW rows, sources' = PutArtifactSources(sources, rows),
           \A id \in DOMAIN rows : ValidateArtifactSource(rows[id])
    PROVE  ValidInv'
<1>1. ASSUME NEW v \in CatalogWorkers
      PROVE  cat'[v].pc \in {"getArtifact", "putSource"} => ValidateArtifactSource(cat'[v].src)
  BY DEF ValidInv, CatalogInv
<1>2. \A id \in SourceID : sources'[id] = IF id \in DOMAIN rows THEN rows[id] ELSE sources[id]
  BY DEF PutArtifactSources, MemoryPutArtifactSources, CatalogInv, SourceTable
<1>3. StoredSourcesValid'
  BY <1>2 DEF ValidInv, StoredSourcesValid
<1> QED BY <1>1, <1>3 DEF ValidInv

\* The steps that start a request.
LEMMA ValidCall ==
    ASSUME CatalogInv, ValidInv, NEW w \in CatalogWorkers, CatalogCall(w)
    PROVE  ValidInv'
<1>1. ASSUME NEW k \in ArtifactKey, NEW a \in Offers, RegisterArtifact(w, k, a) PROVE ValidInv'
  <2> DEFINE req == [NoRequest EXCEPT !.op = "register", !.key = k, !.art = a]
             conflict == [req EXCEPT !.pc = "reply", !.err = "AlreadyExists"]
             put == [req EXCEPT !.pc = "putArtifact"]
  <2>1. conflict.pc = "reply" /\ put.pc = "putArtifact"
    BY DEF NoRequest
  <2>2. /\ UNCHANGED sources
        /\ \/ cat' = [cat EXCEPT ![w] = conflict]
           \/ Fail(w, "other")
           \/ cat' = [cat EXCEPT ![w] = put]
    BY <1>1 DEF RegisterArtifact, Answer
  <2> HIDE DEF conflict, put
  <2> QED BY <2>1, <2>2, ValidRequest, ValidFail
<1>2. ASSUME NEW k \in ArtifactKey, NEW o \in SourceOffers, AddSource(w, k, o) PROVE ValidInv'
  <2> DEFINE src == AddedSource(k, o)
             id == IF o.id = None THEN <<k, o.backend, o.loc>> ELSE o.id
             q == [NoRequest EXCEPT !.pc = "putSource", !.op = "add", !.id = id, !.src = src]
  <2>1. q.src = src
    BY DEF NoRequest
  <2>2. \/ \E err : Fail(w, err) /\ UNCHANGED sources
        \/ cat' = [cat EXCEPT ![w] = q] /\ ValidateArtifactSource(src) /\ UNCHANGED sources
    BY <1>2 DEF AddSource, ValidAddedSource, ValidateArtifactSourceForArtifact
  <2> HIDE DEF q, src
  <2> QED BY <2>1, <2>2, ValidRequest, ValidFail
<1>3. ASSUME NEW id \in SourceID, NEW st, GetArtifactSource(artifacts, sources, id) # None,
             NEW q, cat' = [cat EXCEPT ![w] = q], UNCHANGED sources,
             q.src \in {sources[id], [sources[id] EXCEPT !.state = st]}
      PROVE  ValidInv'
  <2>1. sources[id] \in Source /\ ValidateArtifactSource(sources[id])
    BY <1>3 DEF GetArtifactSource, CatalogInv, SourceTable, ValidInv, StoredSourcesValid
  <2>2. ValidateArtifactSource(q.src)
    BY <1>3, <2>1, StateIsNotValidated
  <2> QED BY <1>3, <2>2, ValidRequest, Zenon
<1>4. ASSUME NEW id \in SourceID, NEW st \in RequestedStates, UpdateSourceState(w, id, st) PROVE ValidInv'
  <2> DEFINE src == [sources[id] EXCEPT !.state = st]
             q == [NoRequest EXCEPT !.pc = "getArtifact", !.op = "update", !.id = id, !.src = src]
  <2>1. q.src = src
    BY DEF NoRequest
  <2>2. /\ UNCHANGED sources
        /\ \/ \E err : Fail(w, err)
           \/ GetArtifactSource(artifacts, sources, id) # None /\ cat' = [cat EXCEPT ![w] = q]
    BY <1>4 DEF UpdateSourceState
  <2> HIDE DEF q
  <2> QED BY <1>3, <2>1, <2>2, ValidFail, Zenon
<1>5. ASSUME NEW id \in SourceID, VerifySource(w, id) PROVE ValidInv'
  <2> DEFINE src == GetArtifactSource(artifacts, sources, id)
             q == [NoRequest EXCEPT !.pc = "getArtifact", !.op = "verify", !.id = id, !.src = src]
  <2>1. q.src = src /\ (src # None => src = sources[id])
    BY DEF NoRequest, GetArtifactSource
  <2>2. /\ UNCHANGED sources
        /\ \/ \E err : Fail(w, err)
           \/ src # None /\ cat' = [cat EXCEPT ![w] = q]
    BY <1>5 DEF VerifySource
  <2> HIDE DEF q, src
  <2> QED BY <1>3, <2>1, <2>2, ValidFail DEF src
<1> QED BY <1>1, <1>2, <1>4, <1>5 DEF CatalogCall

\* The later steps of a request.
LEMMA ValidStep ==
    ASSUME Backend = "memory", CatalogInv, ValidInv, NEW w \in CatalogWorkers, CatalogStep(w)
    PROVE  ValidInv'
<1>1. cat[w] \in CatalogRequest
  BY DEF CatalogInv
<1>2. CASE RegisterPutArtifact(w)
  <2> DEFINE q == [cat[w] EXCEPT !.pc = "putSources"]
  <2>1. q.pc = "putSources"
    BY <1>1 DEF CatalogRequest
  <2>2. UNCHANGED sources /\ (Fail(w, "other") \/ cat' = [cat EXCEPT ![w] = q])
    BY <1>2 DEF RegisterPutArtifact, CatalogInv
  <2> HIDE DEF q
  <2> QED BY <2>1, <2>2, ValidRequest, ValidFail
<1>3. CASE RegisterPutSources(w)
  <2> DEFINE k == cat[w].key
             a == cat[w].art
             rows == initialSourcesForArtifact(k, a)
             q == [cat[w] EXCEPT !.pc = "reply", !.err = ""]
  <2>1. k \in ArtifactKey /\ a \in Artifact /\ q.pc = "reply"
    BY <1>1, <1>3 DEF CatalogInv, Knows, RegisterPutSources, CatalogRequest
  <2>2. \/ Fail(w, "other") /\ UNCHANGED sources
        \/ sources' = PutArtifactSources(sources, rows) /\ cat' = [cat EXCEPT ![w] = q]
    BY <1>3 DEF RegisterPutSources, Answer
  <2> HIDE DEF k, a, q
  <2>3. \A id \in DOMAIN rows : ValidateArtifactSource(rows[id])
    BY <2>1, InitialSources, Zenon
  <2> HIDE DEF rows
  <2> QED BY <2>1, <2>2, <2>3, ValidFail, ValidWrite
<1>4. CASE GetSourceArtifact(w)
  <2> DEFINE st == IF cat[w].op = "verify" THEN VerifiedState(cat[w].src) ELSE cat[w].src.state
             src == [cat[w].src EXCEPT !.state = st]
             q == [cat[w] EXCEPT !.pc = "putSource", !.src = src]
  <2>1. cat[w].src \in Source /\ ValidateArtifactSource(cat[w].src)
    BY <1>4 DEF CatalogInv, Knows, GetSourceArtifact, ValidInv
  <2>2. cat' = [cat EXCEPT ![w] = q] /\ UNCHANGED sources
    BY <1>1, <1>4, <2>1, Zenon DEF GetSourceArtifact, CatalogInv, CatalogRequest, Source
  <2>3. q.src = src
    BY <1>1 DEF CatalogRequest
  <2> HIDE DEF st
  <2>4. ValidateArtifactSource(src)
    BY <2>1, StateIsNotValidated
  <2> HIDE DEF q, src
  <2> QED BY <2>2, <2>3, <2>4, ValidRequest, Zenon
<1>5. CASE PutSource(w)
  <2> DEFINE rows == [id \in {cat[w].id} |-> cat[w].src]
             exists == [cat[w] EXCEPT !.pc = "reply", !.err = "AlreadyExists"]
             written == [cat[w] EXCEPT !.pc = "reread"]
  <2>1. exists.pc = "reply" /\ written.pc = "reread"
    BY <1>1 DEF CatalogRequest
  <2>2. \A id \in DOMAIN rows : ValidateArtifactSource(rows[id])
    BY <1>5 DEF PutSource, ValidInv
  <2>3. \/ UNCHANGED sources /\ (Fail(w, "other") \/ cat' = [cat EXCEPT ![w] = exists])
        \/ sources' = PutArtifactSources(sources, rows) /\ cat' = [cat EXCEPT ![w] = written]
    BY <1>5 DEF PutSource, Answer, CatalogInv
  <2> HIDE DEF rows, exists, written
  <2> QED BY <2>1, <2>2, <2>3, ValidRequest, ValidFail, ValidWrite
<1>6. CASE RereadSource(w)
  <2> DEFINE q == [cat[w] EXCEPT !.pc = "reply", !.err = ""]
  <2>1. q.pc = "reply"
    BY <1>1 DEF CatalogRequest
  <2>2. cat' = [cat EXCEPT ![w] = q] /\ UNCHANGED sources
    BY <1>6 DEF RereadSource, Answer
  <2> HIDE DEF q
  <2> QED BY <2>1, <2>2, ValidRequest, Zenon
<1>7. CASE Reply(w)
  <2>1. NoRequest.pc = "idle"
    BY DEF NoRequest
  <2> QED BY <1>7, <2>1, ValidRequest, Zenon DEF Reply
<1> QED BY <1>2, <1>3, <1>4, <1>5, <1>6, <1>7 DEF CatalogStep

\* With the memory store every stored source is valid: what AddSource,
\* UpdateSourceState, VerifySource and RegisterArtifact validated is written whole.
\* (The conflict update of SQLiteStore keeps the stored backend and takes the new
\* location; see SQLitePutArtifactSources.)
THEOREM MemorySourcesValid ==
    ASSUME Backend = "memory"
    PROVE  CatalogSpec => []StoredSourcesValid
<1>1. CatalogInit => ValidInv
  <2> SUFFICES ASSUME CatalogInit PROVE ValidInv
    OBVIOUS
  <2>1. \A w \in CatalogWorkers : cat[w].pc = "idle"
    BY DEF CatalogInit, NoRequest
  <2>2. \A id \in SourceID : sources[id] = None
    BY DEF CatalogInit, EmptyTable
  <2> QED BY <2>1, <2>2 DEF ValidInv, StoredSourcesValid
<1>2. ASSUME CatalogInv, ValidInv, [CatalogNext]_catalogVars PROVE ValidInv'
  <2>1. ASSUME NEW w \in CatalogWorkers, CatalogStoreError(w) PROVE ValidInv'
    BY <1>2, <2>1, ValidFail DEF CatalogStoreError
  <2>2. CASE CatalogRestart
    <3>1. \A id \in SourceID : sources'[id] = None
      BY <1>2, <2>2 DEF CatalogRestart, AfterRestart, EmptyTable, CatalogInv, SourceTable
    <3> QED BY <2>2, <3>1 DEF CatalogRestart, NoRequest, ValidInv, StoredSourcesValid
  <2>3. CASE UNCHANGED catalogVars
    BY <1>2, <2>3 DEF catalogVars, ValidInv, StoredSourcesValid
  <2> QED BY <1>2, <2>1, <2>2, <2>3, ValidCall, ValidStep DEF CatalogNext, CatalogHandlers
<1>3. CatalogInv /\ ValidInv /\ [CatalogNext]_catalogVars => ValidInv'
  BY <1>2
<1>4. ValidInv => StoredSourcesValid
  BY DEF ValidInv
<1> QED BY <1>1, <1>3, <1>4, InvInit, InvStep, PTL DEF CatalogSpec
=============================================================================
