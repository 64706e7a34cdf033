--------------------------- MODULE ContractProofs ---------------------------
(***************************************************************************)
(* SQLiteStore implements the store contract, for every value of the        *)
(* constants.                                                               *)
(*                                                                          *)
(* A call writes its rows one statement at a time into the transaction's    *)
(* copy and shows them by one commit. CopyInv (DatabaseProofs) says which   *)
(* of the call's rows the copy has so far, and that none of them was        *)
(* refused against the file. At the commit this is the contract's atomic    *)
(* call; a refused statement is the contract's refusal, because the row it  *)
(* met is the file's; every other end of a transaction has no effect.       *)
(***************************************************************************)
EXTENDS SQLiteContract, DatabaseProofs

\* The tables of a database as the reads see them.
ArtifactsOf(db) ==
    [k \in ArtifactKey |->
        LET row == LookupLive(db.artifacts, KeyString[k]) IN IF row = None THEN None ELSE row.art]

SourcesOf(db) == [id \in SourceIDs |-> AsSource(db.sources[id])]

TerminalsOf(db) ==
    [n \in NodeAttemptKey |->
        LET row == LookupLive(db.terminals, AttemptString[n]) IN IF row = None THEN None ELSE row.state]

-----------------------------------------------------------------------------
(* What the reads return of the rows.                                       *)

\* The tables are functions.
LEMMA TablesAre ==
    ASSUME NEW db
    PROVE  /\ ArtifactsOf(db) = [k \in ArtifactKey |-> ArtifactsOf(db)[k]]
           /\ SourcesOf(db) = [id \in SourceIDs |-> SourcesOf(db)[id]]
           /\ TerminalsOf(db) = [n \in NodeAttemptKey |-> TerminalsOf(db)[n]]
  BY DEF ArtifactsOf, SourcesOf, TerminalsOf

\* GetArtifact returns the row under the identity's key, which is never a legacy one.
LEMMA ArtifactRead ==
    ASSUME NEW db \in Database, OfOneKind(db), NEW k \in ArtifactKey
    PROVE  LET row == db.artifacts[KeyString[k]]
           IN  /\ row \in StoredArtifact \cup {None}
               /\ row = None => ArtifactsOf(db)[k] = None
               /\ row # None => /\ row.art \in Artifact
                                /\ ArtifactsOf(db)[k] = row.art
                                /\ ArtifactsOf(db)[k] # None
  <1> DEFINE row == db.artifacts[KeyString[k]]
  <1>1. KeyString[k] \in ArtifactRows /\ k.run # <<>>
    BY KeysOfRuns
  <1>2. DOMAIN db.artifacts = ArtifactRows /\ row \in StoredArtifact \cup {None}
    BY <1>1, Fields
  <1>3. row # None => row.run_id = k.run
    BY RowOfRun
  <1>4. ~Legacy(row)
    BY <1>1, <1>3 DEF Legacy
  <1>5. row # None => row.art \in Artifact /\ row.art # None
    BY <1>2, NoneAssumption DEF StoredArtifact
  <1>6. LookupLive(db.artifacts, KeyString[k]) = row
    BY <1>1, <1>2, <1>4 DEF LookupLive
  <1> QED
    BY <1>2, <1>5, <1>6 DEF ArtifactsOf

\* A refused registration is one the contract refuses.
LEMMA ArtifactRefusedRead ==
    ASSUME NEW db \in Database, OfOneKind(db), NEW k \in ArtifactKey, NEW a \in Artifact
    PROVE  LET got == ArtifactsOf(db)[k]
           IN  ArtifactRefused(db.artifacts[KeyString[k]], a)
                  <=> got # None /\ got.digest # "" /\ a.digest # got.digest
  BY ArtifactRead, Zenon DEF ArtifactRefused, HasDigest

\* A registration that is written is read as the contract's.
LEMMA ArtifactWrittenRead ==
    ASSUME NEW old \in Database, OfOneKind(old), NEW new \in Database, OfOneKind(new),
           NEW k \in ArtifactKey, NEW a \in Artifact,
           ArtifactWritten(old.artifacts, new.artifacts, k, a)
    PROVE  ArtifactsOf(new) = Contract!PutArtifact(ArtifactsOf(old), k, a)
  <1> DEFINE key == KeyString[k]
             was == ArtifactsOf(old)[k]
  <1>1. key \in ArtifactRows /\ old.artifacts \in [ArtifactRows -> StoredArtifact \cup {None}]
    BY KeysOfRuns, Fields
  <1>2. /\ new.artifacts[key] = ArtifactStored(old.artifacts[key], k, a)
        /\ \A x \in ArtifactRows : x # key => new.artifacts[x] = old.artifacts[x]
    BY <1>1 DEF ArtifactWritten
  <1>3. ASSUME NEW k2 \in ArtifactKey, k2 # k
        PROVE  ArtifactsOf(new)[k2] = ArtifactsOf(old)[k2]
    <2>1. KeyString[k2] \in ArtifactRows /\ KeyString[k2] # key
      BY <1>3, KeysOfRuns
    <2>2. new.artifacts[KeyString[k2]] = old.artifacts[KeyString[k2]]
      BY <1>2, <2>1
    <2> QED
      BY <2>2, ArtifactRead
  <1>4. HasDigest(old.artifacts[key]) <=> was # None /\ was.digest # ""
    BY ArtifactRead, Zenon DEF HasDigest
  <1>5. CASE HasDigest(old.artifacts[key])
    <2>1. new.artifacts[key] = old.artifacts[key]
      BY <1>2, <1>5 DEF ArtifactStored
    <2>2. ArtifactsOf(new)[k] = ArtifactsOf(old)[k]
      BY <2>1, ArtifactRead
    <2>3. ArtifactsOf(new) = ArtifactsOf(old)
      BY <1>3, <2>2, TablesAre
    <2> QED
      BY <1>4, <1>5, <2>3, ZenonT(30) DEF Contract!PutArtifact
  <1>6. CASE ~HasDigest(old.artifacts[key])
    <2> DEFINE run == IF old.artifacts[key] = None THEN k.run ELSE old.artifacts[key].run_id
               put == [run_id |-> run, artifact_id |-> key, art |-> a]
    <2>1. new.artifacts[key] = put
      BY <1>2, <1>6 DEF ArtifactStored
    <2>2. put.art = a /\ put # None
      <3>1. run \in Runs \cup {<<>>}
        BY <1>1, KeysOfRuns DEF StoredArtifact
      <3> HIDE DEF run
      <3>2. put \in StoredArtifact
        BY <1>1, <3>1 DEF StoredArtifact
      <3> QED
        BY <3>2, SQLiteStoreAssumption
    <2> HIDE DEF put
    <2>3. ArtifactsOf(new)[k] = a
      BY <2>1, <2>2, ArtifactRead
    <2>4. ArtifactsOf(new) = [ArtifactsOf(old) EXCEPT ![k] = a]
      BY <1>3, <2>3, TablesAre
    <2> QED
      BY <1>4, <1>6, <2>4, ZenonT(30) DEF Contract!PutArtifact
  <1> QED
    BY <1>5, <1>6

\* GetNodeTerminal returns the row under the attempt's key, which is never a legacy one.
LEMMA TerminalRead ==
    ASSUME NEW db \in Database, OfOneKind(db), NEW n \in NodeAttemptKey
    PROVE  LET row == db.terminals[AttemptString[n]]
           IN  /\ row = None => TerminalsOf(db)[n] = None
               /\ row # None => /\ TerminalsOf(db)[n] = row.state
                                /\ TerminalsOf(db)[n] # None
  <1> DEFINE row == db.terminals[AttemptString[n]]
  <1>1. AttemptString[n] \in TerminalRows /\ AttemptString[n] \notin LegacyAttemptKeys
    BY AttemptsOfRuns
  <1>2. DOMAIN db.terminals = TerminalRows /\ row \in StoredTerminal \cup {None}
    BY <1>1, Fields
  <1>3. ~Legacy(row)
    BY <1>1, AttemptsOfRuns DEF OfOneKind, Legacy
  <1>4. row # None => row.state # None
    BY <1>2, NoneAssumption DEF StoredTerminal
  <1>5. LookupLive(db.terminals, AttemptString[n]) = row
    BY <1>1, <1>2, <1>3 DEF LookupLive
  <1> QED
    BY <1>4, <1>5 DEF TerminalsOf

\* A terminal state that is written is read as the contract's: the first one stands.
LEMMA TerminalWrittenRead ==
    ASSUME NEW old \in Database, OfOneKind(old), NEW new \in Database, OfOneKind(new),
           NEW n \in NodeAttemptKey, NEW s \in TerminalState,
           TerminalWritten(old.terminals, new.terminals, n, s)
    PROVE  TerminalsOf(new) = Contract!RecordNodeTerminal(TerminalsOf(old), n, s)
  <1> DEFINE key == AttemptString[n]
  <1>1. key \in TerminalRows /\ old.terminals \in [TerminalRows -> StoredTerminal \cup {None}]
    BY AttemptsOfRuns, Fields
  <1>2. /\ new.terminals[key] = TerminalStored(old.terminals[key], n, s)
        /\ \A x \in TerminalRows : x # key => new.terminals[x] = old.terminals[x]
    BY <1>1 DEF TerminalWritten
  <1>3. ASSUME NEW n2 \in NodeAttemptKey, n2 # n
        PROVE  TerminalsOf(new)[n2] = TerminalsOf(old)[n2]
    <2>1. AttemptString[n2] \in TerminalRows /\ AttemptString[n2] # key
      BY <1>3, AttemptsOfRuns
    <2>2. new.terminals[AttemptString[n2]] = old.terminals[AttemptString[n2]]
      BY <1>2, <2>1
    <2> QED
      BY <2>2, TerminalRead
  <1>4. old.terminals[key] = None <=> TerminalsOf(old)[n] = None
    BY TerminalRead
  <1>5. CASE old.terminals[key] # None
    <2>1. TerminalsOf(new)[n] = TerminalsOf(old)[n]
      BY <1>2, <1>5, TerminalRead DEF TerminalStored
    <2>2. TerminalsOf(new) = TerminalsOf(old)
      BY <1>3, <2>1, TablesAre
    <2> QED
      BY <1>4, <1>5, <2>2 DEF Contract!RecordNodeTerminal
  <1>6. CASE old.terminals[key] = None
    <2> DEFINE put == [run_id |-> n.run, state |-> s]
    <2>1. new.terminals[key] = put
      BY <1>2, <1>6 DEF TerminalStored
    <2>2. put.state = s /\ put \in StoredTerminal
      BY AttemptsOfRuns DEF StoredTerminal
    <2>3. put # None
      BY <2>2, SQLiteStoreAssumption
    <2> HIDE DEF put
    <2>4. TerminalsOf(new)[n] = s
      BY <2>1, <2>2, <2>3, TerminalRead
    <2>5. TerminalsOf(new) = [TerminalsOf(old) EXCEPT ![n] = s]
      BY <1>3, <2>4, TablesAre
    <2> QED
      BY <1>4, <1>6, <2>5 DEF Contract!RecordNodeTerminal
  <1> QED
    BY <1>5, <1>6

\* A refused report is one the contract refuses.
LEMMA TerminalRefusedRead ==
    ASSUME NEW db \in Database, OfOneKind(db), NEW n \in NodeAttemptKey, NEW s \in TerminalState
    PROVE  TerminalRefused(db.terminals[AttemptString[n]], s) <=> TerminalsOf(db)[n] \notin {None, s}
  BY TerminalRead DEF TerminalRefused

\* The owner of an ID is the identity whose key it is.
LEMMA OwnerIs ==
    ASSUME NEW k \in ArtifactKey, NEW x
    PROVE  OwnerOf(x) = k <=> x = KeyString[k]
  <1>1. CASE \E k2 \in ArtifactKey : KeyString[k2] = x
    <2>1. OwnerOf(x) \in ArtifactKey /\ KeyString[OwnerOf(x)] = x
      BY <1>1 DEF OwnerOf
    <2> QED
      BY <2>1, KeysOfRuns
  <1>2. CASE ~\E k2 \in ArtifactKey : KeyString[k2] = x
    BY <1>2, SQLiteContractAssumption DEF OwnerOf
  <1> QED
    BY <1>1, <1>2

\* A source row is read field by field.
LEMMA SourceRead ==
    ASSUME NEW row \in StoredSource
    PROVE  /\ row # None
           /\ AsSource(row) = [owner |-> OwnerOf(row.artifact_id), backend |-> row.backend,
                               digest |-> row.digest, state |-> row.state, loc |-> row.loc]
           /\ AsSource(row) # None
           /\ AsSource(row) \in Contract!SourceRows
  <1> DEFINE read == [owner |-> OwnerOf(row.artifact_id), backend |-> row.backend,
                      digest |-> row.digest, state |-> row.state, loc |-> row.loc]
  <1>1. row # None
    BY SQLiteStoreAssumption
  <1>2. AsSource(row) = read
    BY <1>1 DEF AsSource
  <1>3. OwnerOf(row.artifact_id) \in ArtifactKey \cup {None}
    BY DEF OwnerOf
  <1>4. read \in Contract!SourceRows
    BY <1>3, ZenonT(30)
    DEF Contract!SourceRows, StoredSource, Contract!ArtifactKey, ArtifactKey, Contract!BackendID,
       BackendID, Contract!DigestValue, DigestValue, Contract!SourceState, SourceState,
       Contract!Location, Location
  <1>5. read # None
    BY <1>4, SQLiteContractAssumption
  <1> QED
    BY <1>1, <1>2, <1>4, <1>5

\* A source that was put is read as it was given.
LEMMA SourcePutRead ==
    ASSUME NEW s \in Source
    PROVE  SourceRow(s) \in StoredSource /\ AsSource(SourceRow(s)) = s
  <1>1. s.owner \in ArtifactKey /\ KeyString[s.owner] \in ArtifactRows
    BY KeysOfRuns DEF Source
  <1>2. SourceRow(s) \in StoredSource
    BY <1>1 DEF SourceRow, StoredSource, Source
  <1>3. OwnerOf(KeyString[s.owner]) = s.owner
    BY <1>1, OwnerIs
  <1>4. AsSource(SourceRow(s)) = [owner |-> s.owner, backend |-> s.backend, digest |-> s.digest,
                                  state |-> s.state, loc |-> s.loc]
    BY <1>2, <1>3, SourceRead DEF SourceRow
  <1> QED
    BY <1>2, <1>4 DEF Source

\* Setting two fields of a source.
LEMMA SourceFields ==
    ASSUME NEW r \in Contract!SourceRows, NEW st \in SourceState, NEW l \in Location
    PROVE  [r EXCEPT !.state = st, !.loc = l]
              = [owner |-> r.owner, backend |-> r.backend, digest |-> r.digest, state |-> st, loc |-> l]
  <1> DEFINE new == [r EXCEPT !.state = st, !.loc = l]
  <1>1. new \in Contract!SourceRows
    BY Zenon DEF Contract!SourceRows, Contract!SourceState, SourceState, Contract!Location, Location
  <1>2. /\ new.owner = r.owner /\ new.backend = r.backend /\ new.digest = r.digest
        /\ new.state = st /\ new.loc = l
    BY DEF Contract!SourceRows
  <1> HIDE DEF new
  <1>3. new = [owner |-> new.owner, backend |-> new.backend, digest |-> new.digest,
               state |-> new.state, loc |-> new.loc]
    BY <1>1 DEF Contract!SourceRows
  <1> QED
    BY <1>2, <1>3 DEF new

\* A source row that is updated is read with the new state and location.
LEMMA SourceUpdateRead ==
    ASSUME NEW row \in StoredSource, NEW s \in Source
    PROVE  AsSource([row EXCEPT !.state = s.state, !.loc = s.loc])
              = [AsSource(row) EXCEPT !.state = s.state, !.loc = s.loc]
  <1> DEFINE new == [row EXCEPT !.state = s.state, !.loc = s.loc]
  <1>1. new \in StoredSource
    BY Zenon DEF StoredSource, Source
  <1>2. /\ new.artifact_id = row.artifact_id /\ new.backend = row.backend /\ new.digest = row.digest
        /\ new.state = s.state /\ new.loc = s.loc
    BY DEF StoredSource
  <1> HIDE DEF new
  <1>3. AsSource(new) = [owner |-> OwnerOf(row.artifact_id), backend |-> row.backend,
                         digest |-> row.digest, state |-> s.state, loc |-> s.loc]
    BY <1>1, <1>2, SourceRead
  <1>4. AsSource(row) = [owner |-> OwnerOf(row.artifact_id), backend |-> row.backend,
                         digest |-> row.digest, state |-> row.state, loc |-> row.loc]
    BY SourceRead
  <1>5. [AsSource(row) EXCEPT !.state = s.state, !.loc = s.loc]
           = [owner |-> OwnerOf(row.artifact_id), backend |-> row.backend,
              digest |-> row.digest, state |-> s.state, loc |-> s.loc]
    <2>1. AsSource(row) \in Contract!SourceRows /\ s.state \in SourceState /\ s.loc \in Location
      BY SourceRead DEF Source
    <2> DEFINE r == AsSource(row)
    <2>2. /\ r.owner = OwnerOf(row.artifact_id) /\ r.backend = row.backend
          /\ r.digest = row.digest
      BY <1>4
    <2>3. r \in Contract!SourceRows
      BY <2>1, SMTT(20)
    <2> HIDE DEF r
    <2>4. [r EXCEPT !.state = s.state, !.loc = s.loc]
             = [owner |-> r.owner, backend |-> r.backend, digest |-> r.digest,
                state |-> s.state, loc |-> s.loc]
      BY <2>1, <2>3, SourceFields, ZenonT(30)
    <2> QED
      BY <2>2, <2>4 DEF r
  <1> QED
    BY <1>3, <1>5 DEF new

\* A refused source is one whose ID the contract knows as another artifact's.
LEMMA SourceRefusedRead ==
    ASSUME NEW row \in StoredSource \cup {None}, NEW s \in Source
    PROVE  /\ AsSource(row) = None <=> row = None
           /\ SourceRefused(row, s) <=> AsSource(row) # None /\ AsSource(row).owner # s.owner
  <1>1. CASE row = None
    BY <1>1 DEF AsSource, SourceRefused
  <1>2. CASE row \in StoredSource
    <2>1. s.owner \in ArtifactKey
      BY DEF Source
    <2> QED
      BY <1>2, <2>1, SourceRead, OwnerIs DEF SourceRefused
  <1> QED
    BY <1>1, <1>2

\* The table of a call's rows.
LEMMA RowsAre ==
    ASSUME NEW call \in SourceCalls
    PROVE  /\ DOMAIN Contract!Rows(call) = {call[i].id : i \in DOMAIN call}
           /\ \A i \in DOMAIN call : /\ call[i].id \in SourceIDs /\ call[i].src \in Source
                                     /\ Contract!Rows(call)[call[i].id] = call[i].src
  <1>1. \A i \in DOMAIN call : call[i].id \in SourceIDs /\ call[i].src \in Source
    BY SourceCallRows
  <1>2. DOMAIN Contract!Rows(call) = {call[i].id : i \in DOMAIN call}
    BY DEF Contract!Rows
  <1>3. ASSUME NEW i \in DOMAIN call
        PROVE  Contract!Rows(call)[call[i].id] = call[i].src
    <2> DEFINE j == CHOOSE j \in DOMAIN call : call[j].id = call[i].id
    <2>1. j \in DOMAIN call /\ call[j].id = call[i].id
      BY Zenon
    <2>2. j = i
      BY <2>1, SQLiteStoreAssumption
    <2>3. Contract!Rows(call)[call[i].id] = call[j].src
      BY DEF Contract!Rows
    <2> QED
      BY <2>2, <2>3, Zenon
  <1> QED
    BY <1>1, <1>2, <1>3

\* Rows that are all written are read as the contract's call leaves them.
LEMMA SourcesWrittenRead ==
    ASSUME NEW old \in Database, NEW new \in Database, NEW call \in SourceCalls, NEW i \in Nat,
           i > Len(call), SourcesWritten(old.sources, new.sources, call, i)
    PROVE  LET rows == Contract!Rows(call)
           IN  /\ ~Contract!ErrSourceOwnershipConflict(SourcesOf(old), rows)
               /\ SourcesOf(new) = Contract!PutArtifactSources(SourcesOf(old), rows)
  <1> DEFINE rows == Contract!Rows(call)
             after(id) ==
                 IF id \notin DOMAIN rows THEN SourcesOf(old)[id]
                 ELSE IF SourcesOf(old)[id] = None THEN rows[id]
                 ELSE [SourcesOf(old)[id] EXCEPT !.state = rows[id].state, !.loc = rows[id].loc]
  <1>1. \A j \in DOMAIN call : j < i
    <2>1. call \in Seq([id : SourceIDs, src : Source])
      BY SQLiteStoreAssumption, Zenon
    <2>2. \A j \in DOMAIN call : j \in Nat /\ j <= Len(call)
      BY <2>1
    <2>3. Len(call) \in Nat
      BY <2>1
    <2> QED
      BY <2>2, <2>3
  <1>2. old.sources \in [SourceIDs -> StoredSource \cup {None}]
    BY Fields
  <1>3. \A id \in SourceIDs : /\ SourcesOf(old)[id] = AsSource(old.sources[id])
                              /\ SourcesOf(new)[id] = AsSource(new.sources[id])
    BY DEF SourcesOf
  <1>4. ASSUME NEW id \in DOMAIN rows
        PROVE  /\ id \in SourceIDs
               /\ ~(SourcesOf(old)[id] # None /\ SourcesOf(old)[id].owner # rows[id].owner)
               /\ SourcesOf(new)[id] = after(id)
    <2>1. PICK j \in DOMAIN call : id = call[j].id
      BY RowsAre, ZenonT(30)
    <2>2. id \in SourceIDs /\ rows[id] = call[j].src /\ call[j].src \in Source
      BY <2>1, RowsAre, Zenon
    <2>3. /\ ~SourceRefused(old.sources[id], rows[id])
          /\ new.sources[id] = SourceStored(old.sources[id], rows[id])
      BY <1>1, <2>1, <2>2 DEF SourcesWritten
    <2>4. old.sources[id] \in StoredSource \cup {None}
      BY <1>2, <2>2
    <2> HIDE DEF rows
    <2>5. ~(SourcesOf(old)[id] # None /\ SourcesOf(old)[id].owner # rows[id].owner)
      BY <1>3, <2>2, <2>3, <2>4, SourceRefusedRead
    <2>6. CASE old.sources[id] = None
      <3>1. SourcesOf(old)[id] = None /\ SourcesOf(new)[id] = AsSource(SourceRow(rows[id]))
        BY <1>3, <2>2, <2>3, <2>6, ZenonT(30) DEF SourceStored, AsSource
      <3> QED
        BY <2>2, <2>5, <3>1, SourcePutRead
    <2>7. CASE old.sources[id] \in StoredSource
      <3> DEFINE upd == [old.sources[id] EXCEPT !.state = rows[id].state, !.loc = rows[id].loc]
      <3>1. new.sources[id] = upd
        BY <2>3, <2>7, SourceRead, SMTT(20) DEF SourceStored
      <3>2. AsSource(upd) = [AsSource(old.sources[id]) EXCEPT !.state = rows[id].state, !.loc = rows[id].loc]
        BY <2>2, <2>7, SourceUpdateRead, ZenonT(30)
      <3>3. SourcesOf(old)[id] # None
        BY <1>3, <2>2, <2>7, SourceRead
      <3> HIDE DEF upd
      <3>4. SourcesOf(new)[id] = AsSource(upd) /\ SourcesOf(old)[id] = AsSource(old.sources[id])
        BY <1>3, <2>2, <3>1
      <3> QED
        BY <2>2, <2>5, <3>2, <3>3, <3>4
    <2> QED
      BY <2>4, <2>6, <2>7
  <1>5. ASSUME NEW id \in SourceIDs, id \notin DOMAIN rows
        PROVE  SourcesOf(new)[id] = after(id)
    <2>1. \A j \in DOMAIN call : call[j].id # id
      BY <1>5, RowsAre, Zenon
    <2>2. new.sources[id] = old.sources[id]
      BY <2>1 DEF SourcesWritten
    <2> QED
      BY <1>3, <1>5, <2>2
  <1>6. \A id \in SourceIDs : SourcesOf(new)[id] = after(id)
    BY <1>4, <1>5, Zenon
  <1> HIDE DEF after
  <1>7. SourcesOf(new) = [id \in SourceIDs |-> after(id)]
    BY <1>6, TablesAre
  <1>8. Contract!PutArtifactSources(SourcesOf(old), rows) = [id \in SourceIDs |-> after(id)]
    <2>1. DOMAIN SourcesOf(old) = SourceIDs
      BY DEF SourcesOf
    <2> QED
      BY <2>1 DEF after, Contract!PutArtifactSources, Contract!SQLitePutArtifactSources
  <1> QED
    BY <1>4, <1>7, <1>8, Zenon DEF Contract!ErrSourceOwnershipConflict

-----------------------------------------------------------------------------
\* A row that is refused is a conflict of the whole call.
LEMMA RefusedSource ==
    ASSUME NEW db \in Database, NEW call \in SourceCalls, NEW i \in DOMAIN call,
           SourceRefused(db.sources[call[i].id], call[i].src)
    PROVE  Contract!ErrSourceOwnershipConflict(SourcesOf(db), Contract!Rows(call))
  <1> DEFINE rows == Contract!Rows(call)
             id   == call[i].id
  <1>1. /\ id \in DOMAIN rows /\ id \in SourceIDs
        /\ rows[id] = call[i].src /\ call[i].src \in Source
    BY RowsAre, Zenon
  <1>2. db.sources[id] \in StoredSource \cup {None} /\ SourcesOf(db)[id] = AsSource(db.sources[id])
    BY <1>1, Fields DEF SourcesOf
  <1> HIDE DEF rows
  <1>3. SourcesOf(db)[id] # None /\ SourcesOf(db)[id].owner # rows[id].owner
    BY <1>1, <1>2, SourceRefusedRead
  <1> HIDE DEF id
  <1> QED
    BY <1>1, <1>3 DEF Contract!ErrSourceOwnershipConflict, rows

-----------------------------------------------------------------------------
(* The steps, as the contract's.                                            *)

\* The contract's tables are those of the file, before and after a step.
LEMMA TablesSeen ==
    /\ [k \in ArtifactKey |-> GetArtifact(k)] = ArtifactsOf(file)
    /\ [k \in ArtifactKey |-> GetArtifact(k)'] = ArtifactsOf(file')
    /\ [id \in SourceIDs |-> AsSource(file.sources[id])] = SourcesOf(file)
    /\ [id \in SourceIDs |-> AsSource(file'.sources[id])] = SourcesOf(file')
    /\ [n \in NodeAttemptKey |-> GetNodeTerminal(n)] = TerminalsOf(file)
    /\ [n \in NodeAttemptKey |-> GetNodeTerminal(n)'] = TerminalsOf(file')
    /\ [r \in Runs |-> GetRunLifecycle(r)] = [r \in Runs |-> file.lifecycles[r]]
    /\ [r \in Runs |-> GetRunLifecycle(r)'] = [r \in Runs |-> file'.lifecycles[r]]
  BY DEF GetArtifact, GetNodeTerminal, GetRunLifecycle, ArtifactsOf, SourcesOf, TerminalsOf

\* A step that leaves the rows alone leaves the contract's tables alone.
LEMMA SameRowsSeen ==
    ASSUME SameRows(file, file')
    PROVE  UNCHANGED Contract!tables
  <1>1. /\ ArtifactsOf(file') = ArtifactsOf(file) /\ SourcesOf(file') = SourcesOf(file)
        /\ TerminalsOf(file') = TerminalsOf(file)
        /\ [r \in Runs |-> file'.lifecycles[r]] = [r \in Runs |-> file.lifecycles[r]]
    BY DEF SameRows, ArtifactsOf, SourcesOf, TerminalsOf
  <1> QED
    BY <1>1, TablesSeen DEF Contract!tables

\* A step of one process changes the pending call and the result of that client only.
LEMMA StepSeen ==
    ASSUME proc \in [Processes -> Process], NEW p \in Processes, ProcStep(p)
    PROVE  /\ [q \in Processes |-> proc[q].call][p] = proc[p].call
           /\ [q \in Processes |-> proc'[q].call]
                 = [[q \in Processes |-> proc[q].call] EXCEPT ![p] = proc'[p].call]
           /\ [q \in Processes |-> proc'[q].result]
                 = [[q \in Processes |-> proc[q].result] EXCEPT ![p] = proc'[p].result]
  BY Zenon DEF ProcStep

\* A quiet step is a stutter of the contract.
LEMMA QuietSeen ==
    ASSUME Quiet
    PROVE  UNCHANGED Contract!contractVars
  <1>1. UNCHANGED Contract!tables
    BY SameRowsSeen DEF Quiet
  <1>2. /\ [q \in Processes |-> proc'[q].call] = [q \in Processes |-> proc[q].call]
        /\ [q \in Processes |-> proc'[q].result] = [q \in Processes |-> proc[q].result]
    BY DEF Quiet
  <1> QED
    BY <1>1, <1>2 DEF Contract!contractVars, Contract!tables

\* A call that ends by an error, a timeout or a crash is the contract's CallWithoutEffect.
LEMMA NoEffectSeen ==
    ASSUME DatabaseInv, NEW p \in Processes, NEW r \in {"none", "failed"}, Told(p, r)
    PROVE  Contract!CallWithoutEffect(p)
  <1>1. /\ proc \in [Processes -> Process] /\ ProcStep(p)
        /\ proc'[p].call = None /\ proc'[p].result = r
    BY DEF DatabaseInv, Told
  <1>2. UNCHANGED Contract!tables
    BY SameRowsSeen DEF Told, SameRows
  <1> QED
    BY <1>1, <1>2, StepSeen, Zenon DEF Contract!CallWithoutEffect

\* A call that is made is the contract's MakeCall.
LEMMA MadeSeen ==
    ASSUME DatabaseInv, NEW p \in Processes, NEW c \in StoreCall, Made(p, c)
    PROVE  c \in Contract!Call /\ Contract!MakeCall(p, c)
  <1>1. /\ proc \in [Processes -> Process] /\ ProcStep(p) /\ proc[p].call = None
        /\ proc'[p].call = c /\ proc'[p].result = "none"
    BY DEF DatabaseInv, Made
  <1>2. UNCHANGED Contract!tables
    BY SameRowsSeen DEF Made, SameRows
  <1>3. Contract!MakeCall(p, c)
    BY <1>1, <1>2, StepSeen, Zenon DEF Contract!MakeCall
  <1>4. c \in Contract!Call
    BY SQLiteStoreAssumption, Zenon DEF StoreCall, Contract!Call, Contract!ArtifactKey, ArtifactKey,
       Contract!NodeAttemptKey, NodeAttemptKey, Contract!TerminalState, TerminalState
  <1> QED
    BY <1>3, <1>4

\* A call ends, and its caller is told r.
Replied(p, r) ==
    LET pending == [q \in Processes |-> proc[q].call]
        result  == [q \in Processes |-> proc[q].result]
    IN  /\ pending[p] = proc[p].call /\ pending[p] # None
        /\ pending' = [pending EXCEPT ![p] = None]
        /\ result' = [result EXCEPT ![p] = r]

\* A process that is told r is a client that is answered r.
LEMMA ReplySeen ==
    ASSUME proc \in [Processes -> Process], NEW p \in Processes, proc[p].call \in StoreCall,
           ProcStep(p), proc'[p].call = None, NEW r, proc'[p].result = r
    PROVE  Replied(p, r)
  <1>1. proc[p].call # None
    BY SQLiteStoreAssumption
  <1> QED
    BY <1>1, StepSeen, Zenon DEF Replied

\* The commit of PutArtifact is the contract's call.
LEMMA PutArtifactSeen ==
    ASSUME DatabaseInv, NEW p \in Processes, proc[p].call.op = "putArtifact", Took(p)
    PROVE  Contract!CallPutArtifact(p)
  <1> DEFINE c   == proc[p].call
             k   == c.key
             a   == c.art
             old == file
             new == file'
  <1>1. /\ proc \in [Processes -> Process] /\ c \in StoreCall /\ ProcStep(p)
        /\ proc'[p].call = None /\ proc'[p].result = "ok"
        /\ old \in Database /\ OfOneKind(old) /\ new \in Database /\ OfOneKind(new)
        /\ proc[p].next \in Nat /\ proc[p].next > 1 /\ Shows(old, new, c, proc[p].next)
    BY DEF DatabaseInv, Took, StatementsOf
  <1>2. k \in ArtifactKey /\ a \in Artifact
    BY <1>1, CallFields, SQLiteStoreAssumption, SMTT(20)
  <1>3. /\ ArtifactWritten(old.artifacts, new.artifacts, k, a)
        /\ new.sources = old.sources /\ new.terminals = old.terminals
        /\ new.lifecycles = old.lifecycles
    BY <1>1 DEF Shows
  <1>4. SourcesOf(new) = SourcesOf(old) /\ TerminalsOf(new) = TerminalsOf(old)
    BY <1>3, SMTT(20) DEF SourcesOf, TerminalsOf
  <1>5. ~Contract!DigestConflict(ArtifactsOf(old)[k], a)
    BY <1>1, <1>2, <1>3, ArtifactRefusedRead, ZenonT(30) DEF ArtifactWritten, Contract!DigestConflict
  <1>6. ArtifactsOf(new) = Contract!PutArtifact(ArtifactsOf(old), k, a)
    <2>1. /\ old \in Database /\ OfOneKind(old) /\ new \in Database /\ OfOneKind(new)
          /\ k \in ArtifactKey /\ a \in Artifact
          /\ ArtifactWritten(old.artifacts, new.artifacts, k, a)
      BY <1>1, <1>2, <1>3
    <2> HIDE DEF k, a, old, new
    <2> QED
      BY ONLY <2>1, ArtifactWrittenRead
  <1>7. [r \in Runs |-> new.lifecycles[r]] = [r \in Runs |-> old.lifecycles[r]]
    BY <1>3
  <1>8. Replied(p, "ok")
    BY <1>1, ReplySeen
  <1> QED
    BY <1>4, <1>5, <1>6, <1>7, <1>8, TablesSeen, ZenonT(30)
    DEF Replied, Contract!CallPutArtifact, Contract!Reply

\* A refused PutArtifact is the contract's digest conflict.
LEMMA PutArtifactRefusalSeen ==
    ASSUME DatabaseInv, NEW p \in Processes, proc[p].call.op = "putArtifact", Told(p, "refused"),
           proc[p].call \in StoreCall, file \in Database, OfOneKind(file),
           ArtifactRefused(file.artifacts[KeyString[proc[p].call.key]], proc[p].call.art)
    PROVE  Contract!CallPutArtifact(p)
  <1> DEFINE c == proc[p].call
  <1>1. /\ proc \in [Processes -> Process] /\ ProcStep(p) /\ file' = file
        /\ proc'[p].call = None /\ proc'[p].result = "refused"
    BY DEF DatabaseInv, Told
  <1>2. c.key \in ArtifactKey /\ c.art \in Artifact
    BY CallFields, SQLiteStoreAssumption, SMTT(20)
  <1>3. Contract!DigestConflict(ArtifactsOf(file)[c.key], c.art)
    BY <1>2, ArtifactRefusedRead, ZenonT(30) DEF Contract!DigestConflict
  <1>4. Replied(p, "refused")
    BY <1>1, ReplySeen
  <1>5. LET artifacts == [k \in ArtifactKey |-> GetArtifact(k)]
            pending   == [q \in Processes |-> proc[q].call]
        IN  Contract!DigestConflict(artifacts[pending[p].key], pending[p].art)
    BY <1>3, <1>4, TablesSeen, Zenon DEF Replied
  <1>6. UNCHANGED Contract!tables
    BY <1>1, SameRowsSeen DEF SameRows
  <1> QED
    BY <1>4, <1>5, <1>6, ZenonT(30)
    DEF Replied, Contract!tables, Contract!CallPutArtifact, Contract!Reply

\* The commit of PutArtifactSources is the contract's call, all rows at once.
LEMMA PutSourcesSeen ==
    ASSUME DatabaseInv, NEW p \in Processes, proc[p].call.op = "putSources", Took(p)
    PROVE  Contract!CallPutArtifactSources(p)
  <1> DEFINE c    == proc[p].call
             call == c.rows
             next == proc[p].next
             old  == file
             new  == file'
  <1>1. /\ proc \in [Processes -> Process] /\ c \in StoreCall /\ ProcStep(p)
        /\ proc'[p].call = None /\ proc'[p].result = "ok"
        /\ old \in Database /\ new \in Database
        /\ next \in Nat /\ next > Len(call) /\ Shows(old, new, c, next)
    BY DEF DatabaseInv, Took, StatementsOf
  <1>2. /\ call \in SourceCalls
        /\ SourcesWritten(old.sources, new.sources, call, next)
        /\ new.artifacts = old.artifacts /\ new.terminals = old.terminals
        /\ new.lifecycles = old.lifecycles
    BY <1>1, CallFields, SMTT(20) DEF Shows
  <1>3. /\ ArtifactsOf(new) = ArtifactsOf(old) /\ TerminalsOf(new) = TerminalsOf(old)
        /\ [r \in Runs |-> new.lifecycles[r]] = [r \in Runs |-> old.lifecycles[r]]
    BY <1>2 DEF ArtifactsOf, TerminalsOf
  <1>4. /\ ~Contract!ErrSourceOwnershipConflict(SourcesOf(old), Contract!Rows(call))
        /\ SourcesOf(new) = Contract!PutArtifactSources(SourcesOf(old), Contract!Rows(call))
    <2>1. /\ old \in Database /\ new \in Database /\ call \in SourceCalls
          /\ next \in Nat /\ next > Len(call)
          /\ SourcesWritten(old.sources, new.sources, call, next)
      BY <1>1, <1>2
    <2> HIDE DEF call, next, old, new
    <2> QED
      BY ONLY <2>1, SourcesWrittenRead
  <1>5. Replied(p, "ok")
    BY <1>1, ReplySeen
  <1> QED
    BY <1>3, <1>4, <1>5, TablesSeen, ZenonT(30)
    DEF Replied, Contract!CallPutArtifactSources, Contract!Reply

\* A refused row is the contract's ownership conflict of the whole call.
LEMMA PutSourcesRefusalSeen ==
    ASSUME DatabaseInv, NEW p \in Processes, proc[p].call.op = "putSources", Told(p, "refused"),
           proc[p].call \in StoreCall,
           Contract!ErrSourceOwnershipConflict(SourcesOf(file), Contract!Rows(proc[p].call.rows))
    PROVE  Contract!CallPutArtifactSources(p)
  <1>1. /\ proc \in [Processes -> Process] /\ ProcStep(p) /\ file' = file
        /\ proc'[p].call = None /\ proc'[p].result = "refused"
    BY DEF DatabaseInv, Told
  <1>2. Replied(p, "refused")
    BY <1>1, ReplySeen
  <1>3. LET sources == [x \in SourceIDs |-> AsSource(file.sources[x])]
            pending == [q \in Processes |-> proc[q].call]
        IN  Contract!ErrSourceOwnershipConflict(sources, Contract!Rows(pending[p].rows))
    BY <1>2, TablesSeen, Zenon DEF Replied
  <1>4. UNCHANGED Contract!tables
    BY <1>1, SameRowsSeen DEF SameRows
  <1> QED
    BY <1>2, <1>3, <1>4, ZenonT(30)
    DEF Replied, Contract!tables, Contract!CallPutArtifactSources, Contract!Reply

\* The commit of RecordNodeTerminal is the contract's call.
LEMMA RecordTerminalSeen ==
    ASSUME DatabaseInv, NEW p \in Processes, proc[p].call.op = "recordTerminal", Took(p)
    PROVE  Contract!CallRecordNodeTerminal(p)
  <1> DEFINE c   == proc[p].call
             n   == c.attempt
             s   == c.state
             old == file
             new == file'
  <1>1. /\ proc \in [Processes -> Process] /\ c \in StoreCall /\ ProcStep(p)
        /\ proc'[p].call = None /\ proc'[p].result = "ok"
        /\ old \in Database /\ OfOneKind(old) /\ new \in Database /\ OfOneKind(new)
        /\ proc[p].next \in Nat /\ proc[p].next > 1 /\ Shows(old, new, c, proc[p].next)
    BY DEF DatabaseInv, Took, StatementsOf
  <1>2. n \in NodeAttemptKey /\ s \in TerminalState
    BY <1>1, CallFields, SQLiteStoreAssumption, SMTT(20)
  <1>3. /\ TerminalWritten(old.terminals, new.terminals, n, s)
        /\ new.artifacts = old.artifacts /\ new.sources = old.sources
        /\ new.lifecycles = old.lifecycles
    BY <1>1 DEF Shows
  <1>4. /\ ArtifactsOf(new) = ArtifactsOf(old) /\ SourcesOf(new) = SourcesOf(old)
        /\ [r \in Runs |-> new.lifecycles[r]] = [r \in Runs |-> old.lifecycles[r]]
    BY <1>3, SMTT(20) DEF ArtifactsOf, SourcesOf
  <1>5. TerminalsOf(old)[n] \in {None, s}
    <2>1. ~TerminalRefused(old.terminals[AttemptString[n]], s)
      BY <1>3, Zenon DEF TerminalWritten
    <2>2. old \in Database /\ OfOneKind(old) /\ n \in NodeAttemptKey /\ s \in TerminalState
      BY <1>1, <1>2, Zenon
    <2> HIDE DEF n, s, old
    <2> QED
      BY ONLY <2>1, <2>2, TerminalRefusedRead, Zenon
  <1>6. TerminalsOf(new) = Contract!RecordNodeTerminal(TerminalsOf(old), n, s)
    <2>1. /\ old \in Database /\ OfOneKind(old) /\ new \in Database /\ OfOneKind(new)
          /\ n \in NodeAttemptKey /\ s \in TerminalState
          /\ TerminalWritten(old.terminals, new.terminals, n, s)
      BY <1>1, <1>2, <1>3
    <2> HIDE DEF n, s, old, new
    <2> QED
      BY ONLY <2>1, TerminalWrittenRead
  <1>7. Replied(p, "ok")
    BY <1>1, ReplySeen
  <1> QED
    BY <1>4, <1>5, <1>6, <1>7, TablesSeen, ZenonT(30)
    DEF Replied, Contract!CallRecordNodeTerminal, Contract!Reply

\* A refused RecordNodeTerminal is the contract's conflict of terminal states.
LEMMA RecordTerminalRefusalSeen ==
    ASSUME DatabaseInv, NEW p \in Processes, proc[p].call.op = "recordTerminal", Told(p, "refused"),
           proc[p].call \in StoreCall, file \in Database, OfOneKind(file),
           TerminalRefused(file.terminals[AttemptString[proc[p].call.attempt]], proc[p].call.state)
    PROVE  Contract!CallRecordNodeTerminal(p)
  <1> DEFINE c == proc[p].call
  <1>1. /\ proc \in [Processes -> Process] /\ ProcStep(p) /\ file' = file
        /\ proc'[p].call = None /\ proc'[p].result = "refused"
    BY DEF DatabaseInv, Told
  <1>2. c.attempt \in NodeAttemptKey /\ c.state \in TerminalState
    BY CallFields, SQLiteStoreAssumption, SMTT(20)
  <1>3. TerminalsOf(file)[c.attempt] \notin {None, c.state}
    BY <1>2, TerminalRefusedRead, SMTT(20)
  <1>4. TerminalsOf(file) = Contract!RecordNodeTerminal(TerminalsOf(file), c.attempt, c.state)
    BY <1>3 DEF Contract!RecordNodeTerminal
  <1>5. Replied(p, "refused")
    BY <1>1, ReplySeen
  <1>6. LET terminals == [n \in NodeAttemptKey |-> GetNodeTerminal(n)]
            pending   == [q \in Processes |-> proc[q].call]
        IN  /\ terminals[pending[p].attempt] \notin {None, pending[p].state}
            /\ terminals = Contract!RecordNodeTerminal(terminals, pending[p].attempt, pending[p].state)
    BY <1>3, <1>4, <1>5, TablesSeen, Zenon DEF Replied
  <1>7. UNCHANGED Contract!tables
    BY <1>1, SameRowsSeen DEF SameRows
  <1> QED
    BY <1>5, <1>6, <1>7, ZenonT(30)
    DEF Replied, Contract!tables, Contract!CallRecordNodeTerminal, Contract!Reply

\* The one statement of UpsertRunLifecycle is the contract's call.
LEMMA UpsertSeen ==
    ASSUME DatabaseInv, CopyInv, NEW p \in Processes, UpsertRunLifecycle(p)
    PROVE  Contract!CallUpsertRunLifecycle(p)
  <1> DEFINE c == proc[p].call
  <1>1. /\ proc \in [Processes -> Process] /\ c \in StoreCall /\ c.op = "upsertLifecycle"
        /\ ProcStep(p) /\ proc'[p].call = None /\ proc'[p].result = "ok"
        /\ file \in Database /\ file' = [file EXCEPT !.lifecycles[c.run] = c.row]
    BY UpsertRunLifecycleCopy DEF DatabaseInv
  <1>2. /\ file'.artifacts = file.artifacts /\ file'.sources = file.sources
        /\ file'.terminals = file.terminals
        /\ file'.lifecycles = [file.lifecycles EXCEPT ![c.run] = c.row]
    BY <1>1, Fields DEF Database
  <1>3. /\ ArtifactsOf(file') = ArtifactsOf(file) /\ SourcesOf(file') = SourcesOf(file)
        /\ TerminalsOf(file') = TerminalsOf(file)
    BY <1>2 DEF ArtifactsOf, SourcesOf, TerminalsOf
  <1>4. DOMAIN file.lifecycles = Runs
    BY <1>1, Fields DEF Database
  <1>5. [r \in Runs |-> file'.lifecycles[r]]
           = [[r \in Runs |-> file.lifecycles[r]] EXCEPT ![c.run] = c.row]
    BY <1>2, <1>4, Zenon
  <1>6. Replied(p, "ok")
    BY <1>1, ReplySeen
  <1> QED
    BY <1>1, <1>3, <1>5, <1>6, TablesSeen, ZenonT(30)
    DEF Replied, Contract!CallUpsertRunLifecycle, Contract!Reply

-----------------------------------------------------------------------------
(* The refinement.                                                          *)

\* A commit is the contract's call of the same operation.
LEMMA CommitSeen ==
    ASSUME DatabaseInv, NEW p \in Processes, Took(p)
    PROVE  \/ Contract!CallPutArtifact(p)
           \/ Contract!CallPutArtifactSources(p)
           \/ Contract!CallRecordNodeTerminal(p)
  <1>1. proc[p].call.op \in {"putArtifact", "putSources", "recordTerminal"}
    BY DEF Took, StoreCall
  <1> QED
    BY <1>1, PutArtifactSeen, PutSourcesSeen, RecordTerminalSeen

\* A statement in a transaction has no effect, or is the contract's refusal.
LEMMA StatementSeen ==
    ASSUME DatabaseInv, CopyInv, NEW p \in Processes,
           ExecPutArtifact(p) \/ ExecPutSource(p) \/ ExecRecordNodeTerminal(p)
    PROVE  /\ CopyInv'
           /\ \/ UNCHANGED Contract!contractVars
              \/ Contract!CallPutArtifact(p)
              \/ Contract!CallPutArtifactSources(p)
              \/ Contract!CallRecordNodeTerminal(p)
  <1>1. At(p, "tx")
    BY Zenon DEF ExecPutArtifact, ExecPutSource, ExecRecordNodeTerminal, Calling
  <1>2. proc[p].call \in StoreCall /\ file \in Database /\ OfOneKind(file)
    BY <1>1, InCallCopy, SMTT(20)
  <1>3. CASE ExecPutArtifact(p)
    BY <1>2, <1>3, ExecPutArtifactCopy, QuietSeen, PutArtifactRefusalSeen
  <1>4. CASE ExecPutSource(p)
    <2>1. CASE Quiet
      BY <1>4, <2>1, ExecPutSourceCopy, QuietSeen
    <2>2. CASE ~Quiet
      <3>1. PICK i \in DOMAIN proc[p].call.rows :
               SourceRefused(file.sources[proc[p].call.rows[i].id], proc[p].call.rows[i].src)
        BY <1>4, <2>2, ExecPutSourceCopy, ZenonT(30)
      <3>2. CopyInv' /\ Told(p, "refused") /\ proc[p].call.op = "putSources"
        BY <1>4, <2>2, ExecPutSourceCopy, SMTT(20)
      <3>3. proc[p].call.rows \in SourceCalls
        BY <1>2, <3>2, CallFields, SMTT(20)
      <3>4. Contract!ErrSourceOwnershipConflict(SourcesOf(file), Contract!Rows(proc[p].call.rows))
        BY <1>2, <3>1, <3>3, RefusedSource, ZenonT(30)
      <3> QED
        BY <1>2, <3>2, <3>4, PutSourcesRefusalSeen
    <2> QED
      BY <2>1, <2>2, SMTT(20)
  <1>5. CASE ExecRecordNodeTerminal(p)
    BY <1>2, <1>5, ExecRecordNodeTerminalCopy, QuietSeen, RecordTerminalRefusalSeen, ZenonT(30)
  <1> QED
    BY <1>3, <1>4, <1>5, SMTT(20)

\* A step of one process keeps CopyInv and is a step of the contract, or none.
LEMMA ProcessStepSeen ==
    ASSUME DatabaseInv, CopyInv, NEW p \in Processes,
           \/ OpenStore(p)
           \/ OpenStep(p)
           \/ \E c \in StoreCall : BeginCall(p, c) \/ CallUpsert(p, c)
           \/ CallStep(p)
           \/ AbortCall(p)
           \/ CallTimeout(p)
           \/ ProcessEnds(p)
    PROVE  /\ CopyInv'
           /\ \/ UNCHANGED Contract!contractVars
              \/ \E call \in Contract!Call : Contract!MakeCall(p, call)
              \/ Contract!CallPutArtifact(p)
              \/ Contract!CallPutArtifactSources(p)
              \/ Contract!CallRecordNodeTerminal(p)
              \/ Contract!CallUpsertRunLifecycle(p)
              \/ Contract!CallWithoutEffect(p)
  <1>1. CASE OpenStore(p) \/ OpenStep(p) \/ ProcessEnds(p)
    BY <1>1, OpenStoreCopy, OpenStepCopy, ProcessEndsCopy, QuietSeen, NoEffectSeen
  <1>2. ASSUME NEW c \in StoreCall, BeginCall(p, c) \/ CallUpsert(p, c)
        PROVE  CopyInv' /\ \E call \in Contract!Call : Contract!MakeCall(p, call)
    BY <1>2, BeginCallCopy, CallUpsertCopy, MadeSeen
  <1>3. CASE ExecPutArtifact(p) \/ ExecPutSource(p) \/ ExecRecordNodeTerminal(p)
    BY <1>3, StatementSeen
  <1>4. CASE CommitCall(p)
    BY <1>4, CommitCallCopy, CommitSeen
  <1>5. CASE UpsertRunLifecycle(p)
    BY <1>5, UpsertRunLifecycleCopy, UpsertSeen
  <1>6. CASE AbortCall(p) \/ CallTimeout(p)
    BY <1>6, AbortCallCopy, CallTimeoutCopy, NoEffectSeen
  <1> QED
    BY <1>1, <1>2, <1>3, <1>4, <1>5, <1>6 DEF CallStep

\* Every step keeps CopyInv and is a step of the contract or a stutter.
LEMMA ContractStep ==
    DatabaseInv /\ CopyInv /\ [DatabaseNext]_databaseVars
        => CopyInv' /\ [Contract!ContractNext]_(Contract!contractVars)
  <1> SUFFICES ASSUME DatabaseInv, CopyInv, [DatabaseNext]_databaseVars
               PROVE  CopyInv' /\ [Contract!ContractNext]_(Contract!contractVars)
    OBVIOUS
  <1>1. CASE UNCHANGED databaseVars
    <2>1. UNCHANGED <<file, lock, work, proc>>
      BY <1>1 DEF databaseVars
    <2>2. CopyInv'
      BY <2>1 DEF CopyInv
    <2>3. Quiet
      BY <2>1 DEF Quiet, SameRows
    <2> QED
      BY <2>2, <2>3, QuietSeen
  <1>2. CASE DatabaseNext
    BY <1>2, ProcessStepSeen DEF DatabaseNext, Contract!ContractNext
  <1> QED
    BY <1>1, <1>2

\* Any file the program can open holds tables the contract may start with.
LEMMA ContractInitSeen == DatabaseInit => Contract!ContractInit
  <1> SUFFICES ASSUME DatabaseInit PROVE Contract!ContractInit
    OBVIOUS
  <1>1. file \in Database /\ proc = [p \in Processes |-> Down]
    BY SQLiteStoreAssumption DEF DatabaseInit, MigrationInit
  <1>2. ArtifactsOf(file) \in [ArtifactKey -> Artifact \cup {None}]
    <2> SUFFICES ASSUME NEW k \in ArtifactKey PROVE ArtifactsOf(file)[k] \in Artifact \cup {None}
      BY TablesAre
    <2> DEFINE row == LookupLive(file.artifacts, KeyString[k])
    <2>1. row \in StoredArtifact \cup {None}
      BY <1>1, Fields DEF LookupLive
    <2>2. row \in StoredArtifact => row.art \in Artifact
      BY DEF StoredArtifact
    <2>3. ArtifactsOf(file)[k] = IF row = None THEN None ELSE row.art
      BY DEF ArtifactsOf
    <2> HIDE DEF row
    <2> QED
      BY <2>1, <2>2, <2>3
  <1>3. SourcesOf(file) \in [SourceIDs -> Contract!SourceRows \cup {None}]
    <2> SUFFICES ASSUME NEW id \in SourceIDs
                 PROVE  SourcesOf(file)[id] \in Contract!SourceRows \cup {None}
      BY TablesAre
    <2>1. file.sources[id] \in StoredSource \cup {None}
      BY <1>1, Fields
    <2>2. SourcesOf(file)[id] = AsSource(file.sources[id])
      BY DEF SourcesOf
    <2>3. CASE file.sources[id] = None
      BY <2>2, <2>3 DEF AsSource
    <2>4. CASE file.sources[id] \in StoredSource
      BY <2>2, <2>4, SourceRead
    <2> QED
      BY <2>1, <2>3, <2>4
  <1>4. TerminalsOf(file) \in [NodeAttemptKey -> TerminalState \cup {None}]
    <2> SUFFICES ASSUME NEW n \in NodeAttemptKey PROVE TerminalsOf(file)[n] \in TerminalState \cup {None}
      BY TablesAre
    <2> DEFINE row == LookupLive(file.terminals, AttemptString[n])
    <2>1. row \in StoredTerminal \cup {None}
      BY <1>1, Fields DEF LookupLive
    <2>2. row \in StoredTerminal => row.state \in TerminalState
      BY DEF StoredTerminal
    <2>3. TerminalsOf(file)[n] = IF row = None THEN None ELSE row.state
      BY DEF TerminalsOf
    <2> HIDE DEF row
    <2> QED
      BY <2>1, <2>2, <2>3
  <1>5. [r \in Runs |-> file.lifecycles[r]] \in [Runs -> LifecycleRows \cup {None}]
    BY <1>1, Fields DEF Database
  <1>6. /\ [p \in Processes |-> proc[p].call] = [p \in Processes |-> None]
        /\ [p \in Processes |-> proc[p].result] = [p \in Processes |-> "none"]
    BY <1>1 DEF Down
  <1>7. /\ Contract!ArtifactKey = ArtifactKey /\ Contract!NodeAttemptKey = NodeAttemptKey
        /\ Contract!TerminalState = TerminalState
    BY DEF Contract!ArtifactKey, ArtifactKey, Contract!NodeAttemptKey, NodeAttemptKey,
       Contract!TerminalState, TerminalState
  <1>8. Contract!Artifact = Artifact
    BY Zenon DEF Contract!Artifact, Artifact, Contract!DigestValue, DigestValue, Contract!Location, Location
  <1> QED
    BY <1>2, <1>3, <1>4, <1>5, <1>6, <1>7, <1>8, TablesSeen, ZenonT(30) DEF Contract!ContractInit

(***************************************************************************)
(* SQLiteStore implements the store contract (pkg/inventory's Store): every *)
(* call of PutArtifact, PutArtifactSources, RecordNodeTerminal and          *)
(* UpsertRunLifecycle that returns "ok" or a conflict is one atomic call on *)
(* the tables as the reads see them, and no crash, abort, lock timeout,     *)
(* open or migration of any process changes a row that a read returns, for  *)
(* every set of processes, IDs, rows and initial files.                     *)
(***************************************************************************)
THEOREM SQLiteImplementsContract == DatabaseSpec => ImplementsContract
  <1>1. DatabaseInit => DatabaseInv /\ CopyInv /\ Contract!ContractInit
    BY DatabaseInvInit, CopyInvInit, ContractInitSeen
  <1>2. DatabaseInv /\ CopyInv /\ [DatabaseNext]_databaseVars
           => DatabaseInv' /\ CopyInv' /\ [Contract!ContractNext]_(Contract!contractVars)
    BY DatabaseInvStep, ContractStep
  <1> QED
    BY <1>1, <1>2, PTL DEF DatabaseSpec, ImplementsContract, Contract!ContractSpec
=============================================================================
