---------------------------- MODULE SQLiteStore -----------------------------
(***************************************************************************)
(* The write calls of pkg/inventory/sqlite.go, statement by statement, over *)
(* a file that Migration opened, and what the reads return from it.  Rows   *)
(* are keyed by the joined strings of Ids and live beside legacy rows       *)
(* (written before RunIDs, with an empty run_id).                           *)
(***************************************************************************)
EXTENDS Migration

CONSTANTS
    Offers,            \* the artifacts producers register
    SourceCalls,       \* arguments of PutArtifactSources: a sequence of IDs and sources
    ReportedStates,    \* the terminal states producers report
    LifecycleRows      \* the rows UpsertRunLifecycle writes

databaseVars == <<file, lock, work, proc>>

\* The arguments of the calls that write.
StoreCall ==
    [op : {"putArtifact"}, key : ArtifactKey, art : Offers]
        \cup [op : {"putSources"}, rows : SourceCalls]
        \cup [op : {"recordTerminal"}, attempt : NodeAttemptKey, state : ReportedStates]
        \cup [op : {"upsertLifecycle"}, run : Runs, row : LifecycleRows]

StoredArtifact == [run_id : Runs \cup {<<>>}, artifact_id : ArtifactRows, art : Artifact]

StoredSource ==
    [artifact_id : ArtifactRows, backend : BackendID, digest : DigestValue,
     state : SourceState, loc : Location]

StoredTerminal == [run_id : Runs \cup {<<>>}, state : TerminalState]

SomeOf(rows) == {Cardinality(s) : s \in SUBSET rows}

Counts ==
    [artifacts : SomeOf(ArtifactRows), terminals : SomeOf(TerminalRows), lifecycles : SomeOf(SampleRunIDs)]

Database ==
    [tables : SUBSET Tables, columns : SUBSET Columns, version : Version,
     counts : Counts \cup {None}, sampleLifecycles : SUBSET SampleRunIDs,
     artifacts : [ArtifactRows -> StoredArtifact \cup {None}],
     sources : [SourceIDs -> StoredSource \cup {None}],
     terminals : [TerminalRows -> StoredTerminal \cup {None}],
     lifecycles : [Runs -> LifecycleRows \cup {None}]]

\* The sources of one call have different IDs: initialSourcesForArtifact drops the second of
\* two with one ID, and every other caller puts a single source.
ASSUME SQLiteStoreAssumption ==
    /\ InitialFiles \subseteq Database
    /\ Offers \subseteq Artifact
    /\ ReportedStates \subseteq TerminalState
    /\ SourceCalls \subseteq Seq([id : SourceIDs, src : Source])
    /\ \A rows \in SourceCalls : \A i, j \in DOMAIN rows : rows[i].id = rows[j].id => i = j
    /\ None \notin Processes \cup Database \cup StoreCall
    /\ None \notin StoredArtifact \cup StoredSource \cup StoredTerminal

-----------------------------------------------------------------------------
(* Reads, each one SELECT.                                                  *)

\* WHERE key = ? AND run_id <> ''
LookupLive(table, key) ==
    IF key \in DOMAIN table /\ ~Legacy(table[key]) THEN table[key] ELSE None

GetArtifact(k) ==
    LET row == LookupLive(file.artifacts, KeyString[k]) IN IF row = None THEN None ELSE row.art

GetNodeTerminal(n) ==
    LET row == LookupLive(file.terminals, AttemptString[n]) IN IF row = None THEN None ELSE row.state

\* Mutant: any artifact row with the source's artifact_id will do.
SourceOfAnyArtifact(id) ==
    \E key \in DOMAIN file.artifacts :
        /\ file.artifacts[key] # None
        /\ file.artifacts[key].artifact_id = file.sources[id].artifact_id

\* EXISTS (SELECT 1 FROM artifacts a WHERE a.artifact_id = ... AND a.run_id <> '')
liveSourceFilter(id) ==
    \E key \in DOMAIN file.artifacts :
        /\ file.artifacts[key] # None
        /\ file.artifacts[key].artifact_id = file.sources[id].artifact_id
        /\ file.artifacts[key].run_id # <<>>

GetArtifactSource(id) ==
    IF file.sources[id] # None /\ liveSourceFilter(id) THEN file.sources[id] ELSE None

ListArtifactSources(artifactID) ==
    {id \in SourceIDs : /\ file.sources[id] # None
                        /\ file.sources[id].artifact_id = artifactID
                        /\ liveSourceFilter(id)}

ListArtifactsByRun(run) ==
    {key \in DOMAIN file.artifacts :
        /\ file.artifacts[key] # None
        /\ file.artifacts[key].run_id = run
        /\ ~Legacy(file.artifacts[key])}

ListNodeTerminalsByRun(run) ==
    {key \in DOMAIN file.terminals :
        /\ file.terminals[key] # None
        /\ file.terminals[key].run_id = run
        /\ ~Legacy(file.terminals[key])}

\* The lifecycles of before RunIDs are in a table of their own.
GetRunLifecycle(run) == file.lifecycles[run]

-----------------------------------------------------------------------------
(* Calls in a transaction: begin, one step per statement, commit.           *)

EndCall(p, r) ==
    proc' = [proc EXCEPT ![p].pc = "serving", ![p].next = 0, ![p].call = None, ![p].result = r]

BeginCall(p, c) ==
    /\ At(p, "serving")
    /\ c.op # "upsertLifecycle"
    /\ Begin(p)
    /\ proc' = [proc EXCEPT ![p].pc = "tx", ![p].next = 1, ![p].call = c, ![p].result = "none"]

Calling(p, op) == At(p, "tx") /\ proc[p].call.op = op

NextStatement(p) == proc' = [proc EXCEPT ![p].next = @ + 1]

Refuse(p) == Rollback(p) /\ EndCall(p, "refused")

HasDigest(row) == row # None /\ row.art.digest # ""

\* SELECT digest; INSERT ... ON CONFLICT(key) DO UPDATE, which leaves run_id alone.
ExecPutArtifact(p) ==
    /\ Calling(p, "putArtifact")
    /\ proc[p].next = 1
    /\ LET a   == proc[p].call.art
           key == KeyString[proc[p].call.key]
           old == work.artifacts[key]
       IN  \/ /\ HasDigest(old) /\ old.art.digest # a.digest
              /\ Refuse(p)
           \/ /\ HasDigest(old) /\ old.art.digest = a.digest
              /\ NextStatement(p)
              /\ UNCHANGED <<file, lock, work>>
           \/ /\ ~HasDigest(old)
              /\ Exec(p, [work EXCEPT !.artifacts[key] =
                             [run_id |-> IF old = None THEN proc[p].call.key.run ELSE old.run_id,
                              artifact_id |-> key, art |-> a]])
              /\ NextStatement(p)

SourceRow(s) ==
    [artifact_id |-> KeyString[s.owner], backend |-> s.backend, digest |-> s.digest,
     state |-> s.state, loc |-> s.loc]

\* Mutant: a conflict skips the source and goes on.
ExecPutSourceSkipping(p) ==
    /\ Calling(p, "putSources")
    /\ proc[p].next <= Len(proc[p].call.rows)
    /\ LET q   == proc[p].call.rows[proc[p].next]
           old == work.sources[q.id]
       IN  /\ Exec(p, IF old = None THEN [work EXCEPT !.sources[q.id] = SourceRow(q.src)]
                      ELSE IF old.artifact_id # KeyString[q.src.owner] THEN work
                      ELSE [work EXCEPT !.sources[q.id].state = q.src.state,
                                        !.sources[q.id].loc = q.src.loc])
           /\ NextStatement(p)

\* INSERT ... ON CONFLICT(source_id) DO UPDATE ... WHERE the owner is the same.
ExecPutSource(p) ==
    /\ Calling(p, "putSources")
    /\ proc[p].next <= Len(proc[p].call.rows)
    /\ LET q   == proc[p].call.rows[proc[p].next]
           old == work.sources[q.id]
       IN  \/ /\ old = None
              /\ Exec(p, [work EXCEPT !.sources[q.id] = SourceRow(q.src)])
              /\ NextStatement(p)
           \/ /\ old # None /\ old.artifact_id = KeyString[q.src.owner]
              /\ Exec(p, [work EXCEPT !.sources[q.id].state = q.src.state,
                                      !.sources[q.id].loc = q.src.loc])
              /\ NextStatement(p)
           \/ /\ old # None /\ old.artifact_id # KeyString[q.src.owner]
              /\ Refuse(p)

ExecRecordNodeTerminal(p) ==
    /\ Calling(p, "recordTerminal")
    /\ proc[p].next = 1
    /\ LET n   == proc[p].call.attempt
           s   == proc[p].call.state
           old == work.terminals[AttemptString[n]]
       IN  \/ /\ old = None
              /\ Exec(p, [work EXCEPT !.terminals[AttemptString[n]] = [run_id |-> n.run, state |-> s]])
              /\ NextStatement(p)
           \/ /\ old # None /\ old.state = s
              /\ NextStatement(p)
              /\ UNCHANGED <<file, lock, work>>
           \/ /\ old # None /\ old.state # s
              /\ Refuse(p)

StatementsOf(c) == IF c.op = "putSources" THEN Len(c.rows) ELSE 1

CommitCall(p) ==
    /\ At(p, "tx")
    /\ proc[p].next > StatementsOf(proc[p].call)
    /\ Commit(p)
    /\ EndCall(p, "ok")

\* Mutant: an error return that leaves the transaction open.
AbortWithoutRollback(p) ==
    /\ At(p, "tx")
    /\ UNCHANGED <<file, lock, work>>
    /\ EndCall(p, "failed")

\* A statement fails, or the caller's context ends, before the commit.
AbortCall(p) ==
    /\ At(p, "tx")
    /\ Rollback(p)
    /\ EndCall(p, "failed")

\* UpsertRunLifecycle is one statement without a transaction.
CallUpsert(p, c) ==
    /\ At(p, "serving")
    /\ c.op = "upsertLifecycle"
    /\ proc' = [proc EXCEPT ![p].pc = "upsert", ![p].call = c, ![p].result = "none"]
    /\ UNCHANGED <<file, lock, work>>

\* The row is replaced whole.
UpsertRunLifecycle(p) ==
    /\ At(p, "upsert")
    /\ ExecAutocommit([file EXCEPT !.lifecycles[proc[p].call.run] = proc[p].call.row])
    /\ EndCall(p, "ok")

\* busy_timeout of BEGIN IMMEDIATE or of the statement.
CallTimeout(p) ==
    /\ proc[p].pc \in {"serving", "upsert"}
    /\ lock # None
    /\ UNCHANGED <<file, lock, work>>
    /\ EndCall(p, "failed")

CallStep(p) ==
    \/ ExecPutArtifact(p)
    \/ ExecPutSource(p)
    \/ ExecRecordNodeTerminal(p)
    \/ CommitCall(p)
    \/ UpsertRunLifecycle(p)

DatabaseNext ==
    \E p \in Processes :
        \/ OpenStore(p)
        \/ OpenStep(p)
        \/ \E c \in StoreCall : BeginCall(p, c) \/ CallUpsert(p, c)
        \/ CallStep(p)
        \/ AbortCall(p)
        \/ CallTimeout(p)
        \/ ProcessEnds(p)

DatabaseInit == MigrationInit

\* A process that opens the file, or is in a transaction, goes on: statements and lock
\* waits are bounded (busy_timeout), and nothing keeps the transaction open.
DatabaseFairness == \A p \in Processes : WF_databaseVars(OpenStep(p)) /\ WF_databaseVars(CallStep(p))

DatabaseSpec == DatabaseInit /\ [][DatabaseNext]_databaseVars /\ DatabaseFairness

-----------------------------------------------------------------------------
(* Properties.                                                              *)

\* The types of the file and of the processes; a transaction has a copy and an owner.
DatabaseTypeOK ==
    /\ file \in Database
    /\ \A p \in Processes :
          /\ proc[p].pc \in {"down", "serving", "tx", "upsert"} \cup Opening
          /\ proc[p].result \in {"none", "ok", "refused", "failed"}
          /\ IF proc[p].pc \in {"tx", "upsert"} THEN proc[p].call \in StoreCall ELSE proc[p].call = None
    /\ (work = None) <=> (lock = None)
    /\ \A p \in Processes :
          lock = p <=> proc[p].pc \in {"tx"} \cup (Opening \ {"begin", "alter"})

Serves(p) == proc[p].pc \in {"serving", "tx", "upsert"}

(***************************************************************************)
(* A process serves requests only on a file that has every table and column *)
(* its statements name, though the last four columns are added one by one   *)
(* after the migration committed and a process may have died between any    *)
(* two of them (sqliteMigrate).                                             *)
(***************************************************************************)
ServingSeesWholeSchema ==
    \A p \in Processes :
        Serves(p) => file.tables = Tables /\ file.columns = Columns

(***************************************************************************)
(* "Never a half-migrated store": a file with this binary's version has the *)
(* Run-keyed schema and the true number of its legacy rows on record, one   *)
(* without a version has no record of them at all (migrateRunIdentity).     *)
(***************************************************************************)
StampedMeansMigrated ==
    /\ file.version = "2" =>
          /\ file.tables = Tables
          /\ RunIDColumns \subseteq file.columns
          /\ file.counts = LegacyCounts(file)
    /\ file.version = "" => file.counts = None

(***************************************************************************)
(* The reads that join artifacts and sources return what the contract's     *)
(* reads return: a source of a legacy artifact, or of one that is not       *)
(* stored, is not returned, even when a RunID equals a legacy SampleRunID   *)
(* (liveSourceFilter, run_id <> '').                                        *)
(***************************************************************************)
ReadsSeeOnlyRuns ==
    (\E p \in Processes : Serves(p)) =>
    /\ \A id \in SourceIDs :
          LET row == GetArtifactSource(id)
          IN  row # None => \E k \in ArtifactKey : /\ KeyString[k] = row.artifact_id
                                                   /\ GetArtifact(k) # None
    /\ \A k \in ArtifactKey :
          /\ GetArtifact(k) = None => ListArtifactSources(KeyString[k]) = {}
          /\ GetArtifact(k) # None <=> KeyString[k] \in ListArtifactsByRun(k.run)
    /\ \A n \in NodeAttemptKey :
          GetNodeTerminal(n) # None <=> AttemptString[n] \in ListNodeTerminalsByRun(n.run)

(***************************************************************************)
(* Legacy rows are neither deleted, backfilled nor claimed: no call of a    *)
(* Run-keyed client and no migration ever changes an artifact or terminal   *)
(* row without run_id, or a source of such an artifact; once written, the   *)
(* record of how many there are stays (migrateRunIdentity).                 *)
(***************************************************************************)
LegacyRetained ==
    [][/\ \A key \in LegacyKeys(file.artifacts) : file'.artifacts[key] = file.artifacts[key]
       /\ \A key \in LegacyKeys(file.terminals) : file'.terminals[key] = file.terminals[key]
       /\ \A id \in SourceIDs :
             (file.sources[id] # None /\ \A k \in ArtifactKey : KeyString[k] # file.sources[id].artifact_id)
                => file'.sources[id] = file.sources[id]
       /\ file'.sampleLifecycles = file.sampleLifecycles
       /\ file.counts # None => file'.counts = file.counts]_databaseVars

(***************************************************************************)
(* A file of a newer binary, or with an unreadable version, is never        *)
(* changed: the tables are created before the version is read, but in a     *)
(* transaction that the refusal rolls back (sqliteMigrate).                 *)
(***************************************************************************)
RefusedLeavesFile ==
    [][file.version \notin {"", "2"} => file' = file]_databaseVars

(***************************************************************************)
(* Opening ends: a process that opens the store serves or gives up, even    *)
(* when the other process holds the lock or dies holding it (busy_timeout   *)
(* in sqliteDSN).                                                           *)
(***************************************************************************)
OpeningEnds ==
    \A p \in Processes : proc[p].pc \in Opening ~> proc[p].pc \in {"serving", "down"}
=============================================================================
