----------------------------- MODULE Migration ------------------------------
(***************************************************************************)
(* Opening SQLiteStore's database file: sqliteMigrate and                   *)
(* migrateRunIdentity of pkg/inventory/sqlite.go, statement by statement,   *)
(* by several processes, each of which may die at any point.                *)
(*                                                                          *)
(* SQLite itself is external: "file" is the last committed state, a         *)
(* transaction (BEGIN IMMEDIATE, from sqliteDSN) holds the one write lock   *)
(* and changes a private copy, and a process that dies loses the copy.  A   *)
(* process has one connection (SetMaxOpenConns), hence at most one          *)
(* transaction.                                                             *)
(***************************************************************************)
EXTENDS Domain, Ids

CONSTANTS
    Processes,         \* resolver processes that open the file
    SourceIDs,         \* the IDs of source rows
    SampleRunIDs,      \* the identities of before RunIDs
    InitialFiles       \* the files they may find

VARIABLES
    file,              \* the committed database
    lock,              \* the process with a transaction, or None
    work,              \* its uncommitted copy, or None
    proc               \* what each process is doing

Tables == {"artifacts", "artifact_sources", "node_terminals", "sample_run_lifecycles",
           "run_lifecycles", "ah_schema_meta"}

\* The columns older binaries did not create.
RunIDColumns == {<<"artifacts", "run_id">>, <<"node_terminals", "run_id">>}

\* The ALTER TABLE statements that follow the migration transaction, in order.
AlterTable == <<<<"artifacts", "logical_uri">>, <<"artifacts", "locations_json">>,
                <<"artifact_sources", "last_verified_at">>, <<"artifact_sources", "last_error">>>>

Columns == RunIDColumns \cup Range(AlterTable)

\* Tables are keyed by the joined strings; "" is the run_id of a row without one.
KeyString ==
    [k \in ArtifactKey |-> ArtifactKeyString(k.run, k.attempt[1], k.attempt[2], k.output)]

AttemptString ==
    [n \in NodeAttemptKey |-> NodeAttemptKeyString(n.run, n.attempt[1], n.attempt[2])]

\* The keys of the rows that binaries of before RunIDs wrote.
LegacyArtifactKeys ==
    {LegacyArtifactKeyString(s, a[1], a[2], o) : s \in SampleRunIDs, a \in Attempts, o \in Outputs}

LegacyAttemptKeys ==
    {LegacyNodeAttemptKeyString(s, a[1], a[2]) : s \in SampleRunIDs, a \in Attempts}

\* The primary keys the tables may hold.
ArtifactRows == Range(KeyString) \cup LegacyArtifactKeys

TerminalRows == Range(AttemptString) \cup LegacyAttemptKeys

Legacy(row) == row # None /\ row.run_id = <<>>

LegacyKeys(table) == {key \in DOMAIN table : Legacy(table[key])}

LegacyCounts(f) ==
    [artifacts |-> Cardinality(LegacyKeys(f.artifacts)),
     terminals |-> Cardinality(LegacyKeys(f.terminals)),
     lifecycles |-> Cardinality(f.sampleLifecycles)]

\* schema_version: absent, this binary's, a newer one's, or not a number.
Version == {"", "2", "3", "unreadable"}

\* Components hold no separator, whichever binary wrote the key.  A file that has this
\* binary's version is one its migration left: behaviours start from the files before it.
ASSUME MigrationAssumption ==
    /\ Runs \subseteq String /\ Attempts \subseteq String \X String /\ Outputs \subseteq String
    /\ \A s \in SampleRunIDs : s \in String /\ ~HasSep(s)
    /\ \A k \in ArtifactKey : ValidateArtifactKey(k.run, k.attempt[1], k.attempt[2], k.output)
    /\ \A n \in NodeAttemptKey : ValidateNodeAttemptKey(n.run, n.attempt[1], n.attempt[2])
    /\ \A f \in InitialFiles :
          /\ f.columns \subseteq {c \in Columns : c[1] \in f.tables}
          /\ f.version # "2"
          /\ f.version = "" =>
                /\ f.counts = None
                /\ \A key \in DOMAIN f.artifacts :
                      f.artifacts[key] # None => Legacy(f.artifacts[key]) /\ key \in LegacyArtifactKeys
                /\ \A key \in DOMAIN f.terminals :
                      f.terminals[key] # None => Legacy(f.terminals[key]) /\ key \in LegacyAttemptKeys

\* Where the process is in sqliteMigrate, or its call in SQLiteStore.
Opening == {"begin", "createTables", "checkVersion", "addColumns", "disposition", "stamp",
            "commit", "alter"}

Down == [pc |-> "down", next |-> 0, call |-> None, result |-> "none"]

MigrationInit ==
    /\ file \in InitialFiles
    /\ lock = None
    /\ work = None
    /\ proc = [p \in Processes |-> Down]

-----------------------------------------------------------------------------
(* SQLite's transactions.                                                   *)

Begin(p) ==
    /\ lock = None
    /\ lock' = p
    /\ work' = file
    /\ UNCHANGED file

Exec(p, db) ==
    /\ lock = p
    /\ work' = db
    /\ UNCHANGED <<file, lock>>

Commit(p) ==
    /\ lock = p
    /\ file' = work
    /\ lock' = None
    /\ work' = None

\* Rollback of p's transaction, if it has one.
Rollback(p) ==
    /\ lock' = IF lock = p THEN None ELSE lock
    /\ work' = IF lock = p THEN None ELSE work
    /\ UNCHANGED file

\* A statement outside a transaction is a transaction of its own.
ExecAutocommit(db) ==
    /\ lock = None
    /\ file' = db
    /\ UNCHANGED <<lock, work>>

-----------------------------------------------------------------------------
(* sqliteMigrate.                                                           *)

At(p, pc) == proc[p].pc = pc

Goto(p, pc) == proc' = [proc EXCEPT ![p].pc = pc]

OpenStore(p) ==
    /\ At(p, "down")
    /\ Goto(p, "begin")
    /\ UNCHANGED <<file, lock, work>>

BeginMigration(p) == At(p, "begin") /\ Begin(p) /\ Goto(p, "createTables")

\* CREATE TABLE IF NOT EXISTS: only a new table gets all its columns.
CreateTables(p) ==
    /\ At(p, "createTables")
    /\ Exec(p, [work EXCEPT !.tables = Tables,
                            !.columns = @ \cup {c \in Columns : c[1] \notin work.tables}])
    /\ Goto(p, "checkVersion")

\* Mutant: whatever version is stamped, the file is opened.
CheckNoVersion(p) ==
    /\ At(p, "checkVersion")
    /\ UNCHANGED <<file, lock, work>>
    /\ Goto(p, "addColumns")

\* A newer or unreadable version is refused: main calls log.Fatal.
CheckVersion(p) ==
    /\ At(p, "checkVersion")
    /\ \/ /\ work.version \in {"", "2"}
          /\ UNCHANGED <<file, lock, work>>
          /\ Goto(p, "addColumns")
       \/ /\ work.version \notin {"", "2"}
          /\ Rollback(p)
          /\ proc' = [proc EXCEPT ![p] = Down]

\* Mutant: rows without a run_id are given one.
AddRunIDColumnsBackfilled(p) ==
    /\ At(p, "addColumns")
    /\ Exec(p, [work EXCEPT !.columns = @ \cup RunIDColumns,
                            !.artifacts = [key \in DOMAIN @ |->
                                IF Legacy(@[key]) THEN [@[key] EXCEPT !.run_id = CHOOSE r \in Runs : TRUE]
                                ELSE @[key]]])
    /\ Goto(p, IF work.version = "" THEN "disposition" ELSE "commit")

\* The disposition is recorded by the upgrade that stamps the version, once.
AddRunIDColumns(p) ==
    /\ At(p, "addColumns")
    /\ Exec(p, [work EXCEPT !.columns = @ \cup RunIDColumns])
    /\ Goto(p, IF work.version = "" THEN "disposition" ELSE "commit")

\* Mutant: the counts are written through the database, not the transaction.
RecordDispositionOutsideTx(p) ==
    /\ At(p, "disposition")
    /\ work.counts = None
    /\ work' = [work EXCEPT !.counts = LegacyCounts(work)]
    /\ file' = [file EXCEPT !.counts = LegacyCounts(work)]
    /\ UNCHANGED lock
    /\ Goto(p, "stamp")

\* The INSERTs of the counts fail if they are there already.
RecordDisposition(p) ==
    /\ At(p, "disposition")
    /\ work.counts = None
    /\ Exec(p, [work EXCEPT !.counts = LegacyCounts(work)])
    /\ Goto(p, "stamp")

StampVersion(p) ==
    /\ At(p, "stamp")
    /\ Exec(p, [work EXCEPT !.version = "2"])
    /\ Goto(p, "commit")

CommitMigration(p) ==
    /\ At(p, "commit")
    /\ Commit(p)
    /\ proc' = [proc EXCEPT ![p].pc = "alter", ![p].next = 1]

\* Mutant: a column that is there already ends the list of ALTER TABLEs.
AlterUntilDuplicate(p) ==
    /\ At(p, "alter")
    /\ ExecAutocommit([file EXCEPT !.columns = @ \cup {AlterTable[proc[p].next]}])
    /\ IF proc[p].next = Len(AlterTable) \/ AlterTable[proc[p].next] \in file.columns
       THEN proc' = [proc EXCEPT ![p].pc = "serving", ![p].next = 0]
       ELSE proc' = [proc EXCEPT ![p].next = @ + 1]

\* One ALTER TABLE, outside any transaction; a duplicate column is no error.
AlterAddColumn(p) ==
    /\ At(p, "alter")
    /\ ExecAutocommit([file EXCEPT !.columns = @ \cup {AlterTable[proc[p].next]}])
    /\ IF proc[p].next = Len(AlterTable)
       THEN proc' = [proc EXCEPT ![p].pc = "serving", ![p].next = 0]
       ELSE proc' = [proc EXCEPT ![p].next = @ + 1]

\* Mutant: a busy database is waited for without end.
WaitForLock(p) ==
    /\ FALSE
    /\ UNCHANGED <<file, lock, work, proc>>

\* busy_timeout: another process holds the write lock for five seconds.
OpenTimeout(p) ==
    /\ proc[p].pc \in {"begin", "alter"}
    /\ lock \notin {None, p}
    /\ proc' = [proc EXCEPT ![p] = Down]
    /\ UNCHANGED <<file, lock, work>>

OpenStep(p) ==
    \/ BeginMigration(p)
    \/ CreateTables(p)
    \/ CheckVersion(p)
    \/ AddRunIDColumns(p)
    \/ RecordDisposition(p)
    \/ StampVersion(p)
    \/ CommitMigration(p)
    \/ AlterAddColumn(p)
    \/ OpenTimeout(p)

\* The process dies, at any point; SQLite drops its transaction.  A process that closes the
\* store, or gives up because a statement of its opening failed, ends in the same way.
ProcessEnds(p) ==
    /\ ~At(p, "down")
    /\ Rollback(p)
    /\ proc' = [proc EXCEPT ![p] = Down]
=============================================================================
