----------------------------- MODULE Inventory ------------------------------
(***************************************************************************)
(* The operations of pkg/inventory's Store, as operators from a table to    *)
(* the table a call leaves behind.  A table is a function from every        *)
(* possible key to its row or None.  Each call is atomic: MemoryStore holds *)
(* its mutex for the whole call, SQLiteStore runs one BEGIN IMMEDIATE       *)
(* transaction per call on one connection.  Backend picks the store where   *)
(* the two differ.                                                          *)
(***************************************************************************)
EXTENDS Domain

CONSTANTS
    Backend,           \* "memory" or "sqlite"
    Offers,            \* the artifacts producers register
    Faults             \* whether store calls may fail and the process may restart

ASSUME InventoryAssumption ==
    /\ Backend \in {"memory", "sqlite"}
    /\ Offers \subseteq Artifact
    /\ Faults \in BOOLEAN

\* The table that both the catalog and the lifecycle handlers use.
VARIABLE artifacts

EmptyTable(keys) == [k \in keys |-> None]

\* What a table holds after the process restarted.
AfterRestart(table) == IF Backend = "sqlite" THEN table ELSE EmptyTable(DOMAIN table)

\* Mutant: only clearing the digest is refused.
DigestCleared(old, a) ==
    /\ old # None
    /\ old.digest # ""
    /\ a.digest = ""

\* The stored digest is neither cleared nor replaced.
DigestConflict(old, a) ==
    /\ old # None
    /\ old.digest # ""
    /\ a.digest # old.digest

\* Mutant: a registration with the same digest rewrites the row.
OverwriteArtifact(table, k, a) == [table EXCEPT ![k] = a]

\* A row that has a digest is left as it is; any other row is replaced whole.
PutArtifact(table, k, a) ==
    IF table[k] # None /\ table[k].digest # "" THEN table ELSE [table EXCEPT ![k] = a]

\* A caller derived the sources of the artifact a that it put or got under k.  MemoryStore's
\* row shares its locations with that caller, SQLiteStore's does not.
FillNodeNames(table, k, a) ==
    IF Backend = "memory" /\ table[k] = a THEN [table EXCEPT ![k] = NodesFilled(a)] ELSE table

\* Mutant: the listing forgets its WHERE run_id clause.
ListArtifactsOfAllRuns(table, r) == {k \in ArtifactKey : table[k] # None}

ListArtifactsByRun(table, r) == {k \in ArtifactKey : k.run = r /\ table[k] # None}

\* Mutant: no source is recognised as another artifact's.
NoOwnershipConflict(table, rows) == FALSE

\* One source ID of the call belongs to another artifact: the call writes nothing.
ErrSourceOwnershipConflict(table, rows) ==
    \E id \in DOMAIN rows : table[id] # None /\ table[id].owner # rows[id].owner

\* Mutant: only rows that exist are written.
UpdateExistingSources(table, rows) ==
    [id \in DOMAIN table |->
        IF id \in DOMAIN rows /\ table[id] # None THEN rows[id] ELSE table[id]]

\* Mutant: a row that exists keeps its backend when its location changes.
MergeSources(table, rows) ==
    [id \in DOMAIN table |->
        IF id \notin DOMAIN rows THEN table[id]
        ELSE IF table[id] = None THEN rows[id]
        ELSE [rows[id] EXCEPT !.backend = table[id].backend]]

MemoryPutArtifactSources(table, rows) ==
    [id \in DOMAIN table |-> IF id \in DOMAIN rows THEN rows[id] ELSE table[id]]

\* The conflict update keeps artifact, backend and digest of the stored row.
SQLitePutArtifactSources(table, rows) ==
    [id \in DOMAIN table |->
        IF id \notin DOMAIN rows THEN table[id]
        ELSE IF table[id] = None THEN rows[id]
        ELSE [table[id] EXCEPT !.state = rows[id].state, !.loc = rows[id].loc]]

PutArtifactSources(table, rows) ==
    IF Backend = "memory" THEN MemoryPutArtifactSources(table, rows)
    ELSE SQLitePutArtifactSources(table, rows)

\* A source is returned only while its artifact is a live row.
GetArtifactSource(arts, table, id) ==
    IF table[id] # None /\ arts[table[id].owner] # None THEN table[id] ELSE None

ListArtifactSources(arts, table, k) ==
    {id \in DOMAIN table : table[id] # None /\ table[id].owner = k /\ arts[k] # None}

\* The first terminal state recorded for an attempt stands.
RecordNodeTerminal(table, n, s) == IF table[n] = None THEN [table EXCEPT ![n] = s] ELSE table

ListNodeTerminalsByRun(table, r) == {n \in NodeAttemptKey : n.run = r /\ table[n] # None}
=============================================================================
