--------------------------- MODULE SQLiteContract ---------------------------
(***************************************************************************)
(* SQLiteStore as its callers see it: the tables its reads return and the   *)
(* calls that are pending, as the variables of the store contract.          *)
(***************************************************************************)
EXTENDS SQLiteStore

\* The identity behind an artifact_id; a legacy ID has none.
OwnerOf(artifactID) ==
    IF \E k \in ArtifactKey : KeyString[k] = artifactID
    THEN CHOOSE k \in ArtifactKey : KeyString[k] = artifactID
    ELSE None

AsSource(row) ==
    IF row = None THEN None
    ELSE [owner |-> OwnerOf(row.artifact_id), backend |-> row.backend, digest |-> row.digest,
          state |-> row.state, loc |-> row.loc]

Contract == INSTANCE StoreContract WITH
    Backend    <- "sqlite",
    Faults     <- TRUE,
    Clients    <- Processes,
    artifacts  <- [k \in ArtifactKey |-> GetArtifact(k)],
    sources    <- [id \in SourceIDs |-> AsSource(file.sources[id])],
    terminals  <- [n \in NodeAttemptKey |-> GetNodeTerminal(n)],
    lifecycles <- [r \in Runs |-> GetRunLifecycle(r)],
    pending    <- [p \in Processes |-> proc[p].call],
    result     <- [p \in Processes |-> proc[p].result]

ASSUME SQLiteContractAssumption == None \notin ArtifactKey \cup Contract!SourceRows

(***************************************************************************)
(* SQLiteStore implements the store contract: as its reads see them, the    *)
(* tables change only in the atomic calls of the contract, and a caller is  *)
(* told "ok" in the step that makes its write visible and never for a write *)
(* that a crash, an error or a lock timeout undid, while other processes    *)
(* open, migrate and write the same file (PutArtifact, PutArtifactSources,  *)
(* RecordNodeTerminal, UpsertRunLifecycle in sqlite.go).                    *)
(***************************************************************************)
ImplementsContract == Contract!ContractSpec
=============================================================================
