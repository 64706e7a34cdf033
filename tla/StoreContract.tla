--------------------------- MODULE StoreContract ----------------------------
(***************************************************************************)
(* What pkg/inventory's Store promises to the resolver, whichever backend   *)
(* serves it: every call takes effect at one instant or not at all, a       *)
(* caller that is told "ok" or "refused" is told the truth about that       *)
(* instant, and no other event changes a row.  MemoryStore is this module:  *)
(* it holds its mutex from the first statement of a call to the last.       *)
(* SQLiteStore is shown to implement it.                                    *)
(***************************************************************************)
EXTENDS Inventory

CONSTANTS
    Clients,           \* the processes that call the store
    SourceIDs,         \* the IDs of source rows
    SourceCalls,       \* arguments of PutArtifactSources: a sequence of IDs and sources
    LifecycleRows      \* the rows UpsertRunLifecycle writes

VARIABLES
    sources, terminals, lifecycles,
    pending,           \* the call each client has made and not been told the outcome of
    result             \* what it was told of its last call

tables == <<artifacts, sources, terminals, lifecycles>>

contractVars == <<artifacts, sources, terminals, lifecycles, pending, result>>

Call ==
    [op : {"putArtifact"}, key : ArtifactKey, art : Offers]
        \cup [op : {"putSources"}, rows : SourceCalls]
        \cup [op : {"recordTerminal"}, attempt : NodeAttemptKey, state : TerminalState]
        \cup [op : {"upsertLifecycle"}, run : Runs, row : LifecycleRows]

\* An argument of PutArtifactSources as a table of the rows it writes.
Rows(call) ==
    [id \in {call[i].id : i \in DOMAIN call} |->
        call[CHOOSE i \in DOMAIN call : call[i].id = id].src]

\* Sources that belong to no identity (None) hold IDs that then cannot be used.
SourceRows ==
    [owner : ArtifactKey \cup {None}, backend : BackendID, digest : DigestValue,
     state : SourceState, loc : Location]

\* The store may hold the rows of earlier processes.
ContractInit ==
    /\ artifacts \in [ArtifactKey -> Artifact \cup {None}]
    /\ sources \in [SourceIDs -> SourceRows \cup {None}]
    /\ terminals \in [NodeAttemptKey -> TerminalState \cup {None}]
    /\ lifecycles \in [Runs -> LifecycleRows \cup {None}]
    /\ pending = [c \in Clients |-> None]
    /\ result = [c \in Clients |-> "none"]

MakeCall(c, call) ==
    /\ pending[c] = None
    /\ pending' = [pending EXCEPT ![c] = call]
    /\ result' = [result EXCEPT ![c] = "none"]
    /\ UNCHANGED tables

\* c's pending call of this operation ends, and c is told whether it took effect.
Reply(c, op, ok) ==
    /\ pending[c] # None
    /\ pending[c].op = op
    /\ pending' = [pending EXCEPT ![c] = None]
    /\ result' = [result EXCEPT ![c] = IF ok THEN "ok" ELSE "refused"]

CallPutArtifact(c) ==
    LET k  == pending[c].key
        ok == ~DigestConflict(artifacts[k], pending[c].art)
    IN  /\ Reply(c, "putArtifact", ok)
        /\ artifacts' = IF ok THEN PutArtifact(artifacts, k, pending[c].art) ELSE artifacts
        /\ UNCHANGED <<sources, terminals, lifecycles>>

CallPutArtifactSources(c) ==
    LET rows == Rows(pending[c].rows)
        ok   == ~ErrSourceOwnershipConflict(sources, rows)
    IN  /\ Reply(c, "putSources", ok)
        /\ sources' = IF ok THEN PutArtifactSources(sources, rows) ELSE sources
        /\ UNCHANGED <<artifacts, terminals, lifecycles>>

CallRecordNodeTerminal(c) ==
    LET n == pending[c].attempt
    IN  /\ Reply(c, "recordTerminal", terminals[n] \in {None, pending[c].state})
        /\ terminals' = RecordNodeTerminal(terminals, n, pending[c].state)
        /\ UNCHANGED <<artifacts, sources, lifecycles>>

CallUpsertRunLifecycle(c) ==
    /\ Reply(c, "upsertLifecycle", TRUE)
    /\ lifecycles' = [lifecycles EXCEPT ![pending[c].run] = pending[c].row]
    /\ UNCHANGED <<artifacts, sources, terminals>>

\* An error or a cancelled context; the client that dies is told nothing.
CallWithoutEffect(c) ==
    /\ pending' = [pending EXCEPT ![c] = None]
    /\ \E r \in {"none", "failed"} : result' = [result EXCEPT ![c] = r]
    /\ UNCHANGED tables

ContractNext ==
    \E c \in Clients :
        \/ \E call \in Call : MakeCall(c, call)
        \/ CallPutArtifact(c)
        \/ CallPutArtifactSources(c)
        \/ CallRecordNodeTerminal(c)
        \/ CallUpsertRunLifecycle(c)
        \/ CallWithoutEffect(c)

ContractSpec == ContractInit /\ [][ContractNext]_contractVars
=============================================================================
