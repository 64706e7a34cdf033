------------------------------ MODULE Catalog -------------------------------
(***************************************************************************)
(* Artifacts and their sources: RegisterArtifact, AddSource,                *)
(* UpdateSourceState and VerifySource of pkg/resolver/service.go.           *)
(*                                                                          *)
(* Each handler makes several store calls with no lock across them; cat[w]  *)
(* holds the locals of worker w's request, and an action is the code from   *)
(* one store call up to the next.  A request ends with the error class its  *)
(* handler returns, which the transports turn into a code; the identities   *)
(* of requests are well formed (Ids), so InvalidArgument does not occur. A  *)
(* state that SourceState.Validate refuses is an error without a class.     *)
(***************************************************************************)
EXTENDS Inventory

CONSTANTS
    CatalogWorkers,    \* the goroutines that serve catalog requests
    SourceOffers,      \* the sources clients add
    RequestedStates    \* the states clients set

\* What a client may write for a state: nothing, or one that the resolver does not know.
ClientState == SourceState \cup {"", "unknown"}

SourceOffer ==
    [id : SourceID \cup {None}, backend : BackendID, digest : DigestValue,
     state : ClientState, loc : Location]

ASSUME CatalogAssumption ==
    /\ SourceOffers \subseteq SourceOffer
    /\ RequestedStates \subseteq ClientState
    /\ None \notin SourceID

VARIABLES
    sources,           \* table of the store
    cat                \* requests in flight

catalogVars == <<artifacts, sources, cat>>

CatalogPC == {"idle", "putArtifact", "putSources", "getArtifact", "putSource", "reread", "reply"}

\* The sentinel errors of errors.go; "" is nil, "other" an error that wraps none of them.
ErrClass == {"", "NotFound", "AlreadyExists", "FailedPrecondition", "other"}

toGRPCError(err) ==
    CASE err = ""      -> "OK"
      [] err = "other" -> "Internal"
      [] OTHER         -> err

CatalogRequest ==
    [pc : CatalogPC, op : {"none", "register", "add", "update", "verify"},
     key : ArtifactKey \cup {None}, art : Artifact \cup {None},
     id : SourceID \cup {None}, src : Source \cup {None}, err : ErrClass]

NoRequest ==
    [pc |-> "idle", op |-> "none", key |-> None, art |-> None, id |-> None, src |-> None,
     err |-> ""]

\* The types of the tables and of the requests.
CatalogTypeOK ==
    /\ artifacts \in [ArtifactKey -> Artifact \cup {None}]
    /\ sources \in [SourceID -> Source \cup {None}]
    /\ cat \in [CatalogWorkers -> CatalogRequest]
    /\ \A w \in CatalogWorkers :
          /\ cat[w].pc \in {"putArtifact", "putSources"} =>
                cat[w].key \in ArtifactKey /\ cat[w].art \in Artifact
          /\ cat[w].pc \in {"getArtifact", "putSource", "reread"} =>
                cat[w].id \in SourceID /\ cat[w].src \in Source

CatalogInit ==
    /\ artifacts = EmptyTable(ArtifactKey)
    /\ sources = EmptyTable(SourceID)
    /\ cat = [w \in CatalogWorkers |-> NoRequest]

\* The handler returns: an answer keeps what it is about, a failure only its class.
Answer(w, req, err) == cat' = [cat EXCEPT ![w] = [req EXCEPT !.pc = "reply", !.err = err]]

Fail(w, err) == Answer(w, NoRequest, err)

-----------------------------------------------------------------------------
(* RegisterArtifact: check the stored digest, put the artifact, put the     *)
(* sources derived from the request.                                        *)

\* Mutant: any artifact that is registered counts as a conflict.
RegisterOnlyNew(w, k, a) ==
    LET req == [NoRequest EXCEPT !.op = "register", !.key = k, !.art = a]
    IN  /\ cat[w].pc = "idle"
        /\ IF artifacts[k] # None THEN Answer(w, req, "AlreadyExists")
           ELSE cat' = [cat EXCEPT ![w] = [req EXCEPT !.pc = "putArtifact"]]
        /\ UNCHANGED <<artifacts, sources>>

RegisterArtifact(w, k, a) ==
    LET req == [NoRequest EXCEPT !.op = "register", !.key = k, !.art = a]
    IN  /\ cat[w].pc = "idle"
        /\ CASE DigestConflict(artifacts[k], a) -> Answer(w, req, "AlreadyExists")
             [] ~DigestConflict(artifacts[k], a) /\ ~ValidateArtifactForRegistration(a) ->
                   Fail(w, "other")
             [] OTHER -> cat' = [cat EXCEPT ![w] = [req EXCEPT !.pc = "putArtifact"]]
        /\ UNCHANGED <<artifacts, sources>>

\* The store checks the digest again: another registration may have come first.  Its
\* conflict is not wrapped in ErrAlreadyExists.
RegisterPutArtifact(w) ==
    /\ cat[w].pc = "putArtifact"
    /\ \/ /\ DigestConflict(artifacts[cat[w].key], cat[w].art)
          /\ Fail(w, "other")
          /\ UNCHANGED artifacts
       \/ /\ ~DigestConflict(artifacts[cat[w].key], cat[w].art)
          /\ artifacts' = PutArtifact(artifacts, cat[w].key, cat[w].art)
          /\ cat' = [cat EXCEPT ![w].pc = "putSources"]
    /\ UNCHANGED sources

\* Mutant: the error of PutArtifactSources is dropped.
RegisterDropsError(w) ==
    /\ cat[w].pc = "putSources"
    /\ LET rows == initialSourcesForArtifact(cat[w].key, cat[w].art)
       IN  sources' = IF ErrSourceOwnershipConflict(sources, rows) THEN sources
                      ELSE PutArtifactSources(sources, rows)
    /\ Answer(w, cat[w], "")
    /\ artifacts' = FillNodeNames(artifacts, cat[w].key, cat[w].art)

\* Deriving the sources fills in node names, in the row too where the store shares it.
RegisterPutSources(w) ==
    /\ cat[w].pc = "putSources"
    /\ LET rows == initialSourcesForArtifact(cat[w].key, cat[w].art)
       IN  \/ /\ ErrSourceOwnershipConflict(sources, rows)
              /\ Fail(w, "other")
              /\ UNCHANGED sources
           \/ /\ ~ErrSourceOwnershipConflict(sources, rows)
              /\ sources' = PutArtifactSources(sources, rows)
              /\ Answer(w, cat[w], "")
    /\ artifacts' = FillNodeNames(artifacts, cat[w].key, cat[w].art)

-----------------------------------------------------------------------------
(* AddSource, UpdateSourceState and VerifySource: read, decide, write one   *)
(* source back whole, read it again for the answer.                         *)

\* The client's source completed with the artifact's digest and the default state.
AddedSource(k, q) ==
    [owner |-> k, backend |-> q.backend,
     digest |-> IF Blank(q.digest) THEN artifacts[k].digest ELSE q.digest,
     state |-> IF q.state = "" THEN "ready" ELSE q.state,
     loc |-> q.loc]

\* state.Validate, then the validation of the source against its artifact.
ValidAddedSource(k, q) ==
    /\ AddedSource(k, q).state \in SourceState
    /\ ValidateArtifactSourceForArtifact(k, artifacts[k], AddedSource(k, q))

AddSource(w, k, q) ==
    /\ cat[w].pc = "idle"
    /\ \/ artifacts[k] = None /\ Fail(w, "NotFound")
       \/ artifacts[k] # None /\ ~ValidAddedSource(k, q) /\ Fail(w, "other")
       \/ /\ artifacts[k] # None
          /\ ValidAddedSource(k, q)
          /\ cat' = [cat EXCEPT ![w] =
                        [NoRequest EXCEPT !.pc = "putSource", !.op = "add",
                                          !.id = IF q.id = None THEN <<k, q.backend, q.loc>>
                                                 ELSE q.id,
                                          !.src = AddedSource(k, q)]]
    /\ UNCHANGED <<artifacts, sources>>

\* Mutant: the requested state is not validated.
UpdateToAnyState(w, id, st) ==
    /\ cat[w].pc = "idle"
    /\ IF GetArtifactSource(artifacts, sources, id) = None THEN Fail(w, "NotFound")
       ELSE cat' = [cat EXCEPT ![w] =
                       [NoRequest EXCEPT !.pc = "getArtifact", !.op = "update", !.id = id,
                                         !.src = [sources[id] EXCEPT !.state = st]]]
    /\ UNCHANGED <<artifacts, sources>>

UpdateSourceState(w, id, st) ==
    /\ cat[w].pc = "idle"
    /\ \/ st \notin SourceState /\ Fail(w, "other")
       \/ /\ st \in SourceState
          /\ GetArtifactSource(artifacts, sources, id) = None
          /\ Fail(w, "NotFound")
       \/ /\ st \in SourceState
          /\ GetArtifactSource(artifacts, sources, id) # None
          /\ cat' = [cat EXCEPT ![w] =
                        [NoRequest EXCEPT !.pc = "getArtifact", !.op = "update", !.id = id,
                                          !.src = [sources[id] EXCEPT !.state = st]]]
    /\ UNCHANGED <<artifacts, sources>>

\* Deleted sources are not verifiable.
VerifySource(w, id) ==
    /\ cat[w].pc = "idle"
    /\ LET source == GetArtifactSource(artifacts, sources, id)
       IN  CASE source = None -> Fail(w, "NotFound")
             [] source # None /\ source.state = "deleted" -> Fail(w, "FailedPrecondition")
             [] OTHER -> cat' = [cat EXCEPT ![w] =
                                    [NoRequest EXCEPT !.pc = "getArtifact", !.op = "verify",
                                                      !.id = id, !.src = source]]
    /\ UNCHANGED <<artifacts, sources>>

VerifiedState(s) ==
    IF /\ ValidateArtifactSourceForArtifact(s.owner, artifacts[s.owner], s)
       /\ validateCandidateSource(s)
    THEN "ready" ELSE "unreachable"

\* GetArtifactByID of UpdateSourceState and VerifySource.  The branch for an artifact
\* that is not found is dead (NothingVanishes) and has no disjunct.
GetSourceArtifact(w) ==
    /\ cat[w].pc = "getArtifact"
    /\ artifacts[cat[w].src.owner] # None
    /\ cat' = [cat EXCEPT ![w].pc = "putSource",
                          ![w].src.state = IF cat[w].op = "verify" THEN VerifiedState(cat[w].src)
                                           ELSE cat[w].src.state]
    /\ UNCHANGED <<artifacts, sources>>

\* Mutant: the write is an UPDATE, which does nothing for a new source.
UpdateSource(w) ==
    /\ cat[w].pc = "putSource"
    /\ sources' = UpdateExistingSources(sources, [id \in {cat[w].id} |-> cat[w].src])
    /\ cat' = [cat EXCEPT ![w].pc = "reread"]
    /\ UNCHANGED artifacts

PutSource(w) ==
    /\ cat[w].pc = "putSource"
    /\ LET rows == [id \in {cat[w].id} |-> cat[w].src]
       IN  \/ /\ ErrSourceOwnershipConflict(sources, rows)
              /\ IF cat[w].op = "add" THEN Answer(w, cat[w], "AlreadyExists") ELSE Fail(w, "other")
              /\ UNCHANGED sources
           \/ /\ ~ErrSourceOwnershipConflict(sources, rows)
              /\ sources' = PutArtifactSources(sources, rows)
              /\ cat' = [cat EXCEPT ![w].pc = "reread"]
    /\ UNCHANGED artifacts

RereadSource(w) ==
    /\ cat[w].pc = "reread"
    /\ Answer(w, cat[w], "")
    /\ UNCHANGED <<artifacts, sources>>

\* The transport sends the answer.
Reply(w) ==
    /\ cat[w].pc = "reply"
    /\ cat' = [cat EXCEPT ![w] = NoRequest]
    /\ UNCHANGED <<artifacts, sources>>

-----------------------------------------------------------------------------

\* Mutant: a registration whose sources cannot be written takes its artifact back.
CatalogErrorUndoes(w) ==
    /\ Faults
    /\ cat[w].pc \notin {"idle", "reply"}
    /\ Fail(w, "other")
    /\ artifacts' = IF cat[w].pc = "putSources" THEN [artifacts EXCEPT ![cat[w].key] = None]
                    ELSE artifacts
    /\ UNCHANGED sources

\* A store call failed or the caller's context ended: the handler returns the error.
CatalogStoreError(w) ==
    /\ Faults
    /\ cat[w].pc \notin {"idle", "reply"}
    /\ Fail(w, "other")
    /\ artifacts' = IF cat[w].pc = "putSources"
                    THEN FillNodeNames(artifacts, cat[w].key, cat[w].art) ELSE artifacts
    /\ UNCHANGED sources

CatalogRestart ==
    /\ Faults
    /\ artifacts' = AfterRestart(artifacts)
    /\ sources' = AfterRestart(sources)
    /\ cat' = [w \in CatalogWorkers |-> NoRequest]

CatalogCall(w) ==
    \/ \E k \in ArtifactKey, a \in Offers : RegisterArtifact(w, k, a)
    \/ \E k \in ArtifactKey, q \in SourceOffers : AddSource(w, k, q)
    \/ \E id \in SourceID, st \in RequestedStates : UpdateSourceState(w, id, st)
    \/ \E id \in SourceID : VerifySource(w, id)

CatalogStep(w) ==
    \/ RegisterPutArtifact(w)
    \/ RegisterPutSources(w)
    \/ GetSourceArtifact(w)
    \/ PutSource(w)
    \/ RereadSource(w)
    \/ Reply(w)

CatalogHandlers ==
    \E w \in CatalogWorkers : CatalogCall(w) \/ CatalogStep(w) \/ CatalogStoreError(w)

CatalogNext == CatalogHandlers \/ CatalogRestart

CatalogSpec == CatalogInit /\ [][CatalogNext]_catalogVars

-----------------------------------------------------------------------------
(* Properties.                                                              *)

(***************************************************************************)
(* Every stored source belongs to a stored artifact and carries exactly     *)
(* that artifact's nonblank digest, though the digest was compared one or   *)
(* two store calls before the source was written and registrations of the   *)
(* same key race with it (RegisterArtifactCore, AddSourceCore).             *)
(***************************************************************************)
SourceDigestAgrees ==
    \A id \in SourceID :
        sources[id] # None =>
            /\ artifacts[sources[id].owner] # None
            /\ ~Blank(sources[id].digest)
            /\ sources[id].digest = artifacts[sources[id].owner].digest

(***************************************************************************)
(* A handler finds again what it read or wrote before: the artifact of the  *)
(* source it read (UpdateSourceStateCore, VerifySourceCore) and the source  *)
(* it wrote (the "not found after write" branch of AddSourceCore is dead).  *)
(***************************************************************************)
NothingVanishes ==
    \A w \in CatalogWorkers :
        /\ cat[w].pc = "getArtifact" => artifacts[cat[w].src.owner] # None
        /\ cat[w].pc = "reread" => GetArtifactSource(artifacts, sources, cat[w].id) # None

(***************************************************************************)
(* An artifact that has a digest is never rewritten, by whichever order of  *)
(* concurrent registrations (RegisterArtifactCore checks before, PutArtifact *)
(* again inside the store call).  All that ever changes in it are the node  *)
(* names that deriving its sources fills in; a restart empties MemoryStore. *)
(***************************************************************************)
DigestImmutable ==
    [][\A k \in ArtifactKey :
          (artifacts[k] # None /\ artifacts[k].digest # "") =>
              artifacts'[k] \in {artifacts[k], NodesFilled(artifacts[k]),
                                 AfterRestart(artifacts)[k]}]_catalogVars

\* What the request of w names is in the store.
Stored(w) ==
    LET req == cat[w]
    IN  IF req.op = "register"
        THEN /\ artifacts[req.key] # None
             /\ req.art.digest # "" => artifacts[req.key].digest = req.art.digest
             /\ DOMAIN initialSourcesForArtifact(req.key, req.art)
                   \subseteq ListArtifactSources(artifacts, sources, req.key)
        ELSE req.id \in ListArtifactSources(artifacts, sources, req.src.owner)

(***************************************************************************)
(* A client is told OK only when the store holds what it asked for: its     *)
(* digest and every source derived from its registration, under its own     *)
(* artifact (RegisterArtifactCore returns the error of PutArtifactSources), *)
(* or the source it added, updated or verified, whatever other requests     *)
(* wrote since its first check.                                             *)
(***************************************************************************)
AcknowledgedIsStored ==
    [][\A w \in CatalogWorkers :
          (cat[w].pc # "reply" /\ cat'[w].pc = "reply" /\ toGRPCError(cat'[w].err) = "OK") =>
              Stored(w)']_catalogVars

(***************************************************************************)
(* AlreadyExists is final, so a client need not retry: the artifact has     *)
(* another digest for good, or the source ID belongs to another artifact.   *)
(* It is never the answer to a repetition or to a failed store call         *)
(* (RegisterArtifactCore, AddSourceCore, toGRPCError).                      *)
(***************************************************************************)
AlreadyExistsIsFinal ==
    \A w \in CatalogWorkers :
        LET req == cat[w]
        IN  (req.pc = "reply" /\ toGRPCError(req.err) = "AlreadyExists") =>
                IF req.op = "register" THEN DigestConflict(artifacts[req.key], req.art)
                ELSE sources[req.id] # None /\ sources[req.id].owner # req.src.owner

(***************************************************************************)
(* A source row never disappears while the process runs, never changes      *)
(* owner, and changes at all only through a request for its own artifact,   *)
(* whatever source IDs clients send (PutArtifactSources refuses an ID owned *)
(* by another artifact and then writes nothing of the call).                *)
(***************************************************************************)
SourceOwnerFixed ==
    [][\A id \in SourceID :
          (sources[id] # None /\ sources' # AfterRestart(sources)) =>
              /\ sources'[id] # None
              /\ sources'[id].owner = sources[id].owner
              /\ sources'[id] # sources[id] =>
                    \E w \in CatalogWorkers :
                        /\ cat'[w] # cat[w]
                        /\ \/ cat[w].key = sources[id].owner
                           \/ cat[w].src # None /\ cat[w].src.owner = sources[id].owner]_catalogVars

(***************************************************************************)
(* Every stored source satisfies the validation its writer passed: its      *)
(* location is of the kind its backend serves (ValidateArtifactSource in    *)
(* AddSourceCore and initialSourcesForArtifact).  This is a property of the *)
(* memory store.  SQLite's conflict update keeps the backend of a row and   *)
(* replaces its location, which nothing validates together.                 *)
(***************************************************************************)
StoredSourcesValid ==
    \A id \in SourceID : sources[id] # None => ValidateArtifactSource(sources[id])

(***************************************************************************)
(* Verification never turns a deleted source back into a usable one:        *)
(* VerifySourceCore says "deleted sources are not verifiable".              *)
(***************************************************************************)
VerifyNeverRevives ==
    [][\A w \in CatalogWorkers :
          (cat[w].op = "verify" /\ PutSource(w) /\ sources[cat[w].id].state = "deleted") =>
              sources'[cat[w].id].state = "deleted"]_catalogVars

(***************************************************************************)
(* Registering an artifact again leaves the sources that are there as they  *)
(* are: RegisterArtifactCore says "same key + same digest = idempotent OK". *)
(***************************************************************************)
RegisterIdempotent ==
    [][\A w \in CatalogWorkers :
          RegisterPutSources(w) =>
              \A id \in SourceID : sources[id] # None => sources'[id] = sources[id]]_catalogVars
=============================================================================
