------------------------------- MODULE Domain -------------------------------
(***************************************************************************)
(* The values of pkg/domain that the resolver's decisions read, and the     *)
(* validation predicates over them.                                         *)
(*                                                                          *)
(* Identities.  An artifact key is run/producerNode/producerAttempt/output; *)
(* an "attempt" below stands for the pair (producerNodeID, attemptID), so   *)
(* a terminal record is keyed by run and attempt.  Names are model values.  *)
(* SampleRunID (grouping metadata, never part of an identity) and every     *)
(* timestamp of artifacts and sources are left out: no decision reads them. *)
(***************************************************************************)
EXTENDS HTTPSources, Integers, FiniteSets, Sequences, Functions

CONSTANTS
    None,             \* "not found": the ok = false of a Go lookup
    Runs, Attempts, Outputs,
    Digests,          \* digests that are neither empty nor blank
    Nodes,            \* Kubernetes node names
    Paths,            \* nonempty node-local paths
    MaxInt64          \* the largest SizeBytes

ASSUME DomainAssumption ==
    /\ {"", " "} \cap Digests = {}
    /\ "" \notin Nodes \cup Paths \cup URIs
    /\ MaxInt64 \in Nat
    /\ IsFiniteSet(Runs) /\ IsFiniteSet(Attempts) /\ IsFiniteSet(Outputs)

ArtifactKey == [run : Runs, attempt : Attempts, output : Outputs]

NodeAttemptKey == [run : Runs, attempt : Attempts]

AttemptOf(k) == [run |-> k.run, attempt |-> k.attempt]

\* "" is an absent digest, " " one that strings.TrimSpace empties.
DigestValue == Digests \cup {"", " "}

Blank(d) == d \in {"", " "}

\* A location carries exactly one payload, or it is malformed.
Location ==
    [kind : {"node_local"}, node : Nodes \cup {""}, path : Paths \cup {""}]
        \cup [kind : {"http"}, uri : URIs]
        \cup [kind : {"malformed"}]

Artifact ==
    [digest : DigestValue, node : Nodes \cup {""}, uri : URIs \cup {""},
     locations : Seq(Location), size : (-MaxInt64 - 1) .. MaxInt64]

SourceState == {"pending", "ready", "stale", "unreachable", "deleted"}

BackendID == {"node-local-default", "legacy-http", "lab-http-cache", "other"}

Source ==
    [owner : ArtifactKey, backend : BackendID, digest : DigestValue,
     state : SourceState, loc : Location]

TerminalState == {"Succeeded", "Failed", "Canceled"}

ASSUME NoneAssumption ==
    /\ None \notin Artifact
    /\ None \notin Source
    /\ None \notin TerminalState
    /\ None \notin Nat

ConsumePolicy == {"SameNodeOnly", "SameNodeThenRemote", "RemoteOK"}

(***************************************************************************)
(* A source ID is a hash of artifact ID, backend ID and location            *)
(* fingerprint; the hash is taken to be injective, so the triple is the ID. *)
(* The fingerprint is the location's text; a node name holds no colon, so   *)
(* the text determines the location and the location stands for it.         *)
(***************************************************************************)
SourceID == ArtifactKey \X BackendID \X Location

BackendTypeForID(b) ==
    CASE b = "node-local-default" -> "node_local"
      [] b \in {"legacy-http", "lab-http-cache"} -> "http"
      [] OTHER -> "unknown"

ValidateArtifactLocation(l) ==
    /\ l.kind # "malformed"
    /\ l.kind = "http" => validateHTTPSource(l.uri)

ValidateArtifactForRegistration(a) ==
    /\ a.uri = "" \/ Parsed[a.uri].text = "blank" \/ validateLegacyArtifactURI(a.uri)
    /\ \A l \in Range(a.locations) : ValidateArtifactLocation(l)

ValidateArtifactSource(s) ==
    /\ s.loc.kind = BackendTypeForID(s.backend)
    /\ s.loc.kind = "http" => validateHTTPSource(s.loc.uri)

ValidateArtifactSourceForArtifact(k, a, s) ==
    /\ ValidateArtifactSource(s)
    /\ s.owner = k
    /\ ~Blank(s.digest)
    /\ s.digest = a.digest

validateCandidateSource(s) == s.loc.kind = "http" => validateCandidateURI(s.loc.uri)

(***************************************************************************)
(* The sources a registration derives from its artifact: one per location,  *)
(* one for the legacy URI; invalid ones are dropped and equal IDs collapse. *)
(* The ID is computed before an empty node name is filled in from the       *)
(* artifact's node.  The result is a function from source IDs to sources.   *)
(***************************************************************************)
DefaultBackend(l) ==
    IF l.kind = "node_local" THEN "node-local-default" ELSE "legacy-http"

BackfillNode(a, l) ==
    IF l.kind = "node_local" /\ l.node = "" THEN [l EXCEPT !.node = a.node] ELSE l

\* The artifact after its sources were derived: the node names are written through the
\* pointers its locations share.
NodesFilled(a) ==
    [a EXCEPT !.locations = [i \in DOMAIN a.locations |-> BackfillNode(a, a.locations[i])]]

DeclaredLocations(a) ==
    {l \in Range(a.locations) : l.kind # "malformed"}
        \cup (IF a.uri = "" THEN {} ELSE {[kind |-> "http", uri |-> a.uri]})

InitialSource(k, a, l) ==
    [owner |-> k, backend |-> DefaultBackend(l), digest |-> a.digest,
     state |-> "ready", loc |-> BackfillNode(a, l)]

initialSourcesForArtifact(k, a) ==
    LET kept == {l \in DeclaredLocations(a) :
                    ValidateArtifactSourceForArtifact(k, a, InitialSource(k, a, l))}
    IN  [id \in {<<k, DefaultBackend(l), l>> : l \in kept} |-> InitialSource(k, a, id[3])]

\* The availability RegisterArtifact answers, from the sources it derived.
Availability(rows) ==
    LET local  == \E id \in DOMAIN rows : rows[id].loc.kind = "node_local" /\ rows[id].loc.path # ""
        remote == \E id \in DOMAIN rows : rows[id].loc.kind = "http"
    IN  CASE local /\ remote  -> "BOTH"
          [] local /\ ~remote -> "LOCAL_ONLY"
          [] remote /\ ~local -> "REMOTE_ONLY"
          [] OTHER            -> "UNAVAILABLE"
=============================================================================
