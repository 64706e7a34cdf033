----------------------------- MODULE Resolution -----------------------------
(***************************************************************************)
(* The decision of ResolveHandoffCore (pkg/resolver/service.go), as         *)
(* operators over what the handler has read.  A binding b names an          *)
(* artifact key, a policy and an expected digest; target is the node the    *)
(* consumer runs on, "" while it is being planned; listed is the sequence   *)
(* of sources in the order the store lists them.  A loop that drops some of *)
(* them leaves the others at their positions, so a list is a function from  *)
(* positions to sources.  Messages, sizes and local paths are left out.  A  *)
(* candidate keeps its source, which gives the state and backend            *)
(* conditions; onNode is its condition scheduled_on_node.                   *)
(***************************************************************************)
EXTENDS Domain, FiniteSetsExt

Status == {"RESOLVED", "PENDING", "MISSING", "PRODUCER_FAILED", "POLICY_BLOCKED",
           "DIGEST_MISMATCH", "GC_EXPIRED", "UNAVAILABLE"}

Decision == {"local_reuse", "remote_fetch", "unavailable", "producer_failed"}

Mode == {"none", "local_reuse", "remote_fetch"}

Candidate ==
    [priority : {1, 2}, mode : Mode, source : Source, digest : Digests, onNode : Nodes \cup {""}]

ResolvedHandoff ==
    [status : Status, decision : Decision, retryable : BOOLEAN,
     place : {"none", "preferred_node", "required_node"}, node : Nodes \cup {""},
     plan : Mode, candidates : Seq(Candidate)]

Binding == [key : ArtifactKey, policy : ConsumePolicy, expected : DigestValue]

\* An answer without a plan.
NoPlan(status) ==
    [status |-> status, decision |-> "unavailable", retryable |-> FALSE,
     place |-> "none", node |-> "", plan |-> "none", candidates |-> <<>>]

Resolved(decision, place, node, plan, candidates) ==
    [status |-> "RESOLVED", decision |-> decision, retryable |-> FALSE,
     place |-> place, node |-> node, plan |-> plan, candidates |-> candidates]

-----------------------------------------------------------------------------
(* The answers that need no source.                                         *)

\* Mutant: the status is not one the clients know.
ResolveEvicted == NoPlan("GC_EVICTED")

ResolveExpired == NoPlan("GC_EXPIRED")

\* Mutant: every terminal producer without the artifact counts as failed.
UnregisteredIsFailure(terminal) ==
    IF terminal = None THEN [NoPlan("PENDING") EXCEPT !.retryable = TRUE]
    ELSE [NoPlan("PRODUCER_FAILED") EXCEPT !.decision = "producer_failed"]

ResolveUnregistered(terminal) ==
    CASE terminal = None        -> [NoPlan("PENDING") EXCEPT !.retryable = TRUE]
      [] terminal = "Succeeded" -> NoPlan("MISSING")
      [] OTHER                  -> [NoPlan("PRODUCER_FAILED") EXCEPT !.decision = "producer_failed"]

DigestMismatch(b, a) == b.expected # "" /\ b.expected # a.digest

-----------------------------------------------------------------------------
(* Candidates: the first usable local source, the first usable HTTP source. *)

\* Mutant: sources of any state are candidates.
EligibleInAnyState(k, a, listed) ==
    Restrict(listed, {i \in DOMAIN listed : /\ ValidateArtifactSourceForArtifact(k, a, listed[i])
                                            /\ validateCandidateSource(listed[i])})

candidateEligibleArtifactSources(k, a, listed) ==
    Restrict(listed, {i \in DOMAIN listed : /\ listed[i].state = "ready"
                                            /\ ValidateArtifactSourceForArtifact(k, a, listed[i])
                                            /\ validateCandidateSource(listed[i])})

firstReadyNodeLocalSource(srcs) ==
    LET found == {i \in DOMAIN srcs : srcs[i].loc.kind = "node_local" /\ srcs[i].loc.path # ""}
    IN  IF found = {} THEN None ELSE srcs[Min(found)]

firstReadyHTTPSource(srcs) ==
    LET found == {i \in DOMAIN srcs : srcs[i].loc.kind = "http"}
    IN  IF found = {} THEN None ELSE srcs[Min(found)]

expectedDigest(b, a) == IF b.expected = "" THEN a.digest ELSE b.expected

\* Mutant: the condition names the producing node instead of the source's.
LocalCandidatesOnProducer(b, a, source, target) ==
    IF source = None \/ Blank(expectedDigest(b, a)) THEN <<>>
    ELSE <<[priority |-> 1, mode |-> "local_reuse", source |-> source,
            digest |-> expectedDigest(b, a), onNode |-> IF target = "" THEN a.node ELSE ""]>>

\* Only a plan ties the candidate to the node of its source.
localCandidates(b, a, source, target) ==
    IF source = None \/ Blank(expectedDigest(b, a)) THEN <<>>
    ELSE <<[priority |-> 1, mode |-> "local_reuse", source |-> source,
            digest |-> expectedDigest(b, a),
            onNode |-> IF target = "" THEN source.loc.node ELSE ""]>>

\* Mutant: priorities count from zero.
RemoteCandidatesZeroBased(b, a, source, local) ==
    IF source = None \/ Blank(expectedDigest(b, a)) THEN <<>>
    ELSE <<[priority |-> Len(local), mode |-> "remote_fetch",
            source |-> source, digest |-> expectedDigest(b, a), onNode |-> ""]>>

remoteCandidates(b, a, source, local) ==
    IF source = None \/ Blank(expectedDigest(b, a)) THEN <<>>
    ELSE <<[priority |-> IF local = <<>> THEN 1 ELSE 2, mode |-> "remote_fetch",
            source |-> source, digest |-> expectedDigest(b, a), onNode |-> ""]>>

producerNodeName(a, source) ==
    IF source # None /\ source.loc.node # "" THEN source.loc.node ELSE a.node

-----------------------------------------------------------------------------
(* The consumer's node is known: check that it can run there.               *)

\* Mutant: SameNodeOnly falls through to the remote fetch.
ResolveOnAnyNode(policy, target, producer, local, remote) ==
    CASE target = producer /\ local # <<>> ->
            Resolved("local_reuse", "preferred_node", producer, "local_reuse", local \o remote)
      [] OTHER -> IF remote = <<>> THEN NoPlan("UNAVAILABLE")
                  ELSE Resolved("remote_fetch", "none", "", "remote_fetch", remote)

ResolveOnNode(policy, target, producer, local, remote) ==
    CASE target = producer /\ local # <<>> ->
            Resolved("local_reuse", "preferred_node", producer, "local_reuse", local \o remote)
      [] (target # producer \/ local = <<>>) /\ policy = "SameNodeOnly" ->
            [NoPlan("POLICY_BLOCKED") EXCEPT !.place = "required_node", !.node = producer]
      [] OTHER -> IF remote = <<>> THEN NoPlan("UNAVAILABLE")
                  ELSE Resolved("remote_fetch", "none", "", "remote_fetch", remote)

-----------------------------------------------------------------------------
(* The consumer is not scheduled yet: plan its placement.                   *)

PlanSameNodeOnly(producer, local) ==
    IF local = <<>> \/ producer = "" THEN NoPlan("UNAVAILABLE")
    ELSE Resolved("local_reuse", "required_node", producer, "local_reuse", local)

\* Mutant: the producer's node is only preferred although there is no fallback.
PlanPrefersWithoutFallback(producer, local, remote) ==
    CASE remote = <<>> /\ (local = <<>> \/ producer = "") -> NoPlan("UNAVAILABLE")
      [] remote # <<>> /\ (local = <<>> \/ producer = "") ->
            Resolved("remote_fetch", "none", "", "remote_fetch", remote)
      [] OTHER -> Resolved("local_reuse", "preferred_node", producer, "local_reuse", local \o remote)

PlanSameNodeThenRemote(producer, local, remote) ==
    CASE remote = <<>> /\ (local = <<>> \/ producer = "") -> NoPlan("UNAVAILABLE")
      [] remote # <<>> /\ (local = <<>> \/ producer = "") ->
            Resolved("remote_fetch", "none", "", "remote_fetch", remote)
      [] remote = <<>> /\ local # <<>> /\ producer # "" ->
            Resolved("local_reuse", "required_node", producer, "local_reuse", local)
      [] OTHER ->
            Resolved("remote_fetch", "preferred_node", producer, "remote_fetch", local \o remote)

PlanRemoteOK(local, remote) ==
    IF local \o remote = <<>> THEN NoPlan("UNAVAILABLE")
    ELSE Resolved("remote_fetch", "none", "",
                  IF remote # <<>> THEN "remote_fetch" ELSE "local_reuse", local \o remote)

\* The answer for a registered artifact that passed the digest check.
ResolveRegistered(b, target, a, listed) ==
    LET usable   == candidateEligibleArtifactSources(b.key, a, listed)
        local    == localCandidates(b, a, firstReadyNodeLocalSource(usable), target)
        remote   == remoteCandidates(b, a, firstReadyHTTPSource(usable), local)
        producer == producerNodeName(a, firstReadyNodeLocalSource(usable))
    IN  CASE target # "" -> ResolveOnNode(b.policy, target, producer, local, remote)
          [] target = "" /\ b.policy = "SameNodeOnly" -> PlanSameNodeOnly(producer, local)
          [] target = "" /\ b.policy = "SameNodeThenRemote" ->
                PlanSameNodeThenRemote(producer, local, remote)
          [] OTHER -> PlanRemoteOK(local, remote)

\* Without a stored source the resolver derives them from the artifact, in declared order.
effectiveArtifactSources(k, a, listed) ==
    LET derived == initialSourcesForArtifact(k, a)
        ids     == [i \in DOMAIN a.locations |->
                       <<k, DefaultBackend(a.locations[i]), a.locations[i]>>]
                   \o <<<<k, "legacy-http", [kind |-> "http", uri |-> a.uri]>>>>
    IN  IF listed # <<>> THEN listed
        ELSE [i \in {j \in DOMAIN ids : ids[j] \in DOMAIN derived} |-> derived[ids[i]]]
=============================================================================
