----------------------------- MODULE Placement ------------------------------
(***************************************************************************)
(* One consumer and the resolver's two answers to it: the plan the Spawner  *)
(* asks for before it creates the Pod (targetNodeName = ""), and the check  *)
(* on the node where the Pod landed.  Between the two nothing is written    *)
(* (but for node names filled in by the plan), so the answers can be        *)
(* compared; Handoff lets the store change.  The node is picked outside the *)
(* resolver, by the Kubernetes scheduler.                                   *)
(***************************************************************************)
EXTENDS Resolution

CONSTANT Situations    \* the registered artifacts and the sources stored for them

ASSUME PlacementAssumption ==
    Situations \subseteq [key : ArtifactKey, art : Artifact, listed : Seq(Source)]

VARIABLES
    binding, situation,   \* what the consumer asks for and what the store holds
    plan, answer,         \* the two answers as received, None before they are given
    landed                \* the node the consumer runs on

-----------------------------------------------------------------------------
(* The answer on the wire: a candidate comes without its source, whose      *)
(* location, state and backend are copied into it.                          *)

WireCandidate ==
    [priority : {1, 2}, mode : Mode, digest : Digests, loc : Location \cup {None},
     uri : URIs \cup {""}, ready : SourceState, backend : BackendID \cup {""},
     onNode : Nodes \cup {""}]

ResolveHandoffResponse ==
    [status : Status, decision : Decision, retryable : BOOLEAN,
     place : {"none", "preferred_node", "required_node"}, node : Nodes \cup {""},
     plan : Mode, candidates : Seq(WireCandidate)]

ASSUME AnswerAssumption == None \notin ResolveHandoffResponse

grpcLocationFromDomain(l) == IF l.kind = "malformed" THEN None ELSE l

\* Only a remote candidate has a URI and the condition backend_available.
grpcCandidate(c) ==
    [priority |-> c.priority, mode |-> c.mode, digest |-> c.digest,
     loc |-> grpcLocationFromDomain(c.source.loc),
     uri |-> IF c.mode = "remote_fetch" THEN c.source.loc.uri ELSE "",
     ready |-> c.source.state,
     backend |-> IF c.mode = "remote_fetch" THEN c.source.backend ELSE "",
     onNode |-> c.onNode]

grpcCandidatesFromDomain(cs) == [i \in DOMAIN cs |-> grpcCandidate(cs[i])]

-----------------------------------------------------------------------------

placementVars == <<binding, situation, plan, answer, landed>>

PlacementTypeOK ==
    /\ binding \in Binding
    /\ situation \in [key : ArtifactKey, art : Artifact, listed : Seq(Source)]
    /\ plan \in ResolveHandoffResponse \cup {None}
    /\ answer \in ResolveHandoffResponse \cup {None}
    /\ landed \in Nodes \cup {""}

PlacementInit ==
    /\ situation \in Situations
    /\ binding \in [key : {situation.key}, policy : ConsumePolicy, expected : DigestValue]
    /\ plan = None
    /\ answer = None
    /\ landed = ""

ResolveHandoff(target) ==
    LET a == situation.art
        r == IF DigestMismatch(binding, a) THEN NoPlan("DIGEST_MISMATCH")
             ELSE ResolveRegistered(binding, target, a,
                                    effectiveArtifactSources(binding.key, a, situation.listed))
    IN  [r EXCEPT !.candidates = grpcCandidatesFromDomain(@)]

\* Deriving sources fills node names in the row that MemoryStore shares with its
\* readers; SQLiteStore decodes a row of its own for each of them.
PlanHandoff ==
    /\ plan = None
    /\ plan' = ResolveHandoff("")
    /\ \/ UNCHANGED situation
       \/ /\ situation.listed = <<>> /\ ~DigestMismatch(binding, situation.art)
          /\ situation' = [situation EXCEPT !.art = NodesFilled(@)]
    /\ UNCHANGED <<binding, answer, landed>>

CheckHandoff(n) ==
    /\ plan # None
    /\ answer' = ResolveHandoff(n)
    /\ landed' = n
    /\ UNCHANGED <<binding, situation, plan>>

PlacementNext == PlanHandoff \/ \E n \in Nodes : CheckHandoff(n)

PlacementSpec == PlacementInit /\ [][PlacementNext]_placementVars

-----------------------------------------------------------------------------
(* Properties.                                                              *)

Planned == answer # None /\ plan.status = "RESOLVED"

(***************************************************************************)
(* A same-node plan can be carried out: a consumer that landed where the    *)
(* plan allows it is resolved, and on the node the plan names it reuses the *)
(* local copy.  Planning and post-scheduling mode are two separate switches *)
(* of ResolveHandoffCore that must agree.                                   *)
(***************************************************************************)
PlanHonoured ==
    (Planned /\ binding.policy # "RemoteOK") =>
        /\ (plan.place = "required_node" => landed = plan.node) => answer.status = "RESOLVED"
        /\ (plan.place # "none" /\ landed = plan.node) => answer.decision = "local_reuse"

(***************************************************************************)
(* SameNodeOnly never leads to a remote fetch, and a consumer is let through *)
(* on exactly the one node that a plan would have required.                 *)
(***************************************************************************)
SameNodeOnlyStaysLocal ==
    (answer # None /\ binding.policy = "SameNodeOnly") =>
        /\ "remote_fetch" \notin {plan.plan, plan.decision, answer.plan, answer.decision}
        /\ answer.status = "RESOLVED" <=> (plan.status = "RESOLVED" /\ landed = plan.node)

(***************************************************************************)
(* Whatever the answer, its candidates can be used as they are received:    *)
(* ready copies of the artifact's digest, a path or a URI whose host the    *)
(* running process allows, whatever was accepted when it was registered,    *)
(* listed in order of priority; a RESOLVED answer has one of the mode its   *)
(* plan names, any other answer has none; local reuse never points to       *)
(* another node than the one the consumer runs on.                          *)
(***************************************************************************)
CandidatesUsable ==
    \A r \in {plan, answer} \ {None} :
        /\ \A i \in DOMAIN r.candidates :
              LET c == r.candidates[i]
              IN  /\ c.ready = "ready"
                  /\ c.digest = situation.art.digest
                  /\ c.mode = "local_reuse" => c.loc.path # ""
                  /\ c.mode = "remote_fetch" =>
                        /\ c.loc.uri = c.uri
                        /\ Parsed[c.uri].text = "plain" /\ ~Parsed[c.uri].query
                        /\ Parsed[c.uri].host \notin PrivateHosts \cup {""}
                        /\ Parsed[c.uri].host \in AllowedHosts \/ (AllowedHosts = {} /\ AllowAny)
                  /\ \A j \in DOMAIN r.candidates : i < j => c.priority < r.candidates[j].priority
        /\ r.status = "RESOLVED" <=> r.plan \in {r.candidates[i].mode : i \in DOMAIN r.candidates}
        /\ r.status = "RESOLVED" <=> r.candidates # <<>>
        /\ (r = answer /\ r.decision = "local_reuse") =>
              r.candidates[1].loc.node \in {landed, ""}

(***************************************************************************)
(* A plan that offers a local copy says where the copy is: through the      *)
(* condition scheduled_on_node when the node is known, whether or not the   *)
(* plan places the consumer (RemoteOK falls back to a local copy without    *)
(* placing it), and never through a condition that the placement of the     *)
(* same answer contradicts.  A consumer that met the condition reuses the   *)
(* copy.                                                                    *)
(***************************************************************************)
PlannedCopyIsFound ==
    \A i \in (IF plan = None THEN {} ELSE DOMAIN plan.candidates) :
        LET c == plan.candidates[i]
        IN  c.mode = "local_reuse" =>
                /\ c.loc.node # "" => c.onNode = c.loc.node
                /\ (c.onNode # "" /\ plan.place # "none") => c.onNode = plan.node
                /\ (answer # None /\ c.onNode # "" /\ landed = c.onNode) =>
                      answer.decision = "local_reuse" /\ answer.candidates[1].loc = c.loc
=============================================================================
