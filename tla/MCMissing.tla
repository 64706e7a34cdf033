----------------------------- MODULE MCMissing ------------------------------
(* Handoff with a history of what producers registered before they ended.   *)
EXTENDS MCHandoff

VARIABLE registeredFirst    \* artifacts registered while their producer had no terminal

HistoryInit == HandoffInit /\ registeredFirst = {}

HistoryNext ==
    /\ HandoffNext
    /\ registeredFirst' =
           {k \in registeredFirst : artifacts'[k] # None} \cup
           {k \in ArtifactKey : /\ artifacts[k] = None /\ artifacts'[k] # None
                                /\ terminals[AttemptOf(k)] = None}

HistorySpec == HistoryInit /\ [][HistoryNext]_<<handoffVars, registeredFirst>>

(***************************************************************************)
(* MISSING is answered only for an output that its producer did not         *)
(* register before it ended: the README says "producer succeeded but        *)
(* artifact not registered".                                                *)
(***************************************************************************)
MissingMeansUnregistered ==
    \A w \in ResolveWorkers :
        Answered(w, "MISSING") => hr[w].binding.key \notin registeredFirst
=============================================================================
