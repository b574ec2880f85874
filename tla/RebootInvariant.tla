-------------------------- MODULE RebootInvariant --------------------------
(***************************************************************************)
(* The inductive invariants behind the theorems of RebootProofs: what the  *)
(* operator and the agents know of each other through the Node objects.    *)
(***************************************************************************)
EXTENDS RebootCluster

(***************************************************************************)
(* For BeforeRebootBound.  markBeforeReboot writes labels it decided on at *)
(* its List; the bound must therefore hold for the labels that are there   *)
(* and the labels to come.                                                 *)
(***************************************************************************)
Marking == phase \in {"rebootWindow", "markBeforeReboot"}

\* The labels that are there, and those markBeforeReboot has decided on, fit
\* into maxRebootingNodes.
LabelInv ==
    /\ Cardinality(LabelledBefore) <= maxRebootingNodes
    /\ Marking => Cardinality(LabelledBefore \cup todo) <= maxRebootingNodes

-----------------------------------------------------------------------------
(* For OneRebootAtATime, RebootPermitted, LockSpec and CrashesStayLocal:   *)
(* what holds of a node whose agent only stops where its code stops.       *)

\* How far the agent is tells what its Node object says, and the reverse.
AgentKnows(n) ==
    LET o == node[n]
        needed == o.rebootNeeded = True
    IN  /\ pc[n] \in Reboot \cup {"off"} => o.okToReboot /\ needed
        /\ needed /\ ~o.okToReboot => pc[n] \in Waiting
        /\ needed => pc[n] \in Waiting \cup Reboot \cup {"off", "start", "reset"}
        /\ o.okToReboot /\ ~needed =>
               pc[n] \in {"start", "reset", "getNotOk", "watchNotOk"}
        /\ pc[n] = "watchOk" /\ event[n] => o.okToReboot /\ needed
        /\ pc[n] = "watchNotOk" /\ event[n] => ~o.okToReboot
        /\ rebootPending[n] => pc[n] = "sleep"

\* The labels go with the annotations.
LabelsAgree(n) ==
    LET o == node[n]
        needed == o.rebootNeeded = True
    IN  /\ o.beforeReboot => needed /\ ~o.okToReboot
        /\ o.afterReboot => ~needed /\ o.okToReboot

\* What the operator selected from its list is still so when it writes.
TodoCurrent(n) ==
    LET o == node[n]
        needed == o.rebootNeeded = True
    IN  n \in todo =>
            /\ phase = "checkAfterReboot" => o.afterReboot
            /\ phase = "markAfterReboot" =>
                   o.okToReboot /\ ~needed /\ ~o.afterReboot
            /\ phase = "checkBeforeReboot" => o.beforeReboot
            /\ Marking => needed /\ ~o.okToReboot /\ ~o.beforeReboot

NodeInv(n) == AgentKnows(n) /\ LabelsAgree(n) /\ TodoCurrent(n)

\* The nodes that have a place, as their Node objects have it.
Holders == {n \in Nodes : node[n].beforeReboot \/ stillRebooting(node[n])}

\* The nodes the operator knows to be in their after-reboot checks.
LabelledAfter == {n \in Nodes : node[n].afterReboot}

\* The places that nodes of S have taken are at most maxRebootingNodes, and
\* while markBeforeReboot has places to give, those, the places taken and the
\* nodes in their after-reboot checks are; nothing else takes a place.
PlacesInv(S) ==
    /\ Cardinality(Holders \cap S) <= maxRebootingNodes
    /\ Marking /\ todo # {} =>
           Cardinality((Holders \cup LabelledAfter \cup todo) \cap S) <= maxRebootingNodes

\* The inductive invariant of any set of nodes that do not crash, whatever
\* happens to the others.
RebootInvOf(S) == (\A n \in S : NodeInv(n)) /\ PlacesInv(S)

\* What operator and agents know of each other through the Node objects, if
\* none crashes: RebootInvOf all nodes.
RebootInv == RebootInvOf(Nodes)

-----------------------------------------------------------------------------
(* For OverlapBound: how many nodes markBeforeReboot can overlook.         *)

\* The nodes that are back and not yet labelled after-reboot.
Returned == {n \in Nodes : lockMap[n] = "rebooted"}

\* markAfterReboot's selector recognises them.
ReturnSeen(n) == lockMap[n] = "rebooted" => justRebooted(node[n])

\* Those that are back since markAfterReboot's List had a place at the List,
\* so with the nodes that have one now they are within the bound.
LateReturns ==
    /\ phase = "markAfterReboot" =>
           Cardinality((Returned \ todo) \cup Holders) <= maxRebootingNodes
    /\ phase = "checkBeforeReboot" =>
           Cardinality(Returned \cup Holders) <= maxRebootingNodes

\* The bound holds of the labels to come, too.
OverlapInv ==
    /\ \A n \in Nodes : ReturnSeen(n)
    /\ LateReturns
    /\ Cardinality(Unreleased) <= 2 * maxRebootingNodes
    /\ Marking /\ todo # {} => Cardinality(Unreleased \cup todo) <= 2 * maxRebootingNodes

-----------------------------------------------------------------------------
(* Clusters and behaviours without crashes.                                *)

NoCrashes == Budget["crash"] = 0

BudgetInv == budget["crash"] <= Budget["crash"]

=============================================================================
