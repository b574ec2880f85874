--------------------------- MODULE RebootCluster ---------------------------
(***************************************************************************)
(* The whole system: one update-operator, an update-agent on every node,   *)
(* the Node objects through which alone they talk to each other, and their *)
(* environment: update_engine, the pods that run the before- and after-    *)
(* reboot checks, the administrator, and the failures.                     *)
(***************************************************************************)
EXTENDS UpdateOperator, UpdateAgent

CONSTANT Budget    \* how often each kind of disturbance may happen

Kind == {"update",   \* update_engine installs an update
         "abort",    \* a reconciliation pass is given up halfway
         "error",    \* an agent's API call fails for good
         "refuse",   \* logind refuses a reboot
         "crash",    \* an agent is killed, or a machine loses power
         "late",     \* a check pod writes its annotation without the label
         "admin"}    \* the administrator pauses, cordons or uncordons

ASSUME BudgetAssumption == Budget \in [Kind -> Nat]

VARIABLE budget

vars == <<node, operatorVars, agentVars, budget>>

Spend(k) == budget[k] > 0 /\ budget' = [budget EXCEPT ![k] = @ - 1]

Init ==
    /\ node = [n \in Nodes |-> FreshNode]
    /\ OperatorInit
    /\ AgentInit
    /\ budget = Budget

-----------------------------------------------------------------------------
(* Everything but event, which WatchEvents sets in every step.             *)

agentState == <<pc, locals, machine>>

-----------------------------------------------------------------------------
(* The environment.                                                        *)

passCheck(o, a) == [o EXCEPT !.checks = @ \cup {a}]

\* Is check a the business of a node with these labels?
wanted(o, a) == \/ o.beforeReboot /\ a \in BeforeAnnos
                \/ o.afterReboot /\ a \in AfterAnnos

\* A check pod, scheduled by its label, finds the node in order.
CheckPasses(n, a) ==
    /\ wanted(node[n], a)
    /\ node' = [node EXCEPT ![n] = passCheck(@, a)]
    /\ UNCHANGED budget

\* A check pod that outlives its label writes the annotation all the same.
LateCheckPasses(n, a) ==
    /\ ~wanted(node[n], a)
    /\ Spend("late")
    /\ node' = [node EXCEPT ![n] = passCheck(@, a)]

\* The administrator sets or clears reboot-paused.
AdminPauses(n) ==
    /\ Spend("admin")
    /\ node' = [node EXCEPT ![n].rebootPaused = ~@]

\* The administrator cordons or uncordons the node.
AdminCordons(n) ==
    /\ Spend("admin")
    /\ node' = [node EXCEPT ![n].unschedulable = ~@]

-----------------------------------------------------------------------------
OperatorStep == process /\ UNCHANGED <<agentState, budget>>

OperatorFault == ProcessFails /\ Spend("abort") /\ UNCHANGED agentState

AgentStep(n) == agentProcess(n) /\ UNCHANGED <<operatorVars, budget>>

StatusStep(n) == updateStatusCallback(n) /\ UNCHANGED <<operatorVars, budget>>

WatchFault(n) == WatchOkFails(n) /\ UNCHANGED <<operatorVars, budget>>

MachineStep(n) ==
    /\ MachineDown(n) \/ MachineUp(n) \/ SleepDone(n)
    /\ UNCHANGED <<operatorVars, budget>>

AgentFault(n) ==
    /\ \/ AgentFails(n) /\ Spend("error")
       \/ RequestRebootFails(n) /\ Spend("refuse")
       \/ AgentKilled(n) /\ Spend("crash")
       \/ PowerLoss(n) /\ Spend("crash")
    /\ UNCHANGED operatorVars

UpdateStep(n) == UpdateInstalled(n) /\ Spend("update") /\ UNCHANGED operatorVars

AdminStep(n) ==
    /\ AdminPauses(n) \/ AdminCordons(n)
    /\ UNCHANGED <<operatorVars, agentState>>

WantedCheck(n, a) ==
    CheckPasses(n, a) /\ UNCHANGED <<operatorVars, agentState>>

LateCheck(n, a) ==
    LateCheckPasses(n, a) /\ UNCHANGED <<operatorVars, agentState>>

NodeStep(n) ==
    \/ AgentStep(n)
    \/ StatusStep(n)
    \/ WatchFault(n)
    \/ MachineStep(n)
    \/ AgentFault(n)
    \/ UpdateStep(n)
    \/ \E a \in Annos : WantedCheck(n, a) \/ LateCheck(n, a)
    \/ AdminStep(n)

Next ==
    /\ \/ OperatorStep
       \/ OperatorFault
       \/ \E n \in Nodes : NodeStep(n)
    /\ WatchEvents

Spec == Init /\ [][Next]_vars

(***************************************************************************)
(* Fairness.  wait.Until calls process again and again; an agent blocked   *)
(* on nothing but its own next request makes it; the status callback       *)
(* retries until it succeeds; the container runtime and systemd finish     *)
(* what they have begun; a check pod that is wanted passes in the end.     *)
(* Faults, the administrator and the reboot window promise nothing.        *)
(***************************************************************************)
Fairness ==
    /\ WF_vars(OperatorStep /\ WatchEvents)
    /\ \A n \in Nodes :
          /\ WF_vars(AgentStep(n) /\ WatchEvents)
          /\ WF_vars(StatusStep(n) /\ WatchEvents)
          /\ WF_vars(MachineStep(n) /\ WatchEvents)
          /\ \A a \in Annos : WF_vars(WantedCheck(n, a) /\ WatchEvents)

FairSpec == Spec /\ Fairness

\* With a reboot window, which recurs every day or week and outlasts many
\* passes: again and again a pass reads the clock inside the window.
WindowFairness ==
    []<><<InsideWindow>>_vars

FairWindowSpec == FairSpec /\ WindowFairness


-----------------------------------------------------------------------------
(* Type invariant: every variable keeps its type; in particular each       *)
(* annotation only ever has one of the values the selectors compare with.  *)

TypeOK ==
    /\ node \in [Nodes -> Node]
    /\ phase \in Phase
    /\ todo \subseteq Nodes
    /\ pc \in [Nodes -> PC]
    /\ event \in [Nodes -> BOOLEAN]
    /\ makeSchedulable \in [Nodes -> BOOLEAN]
    /\ alreadyUnschedulable \in [Nodes -> BOOLEAN]
    /\ rebootPending \in [Nodes -> BOOLEAN]
    /\ needReboot \in [Nodes -> BOOLEAN]
    /\ budget \in [Kind -> Nat]

-----------------------------------------------------------------------------
(* Safety.                                                                 *)

LabelledBefore == {n \in Nodes : node[n].beforeReboot}

\* At most maxRebootingNodes nodes carry the before-reboot label, whatever
\* fails and whenever a pass of the operator is cut short: markBeforeReboot
\* counts on a list that is out of date by the time it writes the labels.
BeforeRebootBound == Cardinality(LabelledBefore) <= maxRebootingNodes

\* Out of service for an update: being prepared for the reboot, permitted to
\* reboot, or, whatever its Node object says, draining, shut down or booting.
InReboot ==
    {n \in Nodes : \/ node[n].beforeReboot
                   \/ stillRebooting(node[n])
                   \/ pc[n] \in Reboot \cup {"off"}}

\* At most maxRebootingNodes nodes are out of service at once: the bound
\* markBeforeReboot enforces on its list of Node objects holds of the
\* machines, although the two sides only talk through annotations.
OneRebootAtATime == Cardinality(InReboot) <= maxRebootingNodes

\* An agent that drains its node or asks logind for a reboot still has the
\* permission it saw, and still needs it: nobody takes reboot-ok away between
\* waitForOkToReboot and the shutdown.
RebootPermitted == \A n \in Nodes : pc[n] \in Reboot => shouldReboot(node[n])

-----------------------------------------------------------------------------
(* The lock the operator and the agents implement together.                *)

\* Where a Node object is in the life of a reboot.
lockOf(o) ==
    IF o.beforeReboot THEN "checking"
    ELSE IF o.afterReboot THEN "verifying"
    ELSE IF stillRebooting(o) THEN "rebooting"
    ELSE IF o.okToReboot THEN "rebooted"
    ELSE "idle"

lockMap == [n \in Nodes |-> lockOf(node[n])]

Lock == INSTANCE RebootLock WITH lock <- lockMap

\* Every behaviour of the system is a behaviour of the reboot lock: a node
\* goes through reservation, permission, reboot, return and verification in
\* this order, and is reserved only when, of the places, one is free that no
\* node in preparation, in its reboot or in its after-reboot checks holds.
LockSpec == Lock!Spec

\* The nodes between the before-reboot label and the end of their after-
\* reboot checks.
Unreleased == {n \in Nodes : lockMap[n] # "idle"}

\* The lock as the documents have it: a node keeps its place until its after-
\* reboot checks have passed.  A node that returns between the Lists of
\* markAfterReboot and markBeforeReboot of one pass is counted by neither.
LockReleasedAfterChecks == Cardinality(Unreleased) <= maxRebootingNodes

\* What is left of it: the nodes markBeforeReboot overlooks have returned since
\* the List of markAfterReboot and had a place then, so they are at most
\* maxRebootingNodes beside as many that it counts or labels.
OverlapBound == Cardinality(Unreleased) <= 2 * maxRebootingNodes

-----------------------------------------------------------------------------
(* Liveness.                                                               *)

\* Every reboot is completed: again and again each machine has no update to
\* boot into, no permission and no label, and takes pods, however the passes,
\* agents and nodes get in each other's way and wherever an agent is killed.
RebootCompleted ==
    \A n \in Nodes :
        []<>(/\ ~needReboot[n]
             /\ lockOf(node[n]) = "idle"
             /\ ~node[n].unschedulable)

=============================================================================
