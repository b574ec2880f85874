------------------------- MODULE RebootHistoryProofs -------------------------
(***************************************************************************)
(* Theorems about RebootHistory, for every cluster, every two sets of      *)
(* annotations and any number of crashes: NoRebootLoop and                 *)
(* GrantAfterChecks of all nodes, CrashesStayLocal and UncordonAfterChecks *)
(* of those that have not crashed.                                         *)
(***************************************************************************)
EXTENDS RebootHistory, RebootProofs

-----------------------------------------------------------------------------
(* The inductive invariants.                                               *)

\* Where an agent that has used its permission is until that is taken away.
UsedUp == Reboot \cup {"off", "start", "reset", "getNotOk", "watchNotOk"}

\* An agent that set out does not get to wait for reboot-ok again before the
\* permission is gone, and then has no event of the old one left.
LoopInv ==
    \A n \in Nodes :
        /\ rides[n] \in {0, 1}
        /\ rides[n] = 1 /\ node[n].okToReboot =>
               pc[n] \in UsedUp /\ ~(pc[n] = "watchNotOk" /\ event[n])
        /\ rides[n] = 1 /\ ~node[n].okToReboot =>
               ~(pc[n] = "watchOk" /\ event[n])

\* While a node has the label, its before-reboot annotations are of this
\* round; what the operator listed because of them is decided by them; and
\* the operator does not begin a round for a node it permitted to reboot.
BeforeInv ==
    \A n \in Nodes :
        /\ node[n].okToReboot => BeforeAnnos \subseteq passedBefore[n]
        /\ node[n].beforeReboot => node[n].checks \cap BeforeAnnos \subseteq passedBefore[n]
        /\ phase = "checkBeforeReboot" /\ n \in todo => BeforeAnnos \subseteq passedBefore[n]
        /\ phase \in {"rebootWindow", "markBeforeReboot"} /\ n \in todo =>
               ~node[n].okToReboot

\* What operator and agents know of each other holds of the nodes that have
\* not crashed.
LocalInv == RebootInvOf(Nodes \ crashed)

\* While a node that has not crashed has the after-reboot label, its after-
\* reboot annotations are of this round; and a cordon left by an agent that is
\* no longer permitted to reboot is one that all the checks have passed for.
AfterInv ==
    \A n \in Nodes \ crashed :
        LET done == AfterAnnos \subseteq passedAfter[n]
        IN  /\ node[n].afterReboot => node[n].checks \cap AfterAnnos \subseteq passedAfter[n]
            /\ phase = "checkAfterReboot" /\ n \in todo => done
            /\ ~node[n].okToReboot /\ (node[n].agentMadeUnschedulable \/ makeSchedulable[n])
                  => done
            /\ pc[n] = "uncordon" => done

-----------------------------------------------------------------------------
(* What one step does to the history variables.                            *)

\* The system with its history is the system: history constrains nothing that
\* RebootCluster does.
LEMMA HistoryImplementsSpec == HSpec => Spec
  <1>1. HInit => Init
    BY DEF HInit
  <1>2. [HNext]_<<vars, historyVars>> => [Next]_vars
    BY DEF HNext
  <1>3. QED
    BY <1>1, <1>2, PTL DEF HSpec, Spec

\* The history of node n after a step.
LEMMA HistoryStep ==
    ASSUME HNext, NEW n \in Nodes
    PROVE  /\ rides'[n] = IF ~node[n].okToReboot /\ node'[n].okToReboot THEN 0
                          ELSE IF pc[n] # "readSpec" /\ pc'[n] = "readSpec"
                               THEN rides[n] + 1
                               ELSE rides[n]
           /\ passedBefore'[n] =
                  (IF ~node[n].beforeReboot /\ node'[n].beforeReboot
                   THEN {} ELSE passedBefore[n])
                    \cup (node'[n].checks \ node[n].checks)
           /\ passedAfter'[n] =
                  (IF ~node[n].okToReboot /\ node'[n].okToReboot
                   THEN {} ELSE passedAfter[n])
                    \cup (node'[n].checks \ node[n].checks)
  BY Zenon DEF HNext, CountRides, RecordChecks, rises, okToReboot, beforeReboot

\* Where a step of node n, a crash included, may take its agent.
LEMMA AgentMoves ==
    ASSUME TypeOK, NEW n \in Nodes, NodeStep(n)
    PROVE  /\ \A m \in Nodes \ {n} : /\ pc'[m] = pc[m]
                                     /\ makeSchedulable'[m] = makeSchedulable[m]
           /\ pc[n] # "readSpec" /\ pc'[n] = "readSpec" =>
                  \/ pc[n] = "getOk" /\ node[n].okToReboot
                  \/ pc[n] = "watchOk" /\ event[n]
           /\ pc[n] \in UsedUp /\ pc'[n] \notin UsedUp =>
                  \/ pc[n] = "getNotOk" /\ ~node[n].okToReboot
                  \/ pc[n] = "watchNotOk" /\ event[n]
           /\ pc'[n] = "uncordon" =>
                  \/ pc[n] = "uncordon"
                  \/ /\ makeSchedulable[n]
                     /\ \/ pc[n] = "getNotOk" /\ ~node[n].okToReboot
                        \/ pc[n] = "watchNotOk" /\ event[n]
           /\ makeSchedulable'[n] => makeSchedulable[n] \/ node[n].agentMadeUnschedulable
  <1>1. /\ pc \in [Nodes -> PC] /\ node[n] \in Node
        /\ makeSchedulable \in [Nodes -> BOOLEAN]
        /\ node[n].agentMadeUnschedulable \in BOOLEAN /\ node[n].okToReboot \in BOOLEAN
    BY DEF TypeOK, Node
  <1> USE <1>1 DEF goto, locals, machine, UsedUp, Reboot, Startup, Waiting
  <1>2. CASE CheckAnnotations(n)
    BY <1>2 DEF CheckAnnotations
  <1>3. CASE GetNotOkToReboot(n) \/ WatchNotOkToReboot(n)
    BY <1>3 DEF GetNotOkToReboot, WatchNotOkToReboot, afterNotOk
  <1>4. CASE GetOkToReboot(n) \/ WatchOkToReboot(n) \/ WatchOkFails(n)
    BY <1>4 DEF GetOkToReboot, WatchOkToReboot, WatchOkFails, shouldReboot
  <1>5. CASE \/ ResetAnnotations(n) \/ MakeSchedulable(n) \/ ClearMadeUnschedulable(n)
             \/ ReadUnschedulable(n) \/ MakeUnschedulable(n)
             \/ DrainPods(n) \/ RequestReboot(n) \/ RequestRebootFails(n)
    BY <1>5 DEF ResetAnnotations, MakeSchedulable, ClearMadeUnschedulable,
                ReadUnschedulable, MakeUnschedulable, DrainPods,
                RequestReboot, RequestRebootFails
  <1>6. CASE MarkRebootInProgress(n)
    BY <1>6 DEF MarkRebootInProgress
  <1>7. CASE updateStatusCallback(n) \/ UpdateInstalled(n) \/ UNCHANGED agentState
    BY <1>7 DEF updateStatusCallback, UpdateInstalled, agentState
  <1>8. CASE \/ AgentFails(n) \/ SleepDone(n) \/ AgentKilled(n) \/ MachineDown(n)
             \/ PowerLoss(n) \/ MachineUp(n)
    BY <1>8 DEF AgentFails, SleepDone, AgentKilled, MachineDown, PowerLoss, MachineUp,
                Restart
  <1>9. QED
    BY <1>2, <1>3, <1>4, <1>5, <1>6, <1>7, <1>8
    DEF NodeStep, AgentStep, StatusStep, WatchFault, MachineStep, AgentFault,
        UpdateStep, WantedCheck, LateCheck, AdminStep, agentProcess

\* What a step of node n writes into Node objects.
LEMMA NodeWrites ==
    ASSUME TypeOK, NEW n \in Nodes, NodeStep(n)
    PROVE  \A m \in Nodes :
             /\ node[m].checks \subseteq node'[m].checks
             /\ node'[m].agentMadeUnschedulable =>
                    node[m].agentMadeUnschedulable \/ (m = n /\ pc[n] = "mark")
  <1>1. node \in [Nodes -> Node] /\ node[n] \in Node
    BY DEF TypeOK
  <1> DEFINE good(o) == /\ node[n].checks \subseteq o.checks
                        /\ o.agentMadeUnschedulable =>
                               node[n].agentMadeUnschedulable \/ pc[n] = "mark"
  <1>2. SUFFICES UNCHANGED node \/ \E o : node' = [node EXCEPT ![n] = o] /\ good(o)
    BY <1>1
  <1>3. /\ good(noReboot(node[n])) /\ good(schedulable(node[n]))
        /\ good(notMadeByAgent(node[n])) /\ good(rebootNeeded(node[n]))
        /\ good(inProgress(node[n])) /\ good(unschedulable(node[n]))
        /\ pc[n] = "mark" => good(inProgressMade(node[n]))
    BY <1>1 DEF Node, noReboot, schedulable, notMadeByAgent, rebootNeeded, inProgress,
                inProgressMade, unschedulable
  <1>4. /\ \A a \in Annos : good(passCheck(node[n], a))
        /\ good([node[n] EXCEPT !.rebootPaused = ~@])
        /\ good([node[n] EXCEPT !.unschedulable = ~@])
    BY <1>1 DEF Node, passCheck
  <1> HIDE DEF good
  <1>5. CASE AgentStep(n) \/ StatusStep(n)
    BY <1>3, <1>5
    DEF AgentStep, StatusStep, agentProcess, updateStatusCallback, UpdateNodeRetry,
        CheckAnnotations, ResetAnnotations, GetNotOkToReboot, WatchNotOkToReboot,
        MakeSchedulable, ClearMadeUnschedulable, GetOkToReboot, WatchOkToReboot,
        ReadUnschedulable, MarkRebootInProgress, MakeUnschedulable, DrainPods,
        RequestReboot, goto
  <1>6. CASE WatchFault(n) \/ MachineStep(n) \/ AgentFault(n) \/ UpdateStep(n)
    BY <1>3, <1>6
    DEF WatchFault, MachineStep, AgentFault, UpdateStep, WatchOkFails, MachineDown,
        MachineUp, SleepDone, AgentFails, RequestRebootFails, AgentKilled, PowerLoss,
        UpdateInstalled, UpdateNodeRetry
  <1>7. CASE (\E a \in Annos : WantedCheck(n, a) \/ LateCheck(n, a)) \/ AdminStep(n)
    BY <1>1, <1>4, <1>7
    DEF WantedCheck, LateCheck, CheckPasses, LateCheckPasses, AdminStep, AdminPauses,
        AdminCordons
  <1>8. QED
    BY <1>5, <1>6, <1>7 DEF NodeStep

\* When the operator writes its part of the Node object of m: in which function
\* of a pass, and for a node that function listed.
OperatorWrites(m) ==
    LET o == node[m]
        p == node'[m]
    IN  /\ p.checks \subseteq o.checks
        /\ p.agentMadeUnschedulable = o.agentMadeUnschedulable
        /\ ~o.okToReboot /\ p.okToReboot => m \in todo /\ phase = "checkBeforeReboot"
        /\ o.okToReboot /\ ~p.okToReboot => m \in todo /\ phase = "checkAfterReboot"
        /\ ~o.beforeReboot /\ p.beforeReboot =>
               /\ m \in todo /\ phase = "markBeforeReboot"
               /\ p.checks \cap BeforeAnnos = {}
               /\ p.okToReboot = o.okToReboot
        /\ ~o.afterReboot /\ p.afterReboot =>
               m \in todo /\ phase = "markAfterReboot" /\ p.checks \cap AfterAnnos = {}

\* Why m is on the operator's list after a step: it was there before, or the
\* function that has just listed the nodes selected it.
OperatorListed(m) ==
    \/ m \in todo /\ phase' = phase
    \/ m \in todo /\ phase = "rebootWindow" /\ phase' = "markBeforeReboot"
    \/ phase' = "cleanupState"
    \/ phase' = "checkAfterReboot" /\ node[m].afterReboot /\ AfterAnnos \subseteq node[m].checks
    \/ phase' = "markAfterReboot"
    \/ phase' = "checkBeforeReboot" /\ node[m].beforeReboot
                                  /\ BeforeAnnos \subseteq node[m].checks
    \/ phase' = "rebootWindow" /\ ~node[m].okToReboot

\* One update of the operator.
LEMMA UpdateMoves ==
    ASSUME TypeOK, NEW n \in Nodes,
           \/ cleanupState(n) \/ checkAfterReboot(n) \/ markAfterReboot(n)
           \/ checkBeforeReboot(n) \/ markBeforeReboot(n)
    PROVE  /\ \A m \in Nodes : OperatorWrites(m)
           /\ phase' = phase /\ todo' \subseteq todo
  <1>1. node \in [Nodes -> Node] /\ node[n] \in Node
    BY DEF TypeOK
  <1>2. phase' = phase /\ todo' \subseteq todo /\ n \in todo
    BY DEF cleanupState, checkAfterReboot, markAfterReboot, checkBeforeReboot,
           markBeforeReboot, ForListed
  <1>3. \A m \in Nodes \ {n} : node'[m] = node[m]
    BY <1>1 DEF cleanupState, checkAfterReboot, markAfterReboot, checkBeforeReboot,
                markBeforeReboot, UpdateNodeRetry
  <1>4. OperatorWrites(n)
    <2>1. CASE cleanupState(n)
      BY <1>1, <2>1 DEF cleanupState, UpdateNodeRetry, cleanup, OperatorWrites, Node
    <2>2. CASE checkAfterReboot(n)
      BY <1>1, <2>2
      DEF checkAfterReboot, ForListed, UpdateNodeRetry, completeReboot, OperatorWrites, Node
    <2>3. CASE markAfterReboot(n)
      BY <1>1, <2>3
      DEF markAfterReboot, ForListed, UpdateNodeRetry, markAfter, OperatorWrites, Node
    <2>4. CASE checkBeforeReboot(n)
      BY <1>1, <2>4
      DEF checkBeforeReboot, ForListed, UpdateNodeRetry, permitReboot, OperatorWrites, Node
    <2>5. CASE markBeforeReboot(n)
      BY <1>1, <2>5
      DEF markBeforeReboot, ForListed, UpdateNodeRetry, markBefore, OperatorWrites, Node
    <2>6. QED
      BY <2>1, <2>2, <2>3, <2>4, <2>5
  <1>5. \A m \in Nodes \ {n} : OperatorWrites(m)
    BY <1>3 DEF OperatorWrites
  <1>6. QED
    BY <1>2, <1>4, <1>5

\* Every step of the operator and of the clock.
LEMMA OperatorMoves ==
    ASSUME TypeOK, OperatorStep \/ OperatorFault
    PROVE  /\ UNCHANGED <<pc, makeSchedulable>>
           /\ \A m \in Nodes : OperatorWrites(m)
           /\ \A m \in todo' : OperatorListed(m)
           /\ phase' # phase => UNCHANGED node
  <1>1. UNCHANGED <<pc, makeSchedulable>>
    BY DEF OperatorStep, OperatorFault, agentState, locals
  <1>2. CASE OperatorStep
    <2>1. ASSUME NEW n \in Nodes,
                 \/ cleanupState(n) \/ checkAfterReboot(n) \/ markAfterReboot(n)
                 \/ checkBeforeReboot(n) \/ markBeforeReboot(n)
          PROVE  /\ \A m \in Nodes : OperatorWrites(m)
                 /\ \A m \in todo' : OperatorListed(m)
                 /\ phase' = phase
      BY <2>1, UpdateMoves DEF OperatorListed
    <2>2. CASE \/ ListCleanupState \/ ListCheckAfterReboot \/ ListMarkAfterReboot
               \/ ListCheckBeforeReboot \/ CheckRebootWindow \/ ProcessDone
      BY <1>1, <2>2 DEF ListCleanupState, ListCheckAfterReboot, ListMarkAfterReboot,
                  ListCheckBeforeReboot, CheckRebootWindow,
                  InsideWindow, OutsideWindow, ProcessDone, List,
                  OperatorWrites, OperatorListed, hasAllAnnotations
    <2>3. CASE ListMarkBeforeReboot
      <3>1. PICK S \in ChosenNodes : List("checkBeforeReboot", "rebootWindow", S)
        BY <2>3 DEF ListMarkBeforeReboot
      <3>2. S \subseteq rebootableNodes
        BY DEF ChosenNodes
      <3>3. QED
        BY <1>1, <3>1, <3>2
        DEF List, OperatorWrites, OperatorListed, rebootableNodes, wantsReboot
    <2>4. QED
      BY <1>1, <1>2, <2>1, <2>2, <2>3 DEF OperatorStep, process
  <1>3. CASE OperatorFault
    BY <1>1, <1>3 DEF OperatorFault, ProcessFails, OperatorWrites,
                OperatorListed
  <1>4. QED
    BY <1>2, <1>3

-----------------------------------------------------------------------------
(* No reboot loop.                                                         *)

\* Every step keeps LoopInv, crashes included.
LEMMA LoopStep == TypeOK /\ LoopInv /\ [HNext]_<<vars, historyVars>> => LoopInv'
  <1> SUFFICES ASSUME TypeOK, LoopInv, [HNext]_<<vars, historyVars>>, NEW n \in Nodes
               PROVE  /\ rides'[n] \in {0, 1}
                      /\ rides'[n] = 1 /\ node'[n].okToReboot =>
                             pc'[n] \in UsedUp /\ ~(pc'[n] = "watchNotOk" /\ event'[n])
                      /\ rides'[n] = 1 /\ ~node'[n].okToReboot =>
                             ~(pc'[n] = "watchOk" /\ event'[n])
    BY DEF LoopInv
  <1>1. /\ rides[n] \in {0, 1}
        /\ rides[n] = 1 /\ node[n].okToReboot =>
               pc[n] \in UsedUp /\ ~(pc[n] = "watchNotOk" /\ event[n])
        /\ rides[n] = 1 /\ ~node[n].okToReboot => ~(pc[n] = "watchOk" /\ event[n])
    BY DEF LoopInv
  <1>2. CASE UNCHANGED <<vars, historyVars>>
    BY <1>1, <1>2 DEF vars, agentVars, historyVars
  <1>3. CASE HNext
    <2>1. rides'[n] = IF ~node[n].okToReboot /\ node'[n].okToReboot THEN 0
                      ELSE IF pc[n] # "readSpec" /\ pc'[n] = "readSpec"
                           THEN rides[n] + 1
                           ELSE rides[n]
      BY <1>3, HistoryStep
    <2>2. /\ event'[n] /\ pc'[n] = "watchOk" =>
                 (event[n] /\ pc[n] = "watchOk") \/ node'[n].okToReboot
          /\ event'[n] /\ pc'[n] = "watchNotOk" =>
                 (event[n] /\ pc[n] = "watchNotOk") \/ ~node'[n].okToReboot
      BY <1>3, EventStep DEF HNext, Next, watchMatches, shouldReboot
    <2>3. CASE UNCHANGED <<pc>>
      BY <1>1, <2>1, <2>2, <2>3 DEF UsedUp, Reboot
    <2>4. ASSUME NEW m \in Nodes, NodeStep(m)
          PROVE  /\ node'[n].okToReboot = node[n].okToReboot
                 /\ n # m => pc'[n] = pc[n]
                 /\ pc[n] # "readSpec" /\ pc'[n] = "readSpec" =>
                        \/ pc[n] = "getOk" /\ node[n].okToReboot
                        \/ pc[n] = "watchOk" /\ event[n]
                 /\ pc[n] \in UsedUp /\ pc'[n] \notin UsedUp =>
                        \/ pc[n] = "getNotOk" /\ ~node[n].okToReboot
                        \/ pc[n] = "watchNotOk" /\ event[n]
      <3>1. SameOperatorPart(node[n], node'[n])
        BY <2>4, NodeStepFrame
      <3>2. n # m => pc'[n] = pc[n]
        BY <2>4, AgentMoves
      <3>3. QED
        BY <2>4, <3>1, <3>2, AgentMoves DEF SameOperatorPart
    <2>5. CASE \E m \in Nodes : NodeStep(m)
      BY <1>1, <2>1, <2>2, <2>4, <2>5 DEF UsedUp, Reboot
    <2>6. CASE OperatorStep \/ OperatorFault
      BY <2>3, <2>6, OperatorMoves
    <2>7. QED
      BY <1>3, <2>5, <2>6 DEF HNext, Next
  <1>4. QED
    BY <1>2, <1>3

\* No reboot loop: an agent sets out to reboot at most once on a permission,
\* wherever agents are killed and machines lose power, for every cluster and
\* every number of crashes: NoRebootLoop, of Klocksmith.process.
THEOREM NoRebootLoopHolds == HSpec => []NoRebootLoop
  <1>1. HInit => LoopInv
    BY DEF HInit, LoopInv
  <1>2. LoopInv => NoRebootLoop
    BY DEF LoopInv, NoRebootLoop
  <1>3. QED
    BY <1>1, <1>2, LoopStep, HistoryImplementsSpec, TypeCorrect, PTL DEF HSpec

-----------------------------------------------------------------------------
(* Permissions and before-reboot checks.                                   *)

\* Every step keeps BeforeInv, crashes and late check results included.
LEMMA BeforeStep == TypeOK /\ BeforeInv /\ [HNext]_<<vars, historyVars>> => BeforeInv'
  <1> SUFFICES ASSUME TypeOK, BeforeInv, [HNext]_<<vars, historyVars>> PROVE BeforeInv'
    OBVIOUS
  <1>1. CASE UNCHANGED <<vars, historyVars>>
    BY <1>1 DEF BeforeInv, vars, operatorVars, historyVars
  <1>2. CASE HNext
    <2> SUFFICES ASSUME NEW n \in Nodes
                 PROVE  /\ node'[n].okToReboot => BeforeAnnos \subseteq passedBefore'[n]
                        /\ node'[n].beforeReboot =>
                               node'[n].checks \cap BeforeAnnos \subseteq passedBefore'[n]
                        /\ phase' = "checkBeforeReboot" /\ n \in todo' =>
                               BeforeAnnos \subseteq passedBefore'[n]
                        /\ phase' \in {"rebootWindow", "markBeforeReboot"} /\ n \in todo' =>
                               ~node'[n].okToReboot
      BY DEF BeforeInv
    <2>1. passedBefore'[n] = (IF ~node[n].beforeReboot /\ node'[n].beforeReboot
                              THEN {} ELSE passedBefore[n])
                               \cup (node'[n].checks \ node[n].checks)
      BY <1>2, HistoryStep
    <2>2. /\ node[n].okToReboot => BeforeAnnos \subseteq passedBefore[n]
          /\ node[n].beforeReboot => node[n].checks \cap BeforeAnnos \subseteq passedBefore[n]
          /\ phase = "checkBeforeReboot" /\ n \in todo => BeforeAnnos \subseteq passedBefore[n]
          /\ phase \in {"rebootWindow", "markBeforeReboot"} /\ n \in todo =>
                 ~node[n].okToReboot
      BY DEF BeforeInv
    <2>3. CASE \E m \in Nodes : NodeStep(m)
      <3>1. SameOperatorPart(node[n], node'[n]) /\ UNCHANGED <<phase, todo>>
        BY <2>3, NodeStepFrame
      <3>2. QED
        BY <2>1, <2>2, <3>1 DEF SameOperatorPart
    <2>4. CASE OperatorStep \/ OperatorFault
      <3>1. /\ OperatorWrites(n)
            /\ n \in todo' => OperatorListed(n)
            /\ phase' # phase => UNCHANGED node
        BY <2>4, OperatorMoves
      <3>2. CASE ~node[n].beforeReboot /\ node'[n].beforeReboot
        BY <2>1, <2>2, <3>1, <3>2 DEF OperatorWrites, OperatorListed
      <3>3. CASE node[n].beforeReboot \/ ~node'[n].beforeReboot
        <4>1. passedBefore'[n] = passedBefore[n]
          BY <2>1, <3>1, <3>3 DEF OperatorWrites
        <4>2. QED
          BY <2>2, <3>1, <3>3, <4>1 DEF OperatorWrites, OperatorListed
      <3>4. QED
        BY <3>2, <3>3
    <2>5. QED
      BY <1>2, <2>3, <2>4 DEF HNext, Next
  <1>3. QED
    BY <1>1, <1>2

\* A node is permitted to reboot only on before-reboot annotations written
\* since it was labelled, whatever crashes, fails or comes late:
\* GrantAfterChecks, of checkBeforeReboot and markBeforeReboot.
THEOREM GrantAfterChecksHolds == HSpec => []GrantAfterChecks
  <1>1. HInit => BeforeInv
    BY DEF HInit, Init, OperatorInit, FreshNode, BeforeInv
  <1>2. BeforeInv => GrantAfterChecks
    BY DEF BeforeInv, GrantAfterChecks
  <1>3. QED
    BY <1>1, <1>2, BeforeStep, HistoryImplementsSpec, TypeCorrect, PTL DEF HSpec

-----------------------------------------------------------------------------
(* Crashes.                                                                *)

\* Every step, a crash included, keeps what holds of the nodes that have not
\* crashed after it.
LEMMA LocalStep == TypeOK /\ LocalInv /\ [HNext]_<<vars, historyVars>> => LocalInv'
  <1> SUFFICES ASSUME TypeOK, LocalInv, [HNext]_<<vars, historyVars>> PROVE LocalInv'
    OBVIOUS
  <1>1. PICK S : S = Nodes \ crashed'
    OBVIOUS
  <1>2. /\ [Next]_vars
        /\ crashed \subseteq crashed'
        /\ \A n \in S : NodeStep(n) =>
               budget'["crash"] = budget["crash"] \/ pc'[n] = pc[n]
    <2>1. CASE HNext
      BY <1>1, <2>1 DEF HNext, RecordCrashes
    <2>2. CASE UNCHANGED <<vars, historyVars>>
      BY <2>2 DEF vars, historyVars
    <2>3. QED
      BY <2>1, <2>2
  <1>3. S \in SUBSET Nodes /\ RebootInvOf(S)
    BY <1>1, <1>2, RebootInvFewer DEF LocalInv
  <1>4. \A n \in S : NodeStep(n) => Harmless(n)
    BY <1>2, <1>3, HarmlessSteps
  <1>5. RebootInvOf(S)'
    BY <1>2, <1>3, <1>4, RebootInvStep
  <1>6. QED
    BY <1>1, <1>5 DEF LocalInv, RebootInvOf, PlacesInv

\* What operator and agents know of each other stays true of every node that
\* has not crashed, whatever crashes elsewhere: LocalInv.
THEOREM LocalInvariantHolds == HSpec => []LocalInv
  <1>1. HInit => LocalInv
    <2> SUFFICES ASSUME HInit PROVE LocalInv
      OBVIOUS
    <2>1. RebootInvOf(Nodes) /\ Nodes \ crashed = Nodes
      BY RebootInvInit DEF HInit, RebootInv
    <2>2. QED
      BY <2>1 DEF LocalInv
  <1>2. QED
    BY <1>1, LocalStep, HistoryImplementsSpec, TypeCorrect, PTL DEF HSpec

\* A crash harms only the node it strikes: of the others at most
\* maxRebootingNodes are out of service, each with its permission, for every
\* cluster and any number of crashes: CrashesStayLocal, of markBeforeReboot
\* and the agents together.
THEOREM CrashesStayLocalHolds == HSpec => []CrashesStayLocal
  <1>1. LocalInv => CrashesStayLocal
    <2> SUFFICES ASSUME LocalInv PROVE CrashesStayLocal
      OBVIOUS
    <2>1. InReboot \cap (Nodes \ crashed) = InReboot \ crashed
      BY DEF InReboot
    <2>2. QED
      BY <2>1, RebootInvImplies DEF LocalInv, CrashesStayLocal
  <1>2. QED
    BY <1>1, LocalInvariantHolds, PTL

-----------------------------------------------------------------------------
(* Uncordoning and after-reboot checks.                                    *)

\* Every step keeps AfterInv: the permission, which begins a round, comes only
\* while the agent waits for it, with no cordon of its own to undo, and leaves
\* only with the round.
LEMMA AfterStep ==
    TypeOK /\ LocalInv /\ AfterInv /\ [HNext]_<<vars, historyVars>> => AfterInv'
  <1> SUFFICES ASSUME TypeOK, LocalInv, AfterInv, [HNext]_<<vars, historyVars>>
               PROVE  AfterInv'
    OBVIOUS
  <1>1. CASE UNCHANGED <<vars, historyVars>>
    BY <1>1 DEF AfterInv, vars, operatorVars, agentVars, historyVars
  <1>2. CASE HNext
    <2> SUFFICES
          ASSUME NEW n \in Nodes, n \notin crashed'
          PROVE  /\ node'[n].afterReboot =>
                        node'[n].checks \cap AfterAnnos \subseteq passedAfter'[n]
                 /\ \/ phase' = "checkAfterReboot" /\ n \in todo'
                    \/ /\ ~node'[n].okToReboot
                       /\ node'[n].agentMadeUnschedulable \/ makeSchedulable'[n]
                    \/ pc'[n] = "uncordon"
                    => AfterAnnos \subseteq passedAfter'[n]
      BY DEF AfterInv
    <2>1. n \notin crashed
      BY <1>2 DEF HNext, RecordCrashes
    <2>2. passedAfter'[n] = (IF ~node[n].okToReboot /\ node'[n].okToReboot
                             THEN {} ELSE passedAfter[n])
                              \cup (node'[n].checks \ node[n].checks)
      BY <1>2, HistoryStep
    <2>3. /\ node[n].afterReboot => node[n].checks \cap AfterAnnos \subseteq passedAfter[n]
          /\ phase = "checkAfterReboot" /\ n \in todo => AfterAnnos \subseteq passedAfter[n]
          /\ ~node[n].okToReboot /\ (node[n].agentMadeUnschedulable \/ makeSchedulable[n])
                => AfterAnnos \subseteq passedAfter[n]
          /\ pc[n] = "uncordon" => AfterAnnos \subseteq passedAfter[n]
      BY <2>1 DEF AfterInv
    <2>4. AgentKnows(n) /\ LabelsAgree(n) /\ TodoCurrent(n)
      BY <2>1 DEF LocalInv, RebootInvOf, NodeInv
    <2>5. CASE \E m \in Nodes : NodeStep(m)
      <3>1. PICK m \in Nodes : NodeStep(m)
        BY <2>5
      <3>2. SameOperatorPart(node[n], node'[n]) /\ UNCHANGED <<phase, todo>>
        BY <3>1, NodeStepFrame
      <3>3. /\ node[n].checks \subseteq node'[n].checks
            /\ node'[n].agentMadeUnschedulable =>
                   node[n].agentMadeUnschedulable \/ pc[n] = "mark"
        BY <3>1, NodeWrites
      <3>4. /\ makeSchedulable'[n] => makeSchedulable[n] \/ node[n].agentMadeUnschedulable
            /\ pc'[n] = "uncordon" =>
                   \/ pc[n] = "uncordon"
                   \/ /\ makeSchedulable[n]
                      /\ \/ pc[n] = "getNotOk" /\ ~node[n].okToReboot
                         \/ pc[n] = "watchNotOk" /\ event[n]
        BY <3>1, AgentMoves
      <3>5. pc[n] = "mark" => node[n].okToReboot
        BY <2>4 DEF AgentKnows, Reboot
      <3>6. pc[n] = "watchNotOk" /\ event[n] => ~node[n].okToReboot
        BY <2>4 DEF AgentKnows
      <3>7. passedAfter'[n] = passedAfter[n] \cup (node'[n].checks \ node[n].checks)
        BY <2>2, <3>2 DEF SameOperatorPart
      <3>8. QED
        BY <2>3, <3>2, <3>3, <3>4, <3>5, <3>6, <3>7 DEF SameOperatorPart
    <2>6. CASE OperatorStep \/ OperatorFault
      <3>1. /\ OperatorWrites(n)
            /\ n \in todo' => OperatorListed(n)
            /\ phase' # phase => UNCHANGED node
            /\ UNCHANGED <<pc, makeSchedulable>>
        BY <2>6, OperatorMoves
      <3>2. CASE ~node[n].okToReboot /\ node'[n].okToReboot
        <4>1. n \in todo /\ phase = "checkBeforeReboot" /\ phase' = phase
          BY <3>1, <3>2 DEF OperatorWrites
        <4>2. node[n].beforeReboot /\ ~node[n].afterReboot
          BY <2>4, <4>1 DEF TodoCurrent, LabelsAgree
        <4>3. pc[n] \in Waiting
          BY <2>4, <3>2, <4>2 DEF AgentKnows, LabelsAgree
        <4>4. ~node'[n].afterReboot
          BY <3>1, <4>1, <4>2 DEF OperatorWrites
        <4>5. QED
          BY <3>1, <3>2, <4>1, <4>3, <4>4 DEF Waiting
      <3>3. CASE node[n].okToReboot \/ ~node'[n].okToReboot
        <4>1. passedAfter'[n] = passedAfter[n]
          BY <2>2, <3>1, <3>3 DEF OperatorWrites
        <4>2. QED
          BY <2>3, <3>1, <3>3, <4>1 DEF OperatorWrites, OperatorListed
      <3>4. QED
        BY <3>2, <3>3
    <2>7. QED
      BY <1>2, <2>5, <2>6 DEF HNext, Next
  <1>3. QED
    BY <1>1, <1>2

\* On a node that has not crashed, whatever happened to others, an agent makes
\* its node schedulable only on after-reboot annotations written since its
\* reboot was permitted: UncordonAfterChecks, of checkAfterReboot,
\* markAfterReboot and the agent's start.
THEOREM UncordonAfterChecksHolds == HSpec => []UncordonAfterChecks
  <1>1. HInit => AfterInv
    BY DEF HInit, Init, OperatorInit, AgentInit, FreshNode, AfterInv
  <1>2. AfterInv => UncordonAfterChecks
    BY DEF AfterInv, UncordonAfterChecks
  <1>3. QED
    BY <1>1, <1>2, AfterStep, LocalInvariantHolds, HistoryImplementsSpec, TypeCorrect, PTL
    DEF HSpec

=============================================================================
