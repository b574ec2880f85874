---------------------------- MODULE RebootProofs ----------------------------
(***************************************************************************)
(* Theorems about RebootCluster, for every set of nodes, of annotations,   *)
(* every maxRebootingNodes and every budget: first what holds whatever     *)
(* crashes (TypeOK, BeforeRebootBound), then what holds of the nodes that  *)
(* do not crash (RebootInvOf), and from it, if none does, RebootInv,       *)
(* OneRebootAtATime, RebootPermitted and the refinement of RebootLock.     *)
(***************************************************************************)
EXTENDS RebootInvariant, FiniteSetTheorems, TLAPS

-----------------------------------------------------------------------------
(* Type correctness.                                                       *)

\* What the operator writes is a Node object.
LEMMA OperatorWritesNode ==
    ASSUME NEW o \in Node
    PROVE  /\ cleanup(o) \in Node
           /\ completeReboot(o) \in Node
           /\ markAfter(o) \in Node
           /\ permitReboot(o) \in Node
           /\ markBefore(o) \in Node
  BY DEF Node, cleanup, completeReboot, markAfter, permitReboot, markBefore

\* What an agent writes is a Node object.
LEMMA AgentWritesNode ==
    ASSUME NEW o \in Node
    PROVE  /\ noReboot(o) \in Node
           /\ schedulable(o) \in Node
           /\ notMadeByAgent(o) \in Node
           /\ rebootNeeded(o) \in Node
           /\ inProgress(o) \in Node
           /\ inProgressMade(o) \in Node
           /\ unschedulable(o) \in Node
  BY DEF Node, AnnotationValue, Unset, True, False, noReboot, schedulable,
         notMadeByAgent, rebootNeeded, inProgress, inProgressMade, unschedulable

\* What the check pods and the administrator write is a Node object.
LEMMA EnvironmentWritesNode ==
    ASSUME NEW o \in Node
    PROVE  /\ \A a \in Annos : passCheck(o, a) \in Node
           /\ [o EXCEPT !.rebootPaused = ~@] \in Node
           /\ [o EXCEPT !.unschedulable = ~@] \in Node
  BY DEF Node, passCheck

\* Spending keeps a budget a function to Nat, and only takes from it.
LEMMA SpendType ==
    ASSUME budget \in [Kind -> Nat], NEW k \in Kind, Spend(k)
    PROVE  /\ budget' \in [Kind -> Nat]
           /\ \A j \in Kind : budget'[j] <= budget[j]
  BY DEF Spend

\* The steps of the operator, except what they do to event.
LEMMA OperatorStepType ==
    ASSUME TypeOK, OperatorStep \/ OperatorFault
    PROVE  /\ node' \in [Nodes -> Node]
           /\ phase' \in Phase
           /\ todo' \in SUBSET Nodes
           /\ budget' \in [Kind -> Nat]
  <1> USE DEF TypeOK
  <1>1. CASE OperatorStep
    <2> SUFFICES ASSUME process, UNCHANGED budget
                 PROVE  /\ node' \in [Nodes -> Node]
                        /\ phase' \in Phase
                        /\ todo' \in SUBSET Nodes
      BY <1>1 DEF OperatorStep
    <2>1. CASE \/ ListCleanupState \/ ListCheckAfterReboot \/ ListMarkAfterReboot
               \/ ListCheckBeforeReboot
      BY <2>1 DEF ListCleanupState, ListCheckAfterReboot, ListMarkAfterReboot,
                  ListCheckBeforeReboot, List, Phase
    <2>2. CASE ListMarkBeforeReboot
      <3>1. ChosenNodes \subseteq SUBSET Nodes
        BY DEF ChosenNodes, rebootableNodes
      <3>2. QED
        BY <2>2, <3>1 DEF ListMarkBeforeReboot, List, Phase
    <2>3. CASE CheckRebootWindow \/ ProcessDone
      BY <2>3 DEF CheckRebootWindow, InsideWindow, OutsideWindow, ProcessDone, Phase
    <2>4. ASSUME NEW n \in Nodes, cleanupState(n) \/ checkAfterReboot(n)
                                  \/ markAfterReboot(n) \/ checkBeforeReboot(n)
                                  \/ markBeforeReboot(n)
          PROVE  /\ node' \in [Nodes -> Node]
                 /\ UNCHANGED phase
                 /\ todo' \in SUBSET Nodes
      <3>1. node[n] \in Node
        OBVIOUS
      <3>2. QED
        BY <2>4, <3>1, OperatorWritesNode
        DEF cleanupState, checkAfterReboot, markAfterReboot, checkBeforeReboot,
            markBeforeReboot, ForListed, UpdateNodeRetry
    <2>5. QED
      BY <2>1, <2>2, <2>3, <2>4 DEF process
  <1>2. CASE OperatorFault
    <2>1. budget' \in [Kind -> Nat]
      BY <1>2, SpendType DEF OperatorFault, Kind
    <2>2. QED
      BY <1>2, <2>1 DEF OperatorFault, ProcessFails, Phase
  <1>3. QED
    BY <1>1, <1>2

\* The steps of an agent and its machine.
LEMMA AgentStepType ==
    ASSUME TypeOK, NEW n \in Nodes,
           \/ agentProcess(n) \/ updateStatusCallback(n) \/ WatchOkFails(n)
           \/ MachineDown(n) \/ MachineUp(n) \/ SleepDone(n) \/ AgentFails(n)
           \/ RequestRebootFails(n) \/ AgentKilled(n) \/ PowerLoss(n)
           \/ UpdateInstalled(n)
    PROVE  /\ node' \in [Nodes -> Node]
           /\ pc' \in [Nodes -> PC]
           /\ makeSchedulable' \in [Nodes -> BOOLEAN]
           /\ alreadyUnschedulable' \in [Nodes -> BOOLEAN]
           /\ rebootPending' \in [Nodes -> BOOLEAN]
           /\ needReboot' \in [Nodes -> BOOLEAN]
  <1> USE DEF TypeOK, PC, Startup, Waiting, Reboot, locals, machine, goto
  <1>1. node[n] \in Node /\ node[n].agentMadeUnschedulable \in BOOLEAN
                         /\ node[n].unschedulable \in BOOLEAN
    BY DEF Node
  <1>2. CASE \/ CheckAnnotations(n) \/ GetNotOkToReboot(n) \/ WatchNotOkToReboot(n)
             \/ GetOkToReboot(n) \/ WatchOkToReboot(n) \/ WatchOkFails(n)
             \/ ReadUnschedulable(n) \/ DrainPods(n) \/ RequestReboot(n)
             \/ RequestRebootFails(n)
    BY <1>1, <1>2
    DEF CheckAnnotations, GetNotOkToReboot, WatchNotOkToReboot, afterNotOk,
        GetOkToReboot, WatchOkToReboot, WatchOkFails, ReadUnschedulable,
        DrainPods, RequestReboot, RequestRebootFails
  <1>3. CASE \/ ResetAnnotations(n) \/ MakeSchedulable(n) \/ ClearMadeUnschedulable(n)
             \/ MarkRebootInProgress(n) \/ MakeUnschedulable(n)
             \/ updateStatusCallback(n)
    BY <1>1, <1>3, AgentWritesNode
    DEF ResetAnnotations, MakeSchedulable, ClearMadeUnschedulable,
        MarkRebootInProgress, MakeUnschedulable, updateStatusCallback,
        UpdateNodeRetry
  <1>4. CASE \/ MachineDown(n) \/ MachineUp(n) \/ SleepDone(n)
             \/ AgentKilled(n) \/ PowerLoss(n) \/ UpdateInstalled(n)
    BY <1>4 DEF MachineDown, MachineUp, SleepDone, AgentKilled, PowerLoss,
                UpdateInstalled, Restart
  <1>5. CASE AgentFails(n)
    <2>1. node' \in [Nodes -> Node]
      BY <1>1, <1>5, AgentWritesNode DEF AgentFails, UpdateNodeRetry
    <2>2. QED
      BY <1>5, <2>1 DEF AgentFails, Restart
  <1>6. QED
    BY <1>2, <1>3, <1>4, <1>5 DEF agentProcess

\* The steps of the checks and of the administrator.
LEMMA EnvironmentStepType ==
    ASSUME TypeOK, NEW n \in Nodes,
           (\E a \in Annos : WantedCheck(n, a) \/ LateCheck(n, a)) \/ AdminStep(n)
    PROVE  /\ node' \in [Nodes -> Node]
           /\ budget' \in [Kind -> Nat]
  <1>1. node \in [Nodes -> Node] /\ node[n] \in Node /\ budget \in [Kind -> Nat]
    BY DEF TypeOK
  <1>2. {"late", "admin"} \subseteq Kind
    BY DEF Kind
  <1>3. CASE \E a \in Annos : WantedCheck(n, a) \/ LateCheck(n, a)
    BY <1>1, <1>2, <1>3, EnvironmentWritesNode, SpendType
    DEF WantedCheck, LateCheck, CheckPasses, LateCheckPasses
  <1>4. CASE AdminStep(n)
    BY <1>1, <1>2, <1>4, EnvironmentWritesNode, SpendType
    DEF AdminStep, AdminPauses, AdminCordons
  <1>5. QED
    BY <1>3, <1>4

\* Every step keeps every variable's type.
LEMMA TypeStep == TypeOK /\ [Next]_vars => TypeOK'
  <1> SUFFICES ASSUME TypeOK, [Next]_vars PROVE TypeOK'
    OBVIOUS
  <1>1. CASE UNCHANGED vars
    BY <1>1 DEF TypeOK, vars, operatorVars, agentVars
  <1>2. CASE Next
    <2>1. event' \in [Nodes -> BOOLEAN]
      BY <1>2 DEF Next, WatchEvents
    <2>2. CASE OperatorStep \/ OperatorFault
      BY <2>1, <2>2, OperatorStepType
      DEF TypeOK, OperatorStep, OperatorFault, agentState, locals, machine
    <2>3. ASSUME NEW n \in Nodes, NodeStep(n)
          PROVE  TypeOK'
      <3>1. CASE AgentStep(n) \/ StatusStep(n) \/ WatchFault(n) \/ MachineStep(n)
        BY <2>1, <3>1, AgentStepType
        DEF TypeOK, AgentStep, StatusStep, WatchFault, MachineStep, operatorVars
      <3>2. CASE AgentFault(n) \/ UpdateStep(n)
        <4>1. budget' \in [Kind -> Nat]
          BY <3>2, SpendType DEF AgentFault, UpdateStep, Kind, TypeOK
        <4>2. QED
          BY <2>1, <3>2, <4>1, AgentStepType
          DEF TypeOK, AgentFault, UpdateStep, operatorVars
      <3>3. CASE (\E a \in Annos : WantedCheck(n, a) \/ LateCheck(n, a)) \/ AdminStep(n)
        BY <2>1, <3>3, EnvironmentStepType
        DEF TypeOK, WantedCheck, LateCheck, AdminStep, operatorVars,
            agentState, locals, machine
      <3>4. QED
        BY <2>3, <3>1, <3>2, <3>3 DEF NodeStep
    <2>4. QED
      BY <1>2, <2>2, <2>3 DEF Next
  <1>3. QED
    BY <1>1, <1>2

\* Type correctness: update-operator, the update-agents and their environment
\* keep every variable's type, TypeOK.
THEOREM TypeCorrect == Spec => []TypeOK
  <1>1. Init => TypeOK
    <2>1. FreshNode \in Node
      BY DEF FreshNode, Node, AnnotationValue, Unset, True, False
    <2>2. QED
      BY <2>1, BudgetAssumption, WindowAssumption
      DEF Init, TypeOK, OperatorInit, AgentInit, Phase, PC, Startup, Waiting, Reboot
  <1>2. QED
    BY <1>1, TypeStep, PTL DEF Spec

-----------------------------------------------------------------------------
(* Who writes what: the operator owns the labels and the permission.       *)

SameOperatorPart(o, p) ==
    /\ p.beforeReboot = o.beforeReboot
    /\ p.afterReboot = o.afterReboot
    /\ p.okToReboot = o.okToReboot

\* Nobody but the operator writes its part of a Node object.
LEMMA OthersWriteElsewhere ==
    ASSUME NEW o \in Node
    PROVE  /\ SameOperatorPart(o, noReboot(o))
           /\ SameOperatorPart(o, schedulable(o))
           /\ SameOperatorPart(o, notMadeByAgent(o))
           /\ SameOperatorPart(o, rebootNeeded(o))
           /\ SameOperatorPart(o, inProgress(o))
           /\ SameOperatorPart(o, inProgressMade(o))
           /\ SameOperatorPart(o, unschedulable(o))
           /\ \A a \in Annos : SameOperatorPart(o, passCheck(o, a))
           /\ SameOperatorPart(o, [o EXCEPT !.rebootPaused = ~@])
           /\ SameOperatorPart(o, [o EXCEPT !.unschedulable = ~@])
  BY DEF SameOperatorPart, Node, noReboot, schedulable, notMadeByAgent,
         rebootNeeded, inProgress, inProgressMade, unschedulable, passCheck

\* What an agent, its machine, a check pod or the administrator does leaves
\* the operator's state and the operator's part of every Node object alone.
LEMMA NodeStepFrame ==
    ASSUME TypeOK, NEW n \in Nodes, NodeStep(n)
    PROVE  /\ UNCHANGED <<phase, todo>>
           /\ \A m \in Nodes : SameOperatorPart(node[m], node'[m])
  <1>1. node \in [Nodes -> Node] /\ node[n] \in Node
    BY DEF TypeOK
  <1>2. UNCHANGED <<phase, todo>>
    BY DEF NodeStep, AgentStep, StatusStep, WatchFault, MachineStep, AgentFault,
           UpdateStep, WantedCheck, LateCheck, AdminStep, operatorVars
  <1>3. SUFFICES \/ UNCHANGED node
                 \/ \E o : /\ node' = [node EXCEPT ![n] = o]
                           /\ SameOperatorPart(node[n], o)
    BY <1>1, <1>2 DEF SameOperatorPart
  <1>4. CASE AgentStep(n) \/ StatusStep(n)
    BY <1>1, <1>4, OthersWriteElsewhere
    DEF AgentStep, StatusStep, agentProcess, updateStatusCallback, UpdateNodeRetry,
        CheckAnnotations, ResetAnnotations, GetNotOkToReboot, WatchNotOkToReboot,
        MakeSchedulable, ClearMadeUnschedulable, GetOkToReboot, WatchOkToReboot,
        ReadUnschedulable, MarkRebootInProgress, MakeUnschedulable, DrainPods,
        RequestReboot
  <1>5. CASE WatchFault(n) \/ MachineStep(n) \/ AgentFault(n) \/ UpdateStep(n)
    BY <1>1, <1>5, OthersWriteElsewhere
    DEF WatchFault, MachineStep, AgentFault, UpdateStep, WatchOkFails, MachineDown,
        MachineUp, SleepDone, AgentFails, RequestRebootFails, AgentKilled, PowerLoss,
        UpdateInstalled, Restart, UpdateNodeRetry
  <1>6. CASE (\E a \in Annos : WantedCheck(n, a) \/ LateCheck(n, a)) \/ AdminStep(n)
    BY <1>1, <1>6, OthersWriteElsewhere
    DEF WantedCheck, LateCheck, CheckPasses, LateCheckPasses, AdminStep, AdminPauses,
        AdminCordons
  <1>7. QED
    BY <1>4, <1>5, <1>6 DEF NodeStep

-----------------------------------------------------------------------------
(* The bound on the before-reboot labels.                                  *)

\* Sets of nodes are finite, and a subset has at most as many elements.
LEMMA NodesCardinality ==
    ASSUME NEW T \in SUBSET Nodes, NEW S \in SUBSET T
    PROVE  /\ IsFiniteSet(T) /\ Cardinality(T) \in Nat
           /\ IsFiniteSet(S) /\ Cardinality(S) \in Nat
           /\ Cardinality(S) <= Cardinality(T)
  <1>1. IsFiniteSet(T)
    BY NodesAssumption, FS_Subset
  <1>2. IsFiniteSet(S) /\ Cardinality(S) <= Cardinality(T)
    BY <1>1, FS_Subset
  <1>3. QED
    BY <1>1, <1>2, FS_CardinalityType

\* A union of two sets of nodes has at most the elements of both.
LEMMA UnionBound ==
    ASSUME NEW S \in SUBSET Nodes, NEW T \in SUBSET Nodes
    PROVE  Cardinality(S \cup T) <= Cardinality(S) + Cardinality(T)
  <1> DEFINE I == S \cap T
  <1>1. I \in SUBSET Nodes /\ S \cap T = I
    OBVIOUS
  <1> HIDE DEF I
  <1>2. IsFiniteSet(S) /\ IsFiniteSet(T) /\ IsFiniteSet(I)
    <2>1. \A U \in SUBSET Nodes : IsFiniteSet(U)
      BY NodesAssumption, FS_Subset
    <2>2. QED
      BY <1>1, <2>1
  <1>3. Cardinality(S) \in Nat /\ Cardinality(T) \in Nat /\ Cardinality(I) \in Nat
    BY <1>2, FS_CardinalityType
  <1>4. Cardinality(S \cup T) = Cardinality(S) + Cardinality(T) - Cardinality(S \cap T)
    BY <1>2, FS_Union
  <1>5. Cardinality(S \cup T) = Cardinality(S) + Cardinality(T) - Cardinality(I)
    BY <1>1, <1>4, Zenon
  <1>6. QED
    BY <1>3, <1>5

\* markBeforeReboot chooses no more nodes than there is room for beside the
\* nodes it counted.
LEMMA ChosenFit ==
    ASSUME NEW S \in ChosenNodes,
           NEW H \in SUBSET Nodes,
           Cardinality(H) <= rebootingNodesCount,
           rebootingNodesCount \in Nat
    PROVE  /\ S \subseteq rebootableNodes
           /\ S # {} => Cardinality(H \cup S) <= maxRebootingNodes
  <1>1. S \subseteq rebootableNodes
    BY DEF ChosenNodes
  <1>2. S \in SUBSET Nodes
    BY <1>1 DEF rebootableNodes
  <1>3. Cardinality(H) \in Nat /\ Cardinality(S) \in Nat /\ Cardinality(H \cup S) \in Nat
    BY <1>2, NodesCardinality
  <1>4. CASE maxRebootingNodes - rebootingNodesCount <= 0
    <2>1. S = {}
      BY <1>4 DEF ChosenNodes
    <2>2. QED
      BY <1>1, <2>1
  <1>5. CASE ~(maxRebootingNodes - rebootingNodesCount <= 0)
    <2>1. Cardinality(S) <= maxRebootingNodes - rebootingNodesCount
      BY <1>5 DEF ChosenNodes
    <2>2. Cardinality(H \cup S) <= Cardinality(H) + Cardinality(S)
      BY <1>2, UnionBound
    <2>3. QED
      BY <1>1, <1>3, <2>1, <2>2, MaxAssumption
  <1>6. QED
    BY <1>4, <1>5

\* The count of markBeforeReboot is a number, and counts at least the labels.
LEMMA CountType ==
    /\ rebootingNodesCount \in Nat
    /\ Cardinality(LabelledBefore) <= rebootingNodesCount
  <1> DEFINE A == {n \in Nodes : stillRebooting(node[n])}
             C == {n \in Nodes : node[n].afterReboot}
  <1>1. A \in SUBSET Nodes /\ LabelledBefore \in SUBSET Nodes /\ C \in SUBSET Nodes
    BY DEF LabelledBefore
  <1>2. /\ Cardinality(A) \in Nat
        /\ Cardinality(LabelledBefore) \in Nat
        /\ Cardinality(C) \in Nat
    <2> HIDE DEF A, C
    <2> QED BY <1>1, NodesCardinality
  <1>3. rebootingNodesCount
          = Cardinality(A) + Cardinality(LabelledBefore) + Cardinality(C)
    BY DEF rebootingNodesCount, LabelledBefore
  <1> HIDE DEF A, C
  <1>4. QED
    BY <1>2, <1>3

\* Labels only disappear, except by markBeforeReboot, which only labels nodes
\* it had chosen.
LEMMA LabelInvStep == TypeOK /\ LabelInv /\ [Next]_vars => LabelInv'
  <1> SUFFICES ASSUME TypeOK, LabelInv, [Next]_vars PROVE LabelInv'
    OBVIOUS
  <1>1. /\ node \in [Nodes -> Node] /\ todo \in SUBSET Nodes
        /\ LabelledBefore \in SUBSET Nodes /\ (LabelledBefore \cup todo) \in SUBSET Nodes
    BY DEF TypeOK, LabelledBefore
  <1>2. \A S \in SUBSET Nodes : Cardinality(S) \in Nat
    BY NodesCardinality
  \* The two ways to preserve the invariant.
  <1>3. ASSUME LabelledBefore' \subseteq LabelledBefore, ~Marking'
        PROVE  LabelInv'
    <2>1. Cardinality(LabelledBefore') <= Cardinality(LabelledBefore)
      BY <1>1, <1>3, NodesCardinality
    <2>2. Cardinality(LabelledBefore') \in Nat /\ Cardinality(LabelledBefore) \in Nat
      BY <1>1, <1>2, <1>3
    <2>3. QED
      BY <1>3, <2>1, <2>2, MaxAssumption DEF LabelInv
  <1>4. ASSUME Marking, (LabelledBefore \cup todo)' \subseteq (LabelledBefore \cup todo)
        PROVE  LabelInv'
    <2> DEFINE L == LabelledBefore \cup todo
               Lp == (LabelledBefore \cup todo)'
    <2>1. LabelledBefore' \in SUBSET Lp /\ Lp \in SUBSET L /\ L \in SUBSET Nodes
          /\ LabelledBefore' \in SUBSET L
      BY <1>1, <1>4
    <2>2. Cardinality(L) <= maxRebootingNodes
      BY <1>4 DEF LabelInv
    <2> HIDE DEF L
    <2>3. Cardinality(Lp) <= Cardinality(L) /\ Cardinality(LabelledBefore') <= Cardinality(L)
          /\ Cardinality(L) \in Nat /\ Cardinality(Lp) \in Nat
          /\ Cardinality(LabelledBefore') \in Nat
      BY <2>1, NodesCardinality
    <2>4. QED
      BY <2>2, <2>3, MaxAssumption DEF LabelInv
  <1>5. ASSUME UNCHANGED <<phase, todo>>, LabelledBefore' \subseteq LabelledBefore
        PROVE  LabelInv'
    BY <1>3, <1>4, <1>5 DEF Marking
  <1>6. CASE UNCHANGED vars
    BY <1>5, <1>6 DEF vars, operatorVars, LabelledBefore
  <1>7. ASSUME NEW n \in Nodes, NodeStep(n)
        PROVE  LabelInv'
    BY <1>5, <1>7, NodeStepFrame DEF SameOperatorPart, LabelledBefore
  <1>8. CASE OperatorFault
    BY <1>3, <1>5, <1>8
    DEF OperatorFault, ProcessFails, Marking, LabelledBefore
  <1>9. CASE OperatorStep
    <2>1. CASE \/ ListCleanupState \/ ListCheckAfterReboot \/ ListMarkAfterReboot
               \/ ListCheckBeforeReboot \/ ProcessDone
      BY <1>3, <2>1
      DEF ListCleanupState, ListCheckAfterReboot, ListMarkAfterReboot,
          ListCheckBeforeReboot, ProcessDone, List, Marking, LabelledBefore
    <2>2. CASE ListMarkBeforeReboot
      <3>1. PICK S \in ChosenNodes : List("checkBeforeReboot", "rebootWindow", S)
        BY <2>2 DEF ListMarkBeforeReboot
      <3>2. Cardinality(LabelledBefore \cup S) <= maxRebootingNodes
        <4>1. CASE S = {}
          BY <4>1 DEF LabelInv
        <4>2. CASE S # {}
          BY <1>1, <4>2, CountType, ChosenFit
        <4>3. QED
          BY <4>1, <4>2
      <3>3. LabelledBefore' = LabelledBefore /\ todo' = S
        BY <3>1 DEF List, LabelledBefore
      <3>4. QED
        BY <3>2, <3>3 DEF LabelInv
    <2>3. CASE CheckRebootWindow
      BY <1>3, <1>5, <1>4, <2>3 DEF CheckRebootWindow,
                                    InsideWindow, OutsideWindow, Marking, LabelledBefore
    <2>4. ASSUME NEW n \in Nodes,
                 \/ cleanupState(n) \/ checkAfterReboot(n)
                 \/ markAfterReboot(n) \/ checkBeforeReboot(n)
          PROVE  LabelInv'
      <3>1. phase' = phase /\ ~Marking
        BY <2>4 DEF cleanupState, checkAfterReboot, markAfterReboot,
                    checkBeforeReboot, ForListed, Marking
      <3>2. LabelledBefore' \subseteq LabelledBefore
        BY <1>1, <2>4
        DEF cleanupState, checkAfterReboot, markAfterReboot, checkBeforeReboot,
            UpdateNodeRetry, cleanup, completeReboot, markAfter, permitReboot,
            LabelledBefore, Node
      <3>3. QED
        BY <1>3, <3>1, <3>2 DEF Marking
    <2>5. ASSUME NEW n \in Nodes, markBeforeReboot(n)
          PROVE  LabelInv'
      <3>1. Marking /\ n \in todo /\ todo' = todo \ {n}
        BY <2>5 DEF markBeforeReboot, ForListed, Marking
      <3>2. LabelledBefore' \subseteq LabelledBefore \cup {n}
        BY <1>1, <2>5 DEF markBeforeReboot, UpdateNodeRetry, LabelledBefore
      <3>3. QED
        BY <1>4, <3>1, <3>2
    <2>6. QED
      BY <1>9, <2>1, <2>2, <2>3, <2>4, <2>5 DEF OperatorStep, process
  <1>10. QED
    BY <1>6, <1>7, <1>8, <1>9 DEF Next

\* At most maxRebootingNodes nodes carry the before-reboot label, whatever
\* crashes, for every number of nodes and every maxRebootingNodes:
\* BeforeRebootBound, of markBeforeReboot, from LabelInv.
THEOREM BeforeRebootBounded == Spec => []BeforeRebootBound
  <1>1. Init => LabelInv
    <2> SUFFICES ASSUME Init PROVE LabelInv
      OBVIOUS
    <2>1. LabelledBefore = {} /\ ~Marking
      BY DEF Init, OperatorInit, FreshNode, LabelledBefore, Marking
    <2>2. QED
      BY <2>1, FS_EmptySet, MaxAssumption DEF LabelInv
  <1>2. LabelInv => BeforeRebootBound
    BY DEF LabelInv, BeforeRebootBound
  <1>3. QED
    BY <1>1, <1>2, TypeCorrect, LabelInvStep, PTL DEF Spec

-----------------------------------------------------------------------------
(* AgentKnows and LabelsAgree.                                             *)

\* A watch that has met its condition met it before, and is still the same
\* watch, or meets it now.
LEMMA EventStep ==
    ASSUME WatchEvents, NEW n \in Nodes, event'[n]
    PROVE  (event[n] /\ pc'[n] = pc[n]) \/ watchMatches(pc'[n], node'[n])
  BY DEF WatchEvents

\* A step that touches neither the agent of n nor the two annotations it
\* waits for leaves what the agent knows true.
LEMMA AgentKnowsFrame ==
    ASSUME TypeOK, NEW n \in Nodes, AgentKnows(n), WatchEvents,
           pc'[n] = pc[n],
           rebootPending'[n] = rebootPending[n],
           node'[n].okToReboot = node[n].okToReboot,
           node'[n].rebootNeeded = node[n].rebootNeeded
    PROVE  AgentKnows(n)'
  <1>1. event'[n] => event[n] \/ watchMatches(pc[n], node'[n])
    BY EventStep
  <1>2. QED
    BY <1>1 DEF AgentKnows, watchMatches, shouldReboot

\* The operator permits the reboot of a node whose agent waits for it.
LEMMA AgentKnowsPermit ==
    ASSUME TypeOK, NEW n \in Nodes, AgentKnows(n), WatchEvents,
           pc'[n] = pc[n],
           rebootPending'[n] = rebootPending[n],
           node[n].rebootNeeded = True, ~node[n].okToReboot,
           node'[n].okToReboot, node'[n].rebootNeeded = True
    PROVE  AgentKnows(n)'
  <1>1. pc[n] \in Waiting
    BY DEF AgentKnows
  <1>2. QED
    BY <1>1 DEF AgentKnows, Waiting

\* The operator takes the permission back from a node whose agent is back.
LEMMA AgentKnowsComplete ==
    ASSUME TypeOK, NEW n \in Nodes, AgentKnows(n), WatchEvents,
           pc'[n] = pc[n],
           rebootPending'[n] = rebootPending[n],
           node[n].rebootNeeded # True, node[n].okToReboot,
           ~node'[n].okToReboot, node'[n].rebootNeeded # True
    PROVE  AgentKnows(n)'
  <1>1. pc[n] \in {"start", "reset", "getNotOk", "watchNotOk"}
    BY DEF AgentKnows
  <1>2. QED
    BY <1>1 DEF AgentKnows, Reboot

\* The agent's own steps.
LEMMA AgentKnowsAgent ==
    ASSUME TypeOK, NEW n \in Nodes, AgentKnows(n), LabelsAgree(n), WatchEvents,
           \/ agentProcess(n) \/ updateStatusCallback(n) \/ WatchOkFails(n)
           \/ MachineDown(n) \/ MachineUp(n) \/ SleepDone(n) \/ AgentFails(n)
           \/ RequestRebootFails(n) \/ UpdateInstalled(n)
    PROVE  AgentKnows(n)' /\ LabelsAgree(n)'
  <1>1. /\ node \in [Nodes -> Node] /\ pc \in [Nodes -> PC] /\ node[n] \in Node
        /\ rebootPending \in [Nodes -> BOOLEAN]
    BY DEF TypeOK
  <1>2. event'[n] => (event[n] /\ pc'[n] = pc[n]) \/ watchMatches(pc'[n], node'[n])
    BY EventStep
  <1> USE <1>1, <1>2
          DEF AgentKnows, LabelsAgree, watchMatches, shouldReboot, goto, locals, machine,
              Startup, Waiting, Reboot, True, False
  <1>3. CASE CheckAnnotations(n) \/ GetNotOkToReboot(n) \/ WatchNotOkToReboot(n)
    BY <1>3 DEF CheckAnnotations, GetNotOkToReboot, WatchNotOkToReboot, afterNotOk
  <1>4. CASE GetOkToReboot(n) \/ WatchOkToReboot(n) \/ WatchOkFails(n)
    BY <1>4 DEF GetOkToReboot, WatchOkToReboot, WatchOkFails
  <1>5. CASE \/ ReadUnschedulable(n) \/ DrainPods(n) \/ RequestReboot(n)
             \/ RequestRebootFails(n)
    BY <1>5 DEF ReadUnschedulable, DrainPods, RequestReboot, RequestRebootFails
  <1>6. CASE ResetAnnotations(n)
    BY <1>6 DEF ResetAnnotations, UpdateNodeRetry, noReboot, Node
  <1>7. CASE MakeSchedulable(n) \/ ClearMadeUnschedulable(n)
    BY <1>7 DEF MakeSchedulable, ClearMadeUnschedulable, UpdateNodeRetry, schedulable,
                notMadeByAgent, Node
  <1>8. CASE MarkRebootInProgress(n) \/ MakeUnschedulable(n)
    <2>1. CASE MarkRebootInProgress(n)
      <3>1. /\ pc[n] = "mark" /\ pc'[n] \in {"drain", "cordon"}
            /\ rebootPending'[n] = rebootPending[n]
        BY <2>1 DEF MarkRebootInProgress, PC
      <3>2. node'[n] = inProgress(node[n]) \/ node'[n] = inProgressMade(node[n])
        BY <2>1 DEF MarkRebootInProgress, UpdateNodeRetry
      <3>3. node'[n].rebootNeeded = node[n].rebootNeeded
        BY <3>2 DEF inProgress, inProgressMade, Node
      <3>4. SameOperatorPart(node[n], node'[n])
        BY <3>2, OthersWriteElsewhere
      <3>5. QED
        BY <3>1, <3>3, <3>4 DEF SameOperatorPart
    <2>2. CASE MakeUnschedulable(n)
      BY <2>2 DEF MakeUnschedulable, UpdateNodeRetry, unschedulable, Node
    <2>3. QED
      BY <1>8, <2>1, <2>2
  <1>9. CASE updateStatusCallback(n)
    BY <1>9 DEF updateStatusCallback, UpdateNodeRetry, rebootNeeded, Node
  <1>10. CASE MachineDown(n) \/ MachineUp(n) \/ SleepDone(n) \/ AgentFails(n)
    BY <1>10 DEF MachineDown, MachineUp, SleepDone, AgentFails, Restart,
                 UpdateNodeRetry, notMadeByAgent, Node
  <1>11. CASE UpdateInstalled(n)
    BY <1>11 DEF UpdateInstalled
  <1>12. QED
    BY <1>3, <1>4, <1>5, <1>6, <1>7, <1>8, <1>9, <1>10, <1>11 DEF agentProcess

\* The steps of node n, but for the two kinds of crash.
CrashFreeStep(n) ==
    \/ AgentStep(n) \/ StatusStep(n) \/ WatchFault(n) \/ MachineStep(n)
    \/ AgentFails(n) \/ RequestRebootFails(n) \/ UpdateStep(n)
    \/ (\E a \in Annos : WantedCheck(n, a) \/ LateCheck(n, a))
    \/ AdminStep(n)

\* The steps that do not crash node n: killing an agent that has made no
\* request yet is none.
Harmless(n) == CrashFreeStep(n) \/ (AgentKilled(n) /\ pc'[n] = pc[n])

\* A step of node n that spends nothing on crashes, or leaves the agent where
\* it is, is harmless.
LEMMA HarmlessSteps ==
    ASSUME TypeOK, NEW n \in Nodes, NodeStep(n),
           budget'["crash"] = budget["crash"] \/ pc'[n] = pc[n]
    PROVE  Harmless(n)
  <1>1. /\ budget \in [Kind -> Nat] /\ "crash" \in Kind
        /\ pc \in [Nodes -> PC]
    BY DEF TypeOK, Kind
  <1>2. Spend("crash") => budget'["crash"] # budget["crash"]
    BY <1>1 DEF Spend
  <1>3. PowerLoss(n) => pc'[n] # pc[n]
    BY <1>1 DEF PowerLoss, Restart
  <1>4. QED
    BY <1>2, <1>3 DEF NodeStep, Harmless, CrashFreeStep, AgentFault

\* No budget grows.
LEMMA BudgetStep ==
    ASSUME TypeOK, BudgetInv, [Next]_vars
    PROVE  budget'["crash"] <= budget["crash"] /\ BudgetInv'
  <1>1. /\ budget \in [Kind -> Nat] /\ Budget \in [Kind -> Nat]
        /\ "crash" \in Kind /\ budget["crash"] <= Budget["crash"]
    BY BudgetAssumption DEF TypeOK, BudgetInv, Kind
  <1>2. UNCHANGED budget \/ \E k \in Kind : Spend(k)
    BY DEF Next, vars, OperatorStep, OperatorFault, NodeStep, AgentStep,
           StatusStep, WatchFault, MachineStep, AgentFault, UpdateStep, WantedCheck,
           LateCheck, CheckPasses, LateCheckPasses, AdminStep, AdminPauses,
           AdminCordons, Kind
  <1>3. budget'["crash"] <= budget["crash"] /\ budget'["crash"] \in Nat
    BY <1>1, <1>2, SpendType
  <1>4. QED
    BY <1>1, <1>3 DEF BudgetInv

\* Where there is nothing to spend on crashes, every step is harmless.
LEMMA NothingToSpend ==
    ASSUME NoCrashes, TypeOK, BudgetInv, [Next]_vars, NEW n \in Nodes, NodeStep(n)
    PROVE  Harmless(n)
  <1>1. BudgetInv' /\ TypeOK'
    BY BudgetStep, TypeStep
  <1>2. /\ budget["crash"] \in Nat /\ budget["crash"] <= 0
        /\ budget'["crash"] \in Nat /\ budget'["crash"] <= 0
    BY <1>1 DEF TypeOK, BudgetInv, NoCrashes, Kind
  <1>3. budget'["crash"] = budget["crash"]
    BY <1>2
  <1>4. QED
    BY <1>3, HarmlessSteps

\* What a step of node n does to reboot-needed, and that it does nothing to
\* the other nodes.
LEMMA CrashFreeFrame ==
    ASSUME TypeOK, NEW n \in Nodes, CrashFreeStep(n)
    PROVE  /\ \A m \in Nodes \ {n} : /\ node'[m] = node[m]
                                     /\ pc'[m] = pc[m]
                                     /\ rebootPending'[m] = rebootPending[m]
           /\ \/ node'[n].rebootNeeded = node[n].rebootNeeded
              \/ pc[n] = "reset" /\ node'[n].rebootNeeded # True
              \/ pc[n] \in Waiting \cup Reboot /\ node'[n].rebootNeeded = True
  <1>1. /\ node \in [Nodes -> Node] /\ pc \in [Nodes -> PC] /\ node[n] \in Node
        /\ rebootPending \in [Nodes -> BOOLEAN]
    BY DEF TypeOK
  <1> USE <1>1 DEF goto, locals, machine
  <1>2. CASE AgentStep(n) /\ ~ResetAnnotations(n)
    <2> DEFINE same(o) == o.rebootNeeded = node[n].rebootNeeded
    <2>1. /\ same(schedulable(node[n])) /\ same(notMadeByAgent(node[n]))
          /\ same(inProgress(node[n])) /\ same(inProgressMade(node[n]))
          /\ same(unschedulable(node[n]))
      BY DEF schedulable, notMadeByAgent, inProgress, inProgressMade, unschedulable, Node
    <2> HIDE DEF same
    <2>2. UNCHANGED node \/ \E o : node' = [node EXCEPT ![n] = o] /\ same(o)
      BY <1>2, <2>1
      DEF AgentStep, agentProcess, CheckAnnotations, GetNotOkToReboot,
          WatchNotOkToReboot, MakeSchedulable, ClearMadeUnschedulable, GetOkToReboot,
          WatchOkToReboot, ReadUnschedulable, MarkRebootInProgress, MakeUnschedulable,
          DrainPods, RequestReboot, UpdateNodeRetry
    <2>3. \A m \in Nodes \ {n} : /\ pc'[m] = pc[m]
                                 /\ rebootPending'[m] = rebootPending[m]
      BY <1>2
      DEF AgentStep, agentProcess, CheckAnnotations, GetNotOkToReboot,
          WatchNotOkToReboot, MakeSchedulable, ClearMadeUnschedulable, GetOkToReboot,
          WatchOkToReboot, ReadUnschedulable, MarkRebootInProgress, MakeUnschedulable,
          DrainPods, RequestReboot
    <2>4. QED
      BY <2>2, <2>3 DEF same
  <1>3. CASE ResetAnnotations(n)
    BY <1>3 DEF ResetAnnotations, UpdateNodeRetry, noReboot, Node, True, False
  <1>4. CASE StatusStep(n)
    BY <1>4 DEF StatusStep, updateStatusCallback, UpdateNodeRetry, rebootNeeded, Node
  <1>5. CASE WatchFault(n) \/ MachineStep(n) \/ AgentFails(n)
             \/ RequestRebootFails(n) \/ UpdateStep(n)
    BY <1>5 DEF WatchFault, MachineStep, UpdateStep, WatchOkFails, MachineDown, MachineUp,
                SleepDone, AgentFails, RequestRebootFails, UpdateInstalled, Restart,
                UpdateNodeRetry, notMadeByAgent, Node
  <1>6. CASE (\E a \in Annos : WantedCheck(n, a) \/ LateCheck(n, a)) \/ AdminStep(n)
    <2>1. \E o : node' = [node EXCEPT ![n] = o] /\ o.rebootNeeded = node[n].rebootNeeded
      BY <1>6 DEF WantedCheck, LateCheck, CheckPasses, LateCheckPasses, passCheck,
                  AdminStep, AdminPauses, AdminCordons, Node
    <2>2. UNCHANGED <<pc, rebootPending>>
      BY <1>6 DEF WantedCheck, LateCheck, AdminStep, agentState
    <2>3. QED
      BY <2>1, <2>2
  <1>7. QED
    BY <1>2, <1>3, <1>4, <1>5, <1>6 DEF CrashFreeStep

\* What happens to a node, a crash included, is nothing to another.
LEMMA OtherNodes ==
    ASSUME TypeOK, NEW m \in Nodes, NodeStep(m), NEW n \in Nodes \ {m}
    PROVE  node'[n] = node[n] /\ pc'[n] = pc[n] /\ rebootPending'[n] = rebootPending[n]
  <1>1. CASE CrashFreeStep(m)
    BY <1>1, CrashFreeFrame
  <1>2. CASE AgentKilled(m) \/ PowerLoss(m)
    BY <1>2 DEF AgentKilled, PowerLoss, Restart, machine, TypeOK
  <1>3. QED
    BY <1>1, <1>2 DEF NodeStep, CrashFreeStep, AgentFault

\* A step that leaves a node, its agent and the operator alone.
LEMMA NodeInvFrame ==
    ASSUME TypeOK, NEW n \in Nodes, NodeInv(n), WatchEvents,
           pc'[n] = pc[n], rebootPending'[n] = rebootPending[n],
           SameOperatorPart(node[n], node'[n]),
           node'[n].rebootNeeded = node[n].rebootNeeded,
           UNCHANGED <<phase, todo>>
    PROVE  NodeInv(n)' /\ (n \in Holders' => n \in Holders)
  <1>1. AgentKnows(n)'
    BY AgentKnowsFrame DEF NodeInv, SameOperatorPart
  <1>2. LabelsAgree(n)' /\ TodoCurrent(n)' /\ (n \in Holders' => n \in Holders)
    BY DEF NodeInv, SameOperatorPart, LabelsAgree, TodoCurrent, Marking, Holders,
           stillRebooting
  <1>3. QED
    BY <1>1, <1>2 DEF NodeInv

\* A harmless step of a node keeps what its agent knows and what the operator
\* selected it for, and takes no place; a step of another node, a crash
\* included, does so too.
LEMMA NodeStepInv ==
    ASSUME TypeOK, NEW n \in Nodes, NodeInv(n), WatchEvents,
           NEW m \in Nodes, NodeStep(m), m = n => Harmless(n)
    PROVE  NodeInv(n)' /\ (n \in Holders' => n \in Holders)
  <1>1. UNCHANGED <<phase, todo>> /\ SameOperatorPart(node[n], node'[n])
    BY NodeStepFrame
  <1>2. CASE m # n
    BY <1>1, <1>2, OtherNodes, NodeInvFrame
  <1>3. CASE m = n /\ AgentKilled(n) /\ pc'[n] = pc[n]
    BY <1>1, <1>3, NodeInvFrame DEF AgentKilled, machine
  <1>4. CASE \/ (\E a \in Annos : WantedCheck(n, a) \/ LateCheck(n, a))
             \/ AdminStep(n)
    <2>1. /\ pc'[n] = pc[n] /\ rebootPending'[n] = rebootPending[n]
          /\ node[n] \in Node /\ node \in [Nodes -> Node]
      BY <1>4 DEF WantedCheck, LateCheck, AdminStep, agentState, machine, TypeOK
    <2>2. node'[n].rebootNeeded = node[n].rebootNeeded
      BY <1>4, <2>1 DEF WantedCheck, LateCheck, CheckPasses, LateCheckPasses, passCheck,
                        AdminStep, AdminPauses, AdminCordons, Node
    <2>3. QED
      BY <1>1, <2>1, <2>2, NodeInvFrame
  <1>5. CASE \/ AgentStep(n) \/ StatusStep(n) \/ WatchFault(n) \/ MachineStep(n)
             \/ AgentFails(n) \/ RequestRebootFails(n) \/ UpdateStep(n)
    <2>1. AgentKnows(n) /\ LabelsAgree(n) /\ TodoCurrent(n)
      BY DEF NodeInv
    <2>2. AgentKnows(n)' /\ LabelsAgree(n)'
      BY <1>5, <2>1, AgentKnowsAgent
      DEF AgentStep, StatusStep, WatchFault, MachineStep, UpdateStep
    <2>3. \/ node'[n].rebootNeeded = node[n].rebootNeeded
          \/ pc[n] = "reset" /\ node'[n].rebootNeeded # True
          \/ pc[n] \in Waiting \cup Reboot /\ node'[n].rebootNeeded = True
      BY <1>5, CrashFreeFrame DEF CrashFreeStep
    <2>4. n \in Holders' => n \in Holders
      BY <1>1, <2>1, <2>3
      DEF Holders, SameOperatorPart, stillRebooting, AgentKnows, Waiting, Reboot
    <2>5. TodoCurrent(n)'
      BY <1>1, <2>1, <2>3
      DEF TodoCurrent, Marking, SameOperatorPart, AgentKnows, LabelsAgree, Waiting, Reboot
    <2>6. QED
      BY <2>2, <2>4, <2>5 DEF NodeInv
  <1>6. QED
    BY <1>2, <1>3, <1>4, <1>5 DEF Harmless, CrashFreeStep

-----------------------------------------------------------------------------
(* The steps of the operator.                                              *)

\* Fewer nodes need no more places.
LEMMA KeepsRoom ==
    ASSUME NEW H \in SUBSET Nodes, NEW G \in SUBSET H,
           Cardinality(H) <= maxRebootingNodes
    PROVE  Cardinality(G) <= maxRebootingNodes
  <1>1. Cardinality(G) <= Cardinality(H) /\ Cardinality(G) \in Nat /\ Cardinality(H) \in Nat
    BY NodesCardinality
  <1>2. QED
    BY <1>1, MaxAssumption

\* markBeforeReboot counts every node that has a place and every node in its
\* after-reboot checks.
LEMMA HoldersCounted == Cardinality(Holders \cup LabelledAfter) <= rebootingNodesCount
  <1> DEFINE A == {n \in Nodes : stillRebooting(node[n])}
  <1>1. /\ A \in SUBSET Nodes /\ LabelledBefore \in SUBSET Nodes
        /\ LabelledAfter \in SUBSET Nodes
        /\ Holders = A \cup LabelledBefore /\ Holders \in SUBSET Nodes
    BY DEF LabelledBefore, LabelledAfter, Holders
  <1>2. rebootingNodesCount
          = Cardinality(A) + Cardinality(LabelledBefore) + Cardinality(LabelledAfter)
    BY DEF rebootingNodesCount, LabelledBefore, LabelledAfter
  <1> HIDE DEF A
  <1>3. /\ Cardinality(A) \in Nat /\ Cardinality(LabelledBefore) \in Nat
        /\ Cardinality(LabelledAfter) \in Nat /\ Cardinality(Holders) \in Nat
    BY <1>1, NodesCardinality
  <1>4. Cardinality(Holders) <= Cardinality(A) + Cardinality(LabelledBefore)
    BY <1>1, UnionBound
  <1>5. Cardinality(Holders \cup LabelledAfter)
          <= Cardinality(Holders) + Cardinality(LabelledAfter)
    BY <1>1, UnionBound
  <1>6. Holders \cup LabelledAfter \in SUBSET Nodes
    BY <1>1
  <1>7. Cardinality(Holders \cup LabelledAfter) \in Nat
    BY <1>6, NodesCardinality
  <1>8. QED
    BY <1>2, <1>3, <1>4, <1>5, <1>7

\* A request of the operator that only reads, the end of a pass, and the clock.
LEMMA ReadStepInv ==
    ASSUME TypeOK, NEW n \in Nodes, NodeInv(n), WatchEvents,
           UNCHANGED <<node, agentState>>,
           OperatorStep \/ OperatorFault
    PROVE  NodeInv(n)' /\ (n \in Holders' => n \in Holders)
  <1>1. AgentKnows(n) /\ LabelsAgree(n) /\ TodoCurrent(n)
    BY DEF NodeInv
  <1>2. AgentKnows(n)'
    BY <1>1, AgentKnowsFrame DEF agentState, machine
  <1>3. LabelsAgree(n)' /\ (n \in Holders' => n \in Holders)
    BY <1>1 DEF LabelsAgree, Holders
  <1>4. TodoCurrent(n)'
    <2>1. CASE \/ ListCleanupState \/ ListCheckAfterReboot \/ ListMarkAfterReboot
               \/ ListCheckBeforeReboot \/ CheckRebootWindow \/ ProcessDone
      BY <1>1, <2>1
      DEF ListCleanupState, ListCheckAfterReboot, ListMarkAfterReboot,
          ListCheckBeforeReboot, CheckRebootWindow,
          InsideWindow, OutsideWindow, ProcessDone, List, TodoCurrent,
          Marking, justRebooted, True, False
    <2>2. CASE ListMarkBeforeReboot
      BY <2>2 DEF ListMarkBeforeReboot, ChosenNodes, List, TodoCurrent, rebootableNodes,
                  wantsReboot, Marking
    <2>3. CASE \E m \in Nodes : \/ cleanupState(m) \/ checkAfterReboot(m)
                                \/ markAfterReboot(m) \/ checkBeforeReboot(m)
                                \/ markBeforeReboot(m)
      <3>1. phase' = phase /\ todo' \subseteq todo
        BY <2>3 DEF cleanupState, checkAfterReboot, markAfterReboot, checkBeforeReboot,
                    markBeforeReboot, ForListed
      <3>2. QED
        BY <1>1, <3>1 DEF TodoCurrent, Marking
    <2>4. CASE OperatorFault
      BY <1>1, <2>4
      DEF OperatorFault, ProcessFails, TodoCurrent, Marking
    <2>5. QED
      BY <2>1, <2>2, <2>3, <2>4 DEF OperatorStep, process
  <1>5. QED
    BY <1>2, <1>3, <1>4 DEF NodeInv

\* What the five updates of the operator do to the Node object they write,
\* given what the operator selected it for.
LEMMA WriteStepInv ==
    ASSUME TypeOK, NEW n \in Nodes, NodeInv(n), WatchEvents, UNCHANGED agentState,
           \/ cleanupState(n) \/ checkAfterReboot(n) \/ markAfterReboot(n)
           \/ checkBeforeReboot(n) \/ markBeforeReboot(n)
    PROVE  /\ NodeInv(n)'
           /\ ~markBeforeReboot(n) => (n \in Holders' => n \in Holders)
  <1>1. /\ node \in [Nodes -> Node] /\ node[n] \in Node
        /\ AgentKnows(n) /\ LabelsAgree(n) /\ TodoCurrent(n)
        /\ UNCHANGED <<pc, rebootPending>>
    BY DEF TypeOK, NodeInv, agentState, machine
  <1>2. n \in todo /\ n \notin todo'
    BY DEF cleanupState, checkAfterReboot, markAfterReboot, checkBeforeReboot,
           markBeforeReboot, ForListed
  <1>3. TodoCurrent(n)'
    BY <1>2 DEF TodoCurrent
  <1>4. SUFFICES /\ AgentKnows(n)' /\ LabelsAgree(n)'
                 /\ ~markBeforeReboot(n) => (n \in Holders' => n \in Holders)
    BY <1>3 DEF NodeInv
  <1>5. CASE cleanupState(n)
    <2>1. /\ node'[n].okToReboot = node[n].okToReboot
          /\ node'[n].rebootNeeded = node[n].rebootNeeded
          /\ node'[n].afterReboot = node[n].afterReboot
          /\ node'[n].beforeReboot => node[n].beforeReboot
      BY <1>1, <1>5 DEF cleanupState, UpdateNodeRetry, cleanup, Node
    <2>2. QED
      BY <1>1, <2>1, AgentKnowsFrame DEF LabelsAgree, Holders, stillRebooting
  <1>6. CASE checkAfterReboot(n)
    <2>1. node[n].okToReboot /\ node[n].rebootNeeded # True
      BY <1>1, <1>2, <1>6
      DEF checkAfterReboot, ForListed, TodoCurrent, LabelsAgree
    <2>2. /\ ~node'[n].okToReboot /\ ~node'[n].afterReboot
          /\ node'[n].rebootNeeded = node[n].rebootNeeded
          /\ node'[n].beforeReboot = node[n].beforeReboot
      BY <1>1, <1>6 DEF checkAfterReboot, UpdateNodeRetry, completeReboot, Node
    <2>3. QED
      BY <1>1, <2>1, <2>2, AgentKnowsComplete DEF LabelsAgree, Holders, stillRebooting
  <1>7. CASE markAfterReboot(n)
    <2>1. node[n].okToReboot /\ node[n].rebootNeeded # True
      BY <1>1, <1>2, <1>7 DEF markAfterReboot, ForListed, TodoCurrent
    <2>2. /\ node'[n].okToReboot = node[n].okToReboot
          /\ node'[n].rebootNeeded = node[n].rebootNeeded
          /\ node'[n].beforeReboot = node[n].beforeReboot
      BY <1>1, <1>7 DEF markAfterReboot, UpdateNodeRetry, markAfter, Node
    <2>3. QED
      BY <1>1, <2>1, <2>2, AgentKnowsFrame DEF LabelsAgree, Holders, stillRebooting
  <1>8. CASE checkBeforeReboot(n)
    <2>1. /\ node[n].beforeReboot /\ node[n].rebootNeeded = True
          /\ ~node[n].okToReboot /\ ~node[n].afterReboot
      BY <1>1, <1>2, <1>8
      DEF checkBeforeReboot, ForListed, TodoCurrent, LabelsAgree
    <2>2. /\ node'[n].okToReboot /\ ~node'[n].beforeReboot
          /\ node'[n].rebootNeeded = node[n].rebootNeeded
          /\ node'[n].afterReboot = node[n].afterReboot
      BY <1>1, <1>8 DEF checkBeforeReboot, UpdateNodeRetry, permitReboot, Node
    <2>3. QED
      BY <1>1, <2>1, <2>2, AgentKnowsPermit DEF LabelsAgree, Holders, stillRebooting
  <1>9. CASE markBeforeReboot(n)
    <2>1. node[n].rebootNeeded = True /\ ~node[n].okToReboot
      BY <1>1, <1>2, <1>9 DEF markBeforeReboot, ForListed, TodoCurrent, Marking
    <2>2. /\ node'[n].okToReboot = node[n].okToReboot
          /\ node'[n].rebootNeeded = node[n].rebootNeeded
          /\ node'[n].afterReboot = node[n].afterReboot
      BY <1>1, <1>9 DEF markBeforeReboot, UpdateNodeRetry, markBefore, Node
    <2>3. QED
      BY <1>1, <1>9, <2>1, <2>2, AgentKnowsFrame DEF LabelsAgree
  <1>10. QED
    BY <1>5, <1>6, <1>7, <1>8, <1>9

-----------------------------------------------------------------------------
(* RebootInvOf is inductive.                                               *)

\* Every step that does not crash a node keeps what holds of it, and gives it
\* a place only if markBeforeReboot had decided to.
LEMMA NodeInvStep ==
    ASSUME TypeOK, NEW n \in Nodes, NodeInv(n), [Next]_vars,
           NodeStep(n) => Harmless(n)
    PROVE  /\ NodeInv(n)'
           /\ n \in Holders' => n \in Holders \/ (Marking /\ n \in todo)
  <1>1. CASE UNCHANGED vars
    BY <1>1 DEF vars, operatorVars, agentVars, NodeInv, AgentKnows, LabelsAgree,
                TodoCurrent, Marking, Holders
  <1>2. ASSUME NEW m \in Nodes, NodeStep(m), WatchEvents
        PROVE  NodeInv(n)' /\ (n \in Holders' => n \in Holders)
    BY <1>2, NodeStepInv
  <1>3. CASE (OperatorStep \/ OperatorFault) /\ WatchEvents
    <2>1. UNCHANGED agentState
      BY <1>3 DEF OperatorStep, OperatorFault
    <2>2. CASE UNCHANGED node
      BY <1>3, <2>1, <2>2, ReadStepInv
    <2>3. ASSUME NEW m \in Nodes,
                 \/ cleanupState(m) \/ checkAfterReboot(m) \/ markAfterReboot(m)
                 \/ checkBeforeReboot(m) \/ markBeforeReboot(m)
          PROVE  /\ NodeInv(n)'
                 /\ n \in Holders' => n \in Holders \/ (Marking /\ n \in todo)
      <3>1. CASE m = n
        <4>1. markBeforeReboot(n) => Marking /\ n \in todo
          BY DEF markBeforeReboot, ForListed, Marking
        <4>2. QED
          BY <1>3, <2>1, <2>3, <3>1, <4>1, WriteStepInv
      <3>2. CASE m # n
        <4>1. /\ node'[n] = node[n] /\ phase' = phase /\ todo' = todo \ {m}
              /\ AgentKnows(n) /\ LabelsAgree(n) /\ TodoCurrent(n)
          BY <2>3, <3>2
          DEF TypeOK, NodeInv, cleanupState, checkAfterReboot, markAfterReboot,
              checkBeforeReboot, markBeforeReboot, ForListed, UpdateNodeRetry
        <4>2. AgentKnows(n)'
          BY <1>3, <2>1, <4>1, AgentKnowsFrame DEF agentState, machine
        <4>3. LabelsAgree(n)' /\ TodoCurrent(n)' /\ (n \in Holders' => n \in Holders)
          BY <4>1 DEF LabelsAgree, TodoCurrent, Marking, Holders
        <4>4. QED
          BY <4>2, <4>3 DEF NodeInv
      <3>3. QED
        BY <3>1, <3>2
    <2>4. QED
      BY <1>3, <2>2, <2>3
      DEF OperatorStep, OperatorFault, process, ListCleanupState,
          ListCheckAfterReboot, ListMarkAfterReboot, ListCheckBeforeReboot,
          ListMarkBeforeReboot, CheckRebootWindow,
          InsideWindow, OutsideWindow, ProcessDone, List, ProcessFails
  <1>4. QED
    BY <1>1, <1>2, <1>3 DEF Next

\* The operator's list while it gives out places: it only gets shorter, no
\* after-reboot checks begin meanwhile, and it begins with nodes chosen from
\* those listed.
LEMMA MarkingStep ==
    ASSUME TypeOK, [Next]_vars
    PROVE  /\ Marking => todo' \subseteq todo /\ LabelledAfter' \subseteq LabelledAfter
           /\ ~Marking /\ Marking' => UNCHANGED node /\ todo' \in ChosenNodes
  <1>1. CASE UNCHANGED <<phase, todo, node>>
    BY <1>1 DEF Marking, LabelledAfter
  <1>2. CASE OperatorStep
    <2>1. CASE UNCHANGED node
      BY <1>2, <2>1
      DEF OperatorStep, process, ListCleanupState, ListCheckAfterReboot,
          ListMarkAfterReboot, ListCheckBeforeReboot, ListMarkBeforeReboot,
          CheckRebootWindow,
          InsideWindow, OutsideWindow, ProcessDone, List, cleanupState, checkAfterReboot,
          markAfterReboot, checkBeforeReboot, markBeforeReboot, ForListed, Marking,
          LabelledAfter
    <2>2. ASSUME NEW n \in Nodes, markBeforeReboot(n)
          PROVE  UNCHANGED phase /\ todo' \subseteq todo /\ LabelledAfter' \subseteq LabelledAfter
      BY <2>2 DEF markBeforeReboot, ForListed, UpdateNodeRetry, markBefore,
                  LabelledAfter, TypeOK, Node
    <2>3. ASSUME NEW n \in Nodes,
                 \/ cleanupState(n) \/ checkAfterReboot(n)
                 \/ markAfterReboot(n) \/ checkBeforeReboot(n)
          PROVE  ~Marking /\ ~Marking'
      BY <2>3 DEF cleanupState, checkAfterReboot, markAfterReboot, checkBeforeReboot,
                  ForListed, Marking
    <2>4. QED
      BY <1>2, <2>1, <2>2, <2>3
      DEF OperatorStep, process, ListCleanupState, ListCheckAfterReboot,
          ListMarkAfterReboot, ListCheckBeforeReboot, ListMarkBeforeReboot,
          CheckRebootWindow, InsideWindow, OutsideWindow, ProcessDone, List, Marking
  <1>3. CASE OperatorFault
    BY <1>3 DEF OperatorFault, ProcessFails, Marking, LabelledAfter
  <1>4. ASSUME NEW n \in Nodes, NodeStep(n)
        PROVE  UNCHANGED <<phase, todo>> /\ LabelledAfter' \subseteq LabelledAfter
    BY <1>4, NodeStepFrame DEF SameOperatorPart, LabelledAfter
  <1>5. QED
    BY <1>1, <1>2, <1>3, <1>4
    DEF Next, vars, operatorVars, Marking

\* If nodes of S get places only as markBeforeReboot decided, they stay within
\* the bound, whatever places the others have.
LEMMA PlacesStep ==
    ASSUME TypeOK, [Next]_vars, NEW S \in SUBSET Nodes, PlacesInv(S),
           \A n \in S : n \in Holders' => n \in Holders \/ (Marking /\ n \in todo)
    PROVE  PlacesInv(S)'
  <1> DEFINE H == Holders \cap S
             HT == (Holders \cup LabelledAfter \cup todo) \cap S
             G == Holders' \cap S
             GT == (Holders' \cup LabelledAfter' \cup todo') \cap S
  <1>1. H \in SUBSET Nodes /\ HT \in SUBSET Nodes /\ todo \in SUBSET Nodes
    BY DEF TypeOK
  <1>2. SUFFICES /\ Cardinality(G) <= maxRebootingNodes
                 /\ Marking' /\ todo' # {} => Cardinality(GT) <= maxRebootingNodes
    BY DEF PlacesInv
  <1>3. CASE Marking /\ todo # {}
    <2>1. G \in SUBSET HT /\ GT \in SUBSET HT
      BY <1>3, MarkingStep
    <2>2. Cardinality(HT) <= maxRebootingNodes
      BY <1>3 DEF PlacesInv
    <2> HIDE DEF G, GT, HT
    <2>3. QED
      BY <1>1, <2>1, <2>2, KeepsRoom
  <1>4. CASE ~(Marking /\ todo # {})
    <2>1. G \in SUBSET H
      BY <1>4
    <2>2. Cardinality(H) <= maxRebootingNodes
      BY DEF PlacesInv
    <2>3. Cardinality(G) <= maxRebootingNodes
      <3> HIDE DEF G, H
      <3> QED BY <1>1, <2>1, <2>2, KeepsRoom
    <2>4. ASSUME Marking', todo' # {}
          PROVE  Cardinality(GT) <= maxRebootingNodes
      <3>1. UNCHANGED node /\ todo' \in ChosenNodes
        BY <1>4, <2>4, MarkingStep
      <3> DEFINE L == Holders \cup LabelledAfter
                 T == L \cup todo'
      <3>2. /\ L \in SUBSET Nodes
            /\ Holders' = Holders /\ LabelledAfter' = LabelledAfter
        BY <3>1 DEF Holders, LabelledAfter
      <3>3. Cardinality(L) <= rebootingNodesCount /\ rebootingNodesCount \in Nat
        BY CountType, HoldersCounted
      <3>4. todo' \subseteq rebootableNodes /\ Cardinality(T) <= maxRebootingNodes
        <4> HIDE DEF L
        <4> QED BY <2>4, <3>1, <3>2, <3>3, ChosenFit
      <3>5. T \in SUBSET Nodes /\ GT \in SUBSET T
        BY <3>2, <3>4 DEF rebootableNodes
      <3>6. QED
        <4> HIDE DEF GT, T
        <4> QED BY <3>4, <3>5, KeepsRoom
    <2>5. QED
      BY <2>3, <2>4
  <1>5. QED
    BY <1>3, <1>4

\* Every step that crashes no node of S keeps what holds of S.
LEMMA RebootInvStep ==
    ASSUME TypeOK, NEW S \in SUBSET Nodes, RebootInvOf(S), [Next]_vars,
           \A n \in S : NodeStep(n) => Harmless(n)
    PROVE  RebootInvOf(S)'
  <1>1. \A n \in S : /\ NodeInv(n)'
                     /\ n \in Holders' => n \in Holders \/ (Marking /\ n \in todo)
    BY NodeInvStep DEF RebootInvOf
  <1>2. PlacesInv(S)'
    BY <1>1, PlacesStep DEF RebootInvOf
  <1>3. QED
    BY <1>1, <1>2 DEF RebootInvOf

\* What holds of a set of nodes holds of fewer.
LEMMA RebootInvFewer ==
    ASSUME TypeOK, NEW S \in SUBSET Nodes, NEW R \in SUBSET S, RebootInvOf(S)
    PROVE  RebootInvOf(R)
  <1> DEFINE H == Holders \cap S
             HT == (Holders \cup LabelledAfter \cup todo) \cap S
             G == Holders \cap R
             GT == (Holders \cup LabelledAfter \cup todo) \cap R
  <1>1. /\ H \in SUBSET Nodes /\ HT \in SUBSET Nodes
        /\ G \in SUBSET H /\ GT \in SUBSET HT
    OBVIOUS
  <1>2. /\ Cardinality(H) <= maxRebootingNodes
        /\ Marking /\ todo # {} => Cardinality(HT) <= maxRebootingNodes
    BY DEF RebootInvOf, PlacesInv
  <1>3. /\ Cardinality(G) <= maxRebootingNodes
        /\ Marking /\ todo # {} => Cardinality(GT) <= maxRebootingNodes
    <2> HIDE DEF H, HT, G, GT
    <2> QED BY <1>1, <1>2, KeepsRoom
  <1>4. QED
    BY <1>3 DEF RebootInvOf, PlacesInv

\* At first nothing is known, wanted or given out.
LEMMA RebootInvInit == Init => RebootInv
  <1> SUFFICES ASSUME Init PROVE RebootInv
    OBVIOUS
  <1>1. Holders \cap Nodes = {} /\ ~Marking
    BY DEF Init, OperatorInit, FreshNode, Holders, stillRebooting, Marking
  <1>2. PlacesInv(Nodes)
    BY <1>1, FS_EmptySet, MaxAssumption DEF PlacesInv
  <1>3. \A n \in Nodes : AgentKnows(n) /\ LabelsAgree(n)
    BY DEF Init, AgentInit, FreshNode, AgentKnows, LabelsAgree, Reboot, Unset, True
  <1>4. \A n \in Nodes : TodoCurrent(n)
    BY DEF Init, OperatorInit, TodoCurrent
  <1>5. QED
    BY <1>2, <1>3, <1>4 DEF RebootInv, RebootInvOf, NodeInv

\* Budgets only shrink.
LEMMA BudgetHolds == Spec => []BudgetInv
  <1>1. Init => BudgetInv
    BY BudgetAssumption DEF BudgetInv, Init, Kind
  <1>2. TypeOK /\ BudgetInv /\ [Next]_vars => BudgetInv'
    BY BudgetStep
  <1>3. QED
    BY <1>1, <1>2, TypeCorrect, PTL DEF Spec

\* Without crashes, what operator and agents know of each other through the
\* Node objects stays true, for every cluster: RebootInv.
THEOREM RebootInvariantHolds == ASSUME NoCrashes PROVE Spec => []RebootInv
  <1>1. TypeOK /\ BudgetInv /\ RebootInv /\ [Next]_vars => RebootInv'
    BY NothingToSpend, RebootInvStep DEF RebootInv
  <1>2. QED
    BY <1>1, RebootInvInit, BudgetHolds, TypeCorrect, PTL DEF Spec

\* RebootInvOf bounds the machines out of service and keeps permissions.
LEMMA RebootInvImplies ==
    ASSUME NEW S \in SUBSET Nodes, RebootInvOf(S)
    PROVE  /\ Cardinality(InReboot \cap S) <= maxRebootingNodes
           /\ \A n \in S : pc[n] \in Reboot => shouldReboot(node[n])
  <1>1. InReboot \cap S = Holders \cap S
    BY DEF RebootInvOf, NodeInv, AgentKnows, InReboot, Holders, stillRebooting
  <1>2. Cardinality(InReboot \cap S) <= maxRebootingNodes
    BY <1>1 DEF RebootInvOf, PlacesInv
  <1>3. QED
    BY <1>2 DEF RebootInvOf, NodeInv, AgentKnows, shouldReboot

\* The same for all nodes.
LEMMA RebootInvSafe == RebootInv => OneRebootAtATime /\ RebootPermitted
  <1>1. InReboot \cap Nodes = InReboot
    BY DEF InReboot
  <1>2. QED
    BY <1>1, RebootInvImplies DEF RebootInv, OneRebootAtATime, RebootPermitted

\* Without crashes, at most maxRebootingNodes machines are out of service at
\* once: OneRebootAtATime, of markBeforeReboot and the agents together.
THEOREM OneRebootAtATimeHolds == ASSUME NoCrashes PROVE Spec => []OneRebootAtATime
  BY RebootInvSafe, RebootInvariantHolds, PTL

\* Without crashes, an agent that drains or reboots its node still has the
\* permission it acted on: RebootPermitted, of Klocksmith.process.
THEOREM RebootPermittedHolds == ASSUME NoCrashes PROVE Spec => []RebootPermitted
  BY RebootInvSafe, RebootInvariantHolds, PTL

-----------------------------------------------------------------------------
(* The system implements the reboot lock.                                  *)

\* One node moving, the others standing still, is a move of the lock.
LEMMA LockMove ==
    ASSUME NEW n \in Nodes,
           \A m \in Nodes \ {n} : lockOf(node'[m]) = lockOf(node[m])
    PROVE  /\ Lock!move(n, lockOf(node[n]), lockOf(node'[n]))
           /\ lockOf(node'[n]) = lockOf(node[n]) => UNCHANGED lockMap
  BY DEF Lock!move, lockMap

\* The lock's books hold the nodes that have a place and those in their
\* after-reboot checks.
LEMMA LockHolders == ASSUME RebootInv PROVE Lock!Holders = Holders \cup LabelledAfter
  <1>1. \A n \in Nodes : lockMap[n] = lockOf(node[n]) /\ LabelsAgree(n)
    BY DEF RebootInv, RebootInvOf, NodeInv, lockMap
  <1>2. QED
    BY <1>1 DEF Lock!Holders, Holders, LabelledAfter, lockOf, LabelsAgree, stillRebooting

\* The return of an agent is a move of the lock; nothing else a node does
\* concerns it.
LEMMA NodeStepLock ==
    ASSUME TypeOK, RebootInv, NEW n \in Nodes, NodeStep(n), Harmless(n)
    PROVE  Lock!Return(n) \/ UNCHANGED lockMap
  <1>1. /\ \A m \in Nodes : SameOperatorPart(node[m], node'[m])
        /\ AgentKnows(n) /\ LabelsAgree(n)
    BY NodeStepFrame DEF RebootInv, RebootInvOf, NodeInv
  <1>2. /\ \A m \in Nodes \ {n} : node'[m] = node[m]
        /\ \/ node'[n].rebootNeeded = node[n].rebootNeeded
           \/ pc[n] = "reset" /\ node'[n].rebootNeeded # True
           \/ pc[n] \in Waiting \cup Reboot /\ node'[n].rebootNeeded = True
    BY CrashFreeFrame DEF Harmless, AgentKilled
  <1>3. \/ lockOf(node'[n]) = lockOf(node[n])
        \/ lockOf(node[n]) = "rebooting" /\ lockOf(node'[n]) = "rebooted"
    BY <1>1, <1>2
    DEF lockOf, stillRebooting, SameOperatorPart, AgentKnows, LabelsAgree, Waiting, Reboot
  <1>4. QED
    BY <1>2, <1>3, LockMove DEF Lock!Return

\* Each update of the operator is one move of the lock, or none.
LEMMA WriteStepLock ==
    ASSUME TypeOK, RebootInv, NEW n \in Nodes,
           \/ cleanupState(n) \/ checkAfterReboot(n) \/ markAfterReboot(n)
           \/ checkBeforeReboot(n) \/ markBeforeReboot(n)
    PROVE  Lock!Next \/ UNCHANGED lockMap
  <1>1. /\ node \in [Nodes -> Node] /\ node[n] \in Node
        /\ LabelsAgree(n) /\ TodoCurrent(n)
    BY DEF TypeOK, RebootInv, RebootInvOf, NodeInv
  <1>2. n \in todo
    BY DEF cleanupState, checkAfterReboot, markAfterReboot, checkBeforeReboot,
           markBeforeReboot, ForListed
  <1>3. \A m \in Nodes \ {n} : lockOf(node'[m]) = lockOf(node[m])
    BY <1>1 DEF cleanupState, checkAfterReboot, markAfterReboot, checkBeforeReboot,
                markBeforeReboot, UpdateNodeRetry
  <1>4. CASE cleanupState(n)
    <2>1. /\ node'[n].okToReboot = node[n].okToReboot
          /\ node'[n].rebootNeeded = node[n].rebootNeeded
          /\ node'[n].afterReboot = node[n].afterReboot
          /\ node'[n].beforeReboot = node[n].beforeReboot \/ ~node'[n].beforeReboot
      BY <1>1, <1>4 DEF cleanupState, UpdateNodeRetry, cleanup, Node
    <2>2. \/ lockOf(node'[n]) = lockOf(node[n])
          \/ lockOf(node[n]) = "checking" /\ lockOf(node'[n]) = "idle"
      BY <1>1, <2>1 DEF lockOf, stillRebooting, LabelsAgree
    <2>3. QED
      BY <1>3, <2>2, LockMove DEF Lock!Next, Lock!Cancel
  <1>5. CASE checkAfterReboot(n)
    <2>1. node[n].afterReboot /\ ~node[n].beforeReboot
      BY <1>1, <1>2, <1>5 DEF checkAfterReboot, ForListed, TodoCurrent, LabelsAgree
    <2>2. /\ ~node'[n].okToReboot /\ ~node'[n].afterReboot
          /\ node'[n].beforeReboot = node[n].beforeReboot
      BY <1>1, <1>5 DEF checkAfterReboot, UpdateNodeRetry, completeReboot, Node
    <2>3. lockOf(node[n]) = "verifying" /\ lockOf(node'[n]) = "idle"
      BY <2>1, <2>2 DEF lockOf, stillRebooting
    <2>4. QED
      BY <1>3, <2>3, LockMove DEF Lock!Next, Lock!Release
  <1>6. CASE markAfterReboot(n)
    <2>1. /\ node[n].okToReboot /\ node[n].rebootNeeded # True
          /\ ~node[n].afterReboot /\ ~node[n].beforeReboot
      BY <1>1, <1>2, <1>6 DEF markAfterReboot, ForListed, TodoCurrent, LabelsAgree
    <2>2. node'[n].afterReboot /\ node'[n].beforeReboot = node[n].beforeReboot
      BY <1>1, <1>6 DEF markAfterReboot, UpdateNodeRetry, markAfter, Node
    <2>3. lockOf(node[n]) = "rebooted" /\ lockOf(node'[n]) = "verifying"
      BY <2>1, <2>2 DEF lockOf, stillRebooting
    <2>4. QED
      BY <1>3, <2>3, LockMove DEF Lock!Next, Lock!Verify
  <1>7. CASE checkBeforeReboot(n)
    <2>1. node[n].beforeReboot /\ node[n].rebootNeeded = True /\ ~node[n].afterReboot
      BY <1>1, <1>2, <1>7 DEF checkBeforeReboot, ForListed, TodoCurrent, LabelsAgree
    <2>2. /\ node'[n].okToReboot /\ ~node'[n].beforeReboot
          /\ node'[n].rebootNeeded = node[n].rebootNeeded
          /\ node'[n].afterReboot = node[n].afterReboot
      BY <1>1, <1>7 DEF checkBeforeReboot, UpdateNodeRetry, permitReboot, Node
    <2>3. lockOf(node[n]) = "checking" /\ lockOf(node'[n]) = "rebooting"
      BY <2>1, <2>2 DEF lockOf, stillRebooting
    <2>4. QED
      BY <1>3, <2>3, LockMove DEF Lock!Next, Lock!Permit
  <1>8. CASE markBeforeReboot(n)
    <2>1. /\ node[n].rebootNeeded = True /\ ~node[n].okToReboot
          /\ ~node[n].beforeReboot /\ ~node[n].afterReboot /\ Marking
      BY <1>1, <1>2, <1>8
      DEF markBeforeReboot, ForListed, TodoCurrent, LabelsAgree, Marking
    <2>2. node'[n].beforeReboot
      BY <1>1, <1>8 DEF markBeforeReboot, UpdateNodeRetry, markBefore, Node
    <2>3. lockOf(node[n]) = "idle" /\ lockOf(node'[n]) = "checking"
      BY <2>1, <2>2 DEF lockOf, stillRebooting
    <2> DEFINE B == Holders \cup LabelledAfter
               T == B \cup todo
               U == B \cup {n}
    <2>4. Cardinality(B) < maxRebootingNodes
      <3>1. /\ n \notin B /\ B \in SUBSET Nodes /\ T \in SUBSET Nodes
            /\ U \in SUBSET T
        BY <1>2, <2>1 DEF Holders, LabelledAfter, stillRebooting, TypeOK
      <3>2. Cardinality(T) <= maxRebootingNodes
        <4>1. (Holders \cup LabelledAfter \cup todo) \cap Nodes = T
          BY <3>1
        <4>2. QED
          BY <1>2, <2>1, <4>1 DEF RebootInv, RebootInvOf, PlacesInv
      <3> HIDE DEF T, B
      <3>3. IsFiniteSet(B) /\ Cardinality(B) \in Nat
        BY <3>1, NodesCardinality
      <3>4. Cardinality(U) = Cardinality(B) + 1
        BY <3>1, <3>3, FS_AddElement
      <3>5. Cardinality(U) <= maxRebootingNodes
        <4> HIDE DEF U
        <4> QED BY <3>1, <3>2, KeepsRoom
      <3>6. QED
        BY <3>3, <3>4, <3>5, MaxAssumption
    <2>5. Lock!Cardinality(Lock!Holders) < maxRebootingNodes
      BY <2>4, LockHolders DEF Cardinality, Lock!Cardinality
    <2>6. QED
      BY <1>3, <2>3, <2>5, LockMove DEF Lock!Next, Lock!Reserve
  <1>9. QED
    BY <1>4, <1>5, <1>6, <1>7, <1>8

\* Every step of a system without crashes is a step of the lock, or none.
LEMMA LockStep ==
    ASSUME NoCrashes, TypeOK, BudgetInv, RebootInv, [Next]_vars
    PROVE  Lock!Next \/ UNCHANGED lockMap
  <1>1. CASE UNCHANGED node
    BY <1>1 DEF lockMap
  <1>2. ASSUME NEW n \in Nodes, NodeStep(n)
        PROVE  Lock!Next \/ UNCHANGED lockMap
    <2>1. Harmless(n)
      BY <1>2, NothingToSpend
    <2>2. QED
      BY <1>2, <2>1, NodeStepLock DEF Lock!Next
  <1>3. CASE OperatorStep
    BY <1>1, <1>3, WriteStepLock
    DEF OperatorStep, process, ListCleanupState, ListCheckAfterReboot,
        ListMarkAfterReboot, ListCheckBeforeReboot, ListMarkBeforeReboot,
        CheckRebootWindow, InsideWindow, OutsideWindow, ProcessDone, List
  <1>4. CASE OperatorFault
    BY <1>1, <1>4 DEF OperatorFault, ProcessFails
  <1>5. QED
    BY <1>1, <1>2, <1>3, <1>4 DEF Next, vars

\* Without crashes, operator, agents and Node objects implement the reboot
\* lock, for every cluster: LockSpec.
THEOREM ImplementsLock == ASSUME NoCrashes PROVE Spec => LockSpec
  <1>1. Init => Lock!Init
    BY DEF Init, Lock!Init, lockMap, lockOf, FreshNode, stillRebooting
  <1>2. TypeOK /\ BudgetInv /\ RebootInv /\ [Next]_vars => [Lock!Next]_lockMap
    BY LockStep
  <1>3. QED
    BY <1>1, <1>2, TypeCorrect, BudgetHolds, RebootInvariantHolds, PTL
    DEF Spec, LockSpec, Lock!Spec

-----------------------------------------------------------------------------
(* How many nodes can be between their label and the end of their checks.  *)

\* A node that is back has said so in both annotations of its agent.
LEMMA ReturnSeenStep ==
    ASSUME TypeOK, NEW n \in Nodes, NodeInv(n), ReturnSeen(n), [Next]_vars,
           NodeStep(n) => Harmless(n)
    PROVE  ReturnSeen(n)'
  <1> DEFINE o == node[n]
             p == node'[n]
             back(x) == x.okToReboot /\ x.rebootNeeded # True
  <1>1. /\ node \in [Nodes -> Node] /\ node[n] \in Node
        /\ AgentKnows(n) /\ LabelsAgree(n) /\ TodoCurrent(n)
    BY DEF TypeOK, NodeInv
  <1>2. SUFFICES ASSUME lockOf(p) = "rebooted" PROVE justRebooted(p)
    BY DEF ReturnSeen, lockMap
  <1>3. CASE node'[n] = node[n]
    BY <1>2, <1>3 DEF ReturnSeen, lockMap
  <1>4. back(p) /\ ~p.afterReboot /\ ~p.beforeReboot
    BY <1>2 DEF lockOf, stillRebooting
  <1>5. ASSUME p.okToReboot => o.okToReboot, p.afterReboot = o.afterReboot,
               p.rebootNeeded = o.rebootNeeded, p.rebootInProgress = o.rebootInProgress
        PROVE  justRebooted(p)
    <2>1. lockOf(o) = "rebooted"
      BY <1>1, <1>4, <1>5 DEF lockOf, stillRebooting, LabelsAgree
    <2>2. QED
      BY <1>4, <1>5, <2>1 DEF ReturnSeen, lockMap, justRebooted
  <1>6. CASE ResetAnnotations(n)
    BY <1>1, <1>4, <1>6 DEF ResetAnnotations, UpdateNodeRetry, noReboot, Node, justRebooted
  <1>7. ASSUME NodeStep(n), ~ResetAnnotations(n)
        PROVE  justRebooted(p)
    <2>1. SameOperatorPart(o, p)
      BY <1>7, NodeStepFrame
    <2>2. CASE StatusStep(n)
      BY <1>1, <1>4, <2>2
      DEF StatusStep, updateStatusCallback, UpdateNodeRetry, rebootNeeded, Node
    <2>3. CASE MarkRebootInProgress(n)
      <3>1. p.rebootNeeded = o.rebootNeeded /\ o.rebootNeeded = True
        BY <1>1, <2>3 DEF MarkRebootInProgress, UpdateNodeRetry, inProgress, inProgressMade,
                          Node, goto, AgentKnows, Reboot
      <3>2. QED
        BY <1>4, <3>1
    <2>4. CASE AgentStep(n) /\ ~MarkRebootInProgress(n)
      <3>1. p.rebootNeeded = o.rebootNeeded /\ p.rebootInProgress = o.rebootInProgress
        BY <1>1, <1>7, <2>4
        DEF AgentStep, agentProcess, CheckAnnotations, GetNotOkToReboot,
            WatchNotOkToReboot, MakeSchedulable, ClearMadeUnschedulable, GetOkToReboot,
            WatchOkToReboot, ReadUnschedulable, MakeUnschedulable, DrainPods,
            RequestReboot, UpdateNodeRetry, schedulable, notMadeByAgent, unschedulable, Node
      <3>2. QED
        BY <1>5, <2>1, <3>1 DEF SameOperatorPart
    <2>5. CASE WatchFault(n) \/ MachineStep(n) \/ AgentFault(n) \/ UpdateStep(n)
      <3>1. p.rebootNeeded = o.rebootNeeded /\ p.rebootInProgress = o.rebootInProgress
        BY <1>1, <2>5
        DEF WatchFault, MachineStep, AgentFault, UpdateStep, WatchOkFails, MachineDown,
            MachineUp, SleepDone, AgentFails, RequestRebootFails, AgentKilled, PowerLoss,
            UpdateInstalled, Restart, UpdateNodeRetry, notMadeByAgent, Node
      <3>2. QED
        BY <1>5, <2>1, <3>1 DEF SameOperatorPart
    <2>6. CASE (\E a \in Annos : WantedCheck(n, a) \/ LateCheck(n, a)) \/ AdminStep(n)
      <3>1. p.rebootNeeded = o.rebootNeeded /\ p.rebootInProgress = o.rebootInProgress
        BY <1>1, <2>6
        DEF WantedCheck, LateCheck, CheckPasses, LateCheckPasses, passCheck,
            AdminStep, AdminPauses, AdminCordons, Node
      <3>2. QED
        BY <1>5, <2>1, <3>1 DEF SameOperatorPart
    <2>7. QED
      BY <1>7, <2>2, <2>3, <2>4, <2>5, <2>6 DEF NodeStep
  <1>8. ASSUME NEW m \in Nodes \ {n}, NodeStep(m)
        PROVE  justRebooted(p)
    BY <1>3, <1>8, OtherNodes
  <1>9. ASSUME cleanupState(n) \/ checkAfterReboot(n) \/ markAfterReboot(n)
               \/ markBeforeReboot(n)
        PROVE  justRebooted(p)
    <2>1. \/ p = cleanup(o) \/ p = completeReboot(o) \/ p = markAfter(o)
          \/ p = markBefore(o)
      BY <1>1, <1>9 DEF cleanupState, checkAfterReboot, markAfterReboot,
                        markBeforeReboot, UpdateNodeRetry
    <2>2. p.afterReboot # TRUE /\ p # completeReboot(o) /\ p # markAfter(o)
      BY <1>1, <1>4 DEF completeReboot, markAfter, Node
    <2>3. QED
      BY <1>1, <1>5, <2>1, <2>2 DEF cleanup, markBefore, Node
  <1>10. ASSUME checkBeforeReboot(n)
         PROVE  FALSE
    <2>1. o.rebootNeeded = True
      BY <1>1, <1>10 DEF checkBeforeReboot, ForListed, TodoCurrent, LabelsAgree
    <2>2. p.rebootNeeded = o.rebootNeeded
      BY <1>1, <1>10 DEF checkBeforeReboot, UpdateNodeRetry, permitReboot, Node
    <2>3. QED
      BY <1>4, <2>1, <2>2
  <1>11. ASSUME NEW m \in Nodes \ {n},
                \/ cleanupState(m) \/ checkAfterReboot(m) \/ markAfterReboot(m)
                \/ checkBeforeReboot(m) \/ markBeforeReboot(m)
         PROVE  node'[n] = node[n]
    BY <1>1, <1>11 DEF cleanupState, checkAfterReboot, markAfterReboot,
                       checkBeforeReboot, markBeforeReboot, UpdateNodeRetry
  <1>12. CASE OperatorStep
    BY <1>3, <1>9, <1>10, <1>11, <1>12
    DEF OperatorStep, process, ListCleanupState, ListCheckAfterReboot,
        ListMarkAfterReboot, ListCheckBeforeReboot, ListMarkBeforeReboot,
        CheckRebootWindow, InsideWindow, OutsideWindow, ProcessDone, List
  <1>13. CASE OperatorFault \/ UNCHANGED vars
    BY <1>3, <1>13 DEF OperatorFault, ProcessFails, vars
  <1>14. QED
    BY <1>6, <1>7, <1>8, <1>12, <1>13 DEF Next

\* What the operator's position says of the position before.
LEMMA PhaseStep ==
    ASSUME TypeOK, [Next]_vars
    PROVE  /\ phase' = "markAfterReboot" =>
                 \/ ListMarkAfterReboot
                 \/ phase = "markAfterReboot" /\ todo' = todo
                 \/ phase = "markAfterReboot" /\ \E n \in Nodes : markAfterReboot(n)
           /\ phase' = "checkBeforeReboot" =>
                 ListCheckBeforeReboot \/ phase = "checkBeforeReboot"
           /\ Marking' /\ ~Marking => phase = "checkBeforeReboot"
  <1>1. ASSUME NEW n \in Nodes, NodeStep(n)
        PROVE  UNCHANGED <<phase, todo>>
    BY <1>1, NodeStepFrame
  <1>2. CASE UNCHANGED vars
    BY <1>2 DEF vars, operatorVars, Marking
  <1>3. CASE OperatorFault
    BY <1>3 DEF OperatorFault, ProcessFails, Marking
  <1>4. CASE OperatorStep
    BY <1>4
    DEF OperatorStep, process, ListCleanupState, ListCheckAfterReboot,
        ListMarkAfterReboot, ListCheckBeforeReboot, ListMarkBeforeReboot,
        CheckRebootWindow,
        InsideWindow, OutsideWindow, ProcessDone, List, cleanupState, checkAfterReboot,
        markAfterReboot, checkBeforeReboot, markBeforeReboot, ForListed, Marking
  <1>5. QED
    BY <1>1, <1>2, <1>3, <1>4 DEF Next, Marking

\* How the sets of nodes change in a step: only a node that had a place comes
\* back, and only one that gets a place sets out.
LEMMA OverlapSets ==
    ASSUME NoCrashes, TypeOK, BudgetInv, RebootInv, [Next]_vars
    PROVE  /\ Holders' \subseteq Holders \cup (IF Marking THEN todo ELSE {})
           /\ Returned' \subseteq Returned \cup Holders
           /\ Unreleased' \subseteq Unreleased \cup (IF Marking THEN todo ELSE {})
           /\ Unreleased \subseteq Holders \cup LabelledAfter \cup Returned
  <1>1. \A n \in Nodes : n \in Holders' => n \in Holders \/ (Marking /\ n \in todo)
    BY NothingToSpend, NodeInvStep DEF RebootInv, RebootInvOf
  <1>2. Holders' \subseteq Holders \cup (IF Marking THEN todo ELSE {})
    BY <1>1 DEF Holders
  <1>3. \A n \in Nodes : /\ lockMap[n] = lockOf(node[n]) /\ lockMap'[n] = lockOf(node'[n])
                         /\ LabelsAgree(n)
    BY DEF lockMap, RebootInv, RebootInvOf, NodeInv
  <1>4. \A n \in Nodes :
           \/ lockMap'[n] = lockMap[n]
           \/ lockMap[n] = "idle" /\ lockMap'[n] = "checking"
           \/ lockMap[n] # "idle" /\ lockMap'[n] # "rebooted"
           \/ lockMap[n] = "rebooting"
    BY LockStep, <1>3
    DEF Lock!Next, Lock!Reserve, Lock!Cancel, Lock!Permit, Lock!Return, Lock!Verify,
        Lock!Release, Lock!move, lockMap
  <1>5. \A n \in Nodes : lockMap[n] = "rebooting" => n \in Holders
    BY <1>3 DEF Holders, lockOf
  <1>6. \A n \in Nodes : lockMap'[n] = "checking" => n \in Holders'
    BY <1>3 DEF Holders, lockOf
  <1>7. \A n \in Nodes : n \in Holders => lockMap[n] # "idle"
    BY <1>3 DEF Holders, lockOf, stillRebooting
  <1>8. Returned' \subseteq Returned \cup Holders
    BY <1>4, <1>5 DEF Returned
  <1>9. Unreleased' \subseteq Unreleased \cup (IF Marking THEN todo ELSE {})
    BY <1>1, <1>4, <1>5, <1>6, <1>7 DEF Unreleased
  <1>10. Unreleased \subseteq Holders \cup LabelledAfter \cup Returned
    BY <1>3 DEF Unreleased, Holders, LabelledAfter, Returned, lockOf
  <1>11. QED
    BY <1>2, <1>8, <1>9, <1>10

\* The nodes that came back behind markAfterReboot's List are few.
LEMMA LateReturnsStep ==
    ASSUME NoCrashes, TypeOK, BudgetInv, RebootInv, OverlapInv, [Next]_vars
    PROVE  LateReturns'
  <1> DEFINE L == (Returned \ todo) \cup Holders
             Lp == (Returned' \ todo') \cup Holders'
             U == Returned \cup Holders
             Up == Returned' \cup Holders'
  <1>1. /\ Holders \in SUBSET Nodes /\ Returned \in SUBSET Nodes
        /\ L \in SUBSET Nodes /\ U \in SUBSET Nodes
        /\ Cardinality(Holders) <= maxRebootingNodes
    <2>1. Holders \cap Nodes = Holders
      BY DEF Holders
    <2>2. QED
      BY <2>1 DEF Holders, Returned, RebootInv, RebootInvOf, PlacesInv
  <1>2. ASSUME phase' = "markAfterReboot"
        PROVE  Cardinality(Lp) <= maxRebootingNodes
    <2>1. CASE ListMarkAfterReboot
      <3>1. /\ UNCHANGED node
            /\ todo' = {n \in Nodes : justRebooted(node[n]) /\ ~node[n].afterReboot}
        BY <2>1 DEF ListMarkAfterReboot, List
      <3>2. Returned' = Returned /\ Holders' = Holders
        BY <3>1 DEF Returned, lockMap, Holders
      <3>3. Returned \subseteq todo'
        BY <3>1 DEF OverlapInv, ReturnSeen, Returned, lockMap, lockOf
      <3>4. Lp = Holders
        BY <3>2, <3>3
      <3>5. QED
        BY <1>1, <3>4
    <2>2. CASE phase = "markAfterReboot"
      <3>1. Holders' \subseteq Holders /\ Returned' \subseteq Returned \cup Holders
        BY <2>2, OverlapSets DEF Marking
      <3>2. CASE todo' = todo
        <4>1. Lp \in SUBSET L
          BY <3>1, <3>2
        <4>2. Cardinality(L) <= maxRebootingNodes
          BY <2>2 DEF OverlapInv, LateReturns
        <4>3. QED
          <5> HIDE DEF L, Lp
          <5> QED BY <1>1, <4>1, <4>2, KeepsRoom
      <3>3. ASSUME NEW n \in Nodes, markAfterReboot(n)
            PROVE  Cardinality(Lp) <= maxRebootingNodes
        <4>1. todo' = todo \ {n} /\ node'[n].afterReboot
          BY <3>3 DEF markAfterReboot, ForListed, UpdateNodeRetry, markAfter, TypeOK, Node
        <4>2. n \notin Returned'
          BY <4>1 DEF Returned, lockMap, lockOf
        <4>3. Lp \in SUBSET L
          BY <3>1, <4>1, <4>2
        <4>4. Cardinality(L) <= maxRebootingNodes
          BY <2>2 DEF OverlapInv, LateReturns
        <4>5. QED
          <5> HIDE DEF L, Lp
          <5> QED BY <1>1, <4>3, <4>4, KeepsRoom
      <3>4. QED
        BY <1>2, <2>1, <3>2, <3>3, PhaseStep
    <2>3. QED
      BY <1>2, <2>1, <2>2, PhaseStep
  <1>3. ASSUME phase' = "checkBeforeReboot"
        PROVE  Cardinality(Up) <= maxRebootingNodes
    <2>1. CASE ListCheckBeforeReboot
      <3>1. UNCHANGED node /\ todo = {} /\ phase = "markAfterReboot"
        BY <2>1 DEF ListCheckBeforeReboot, List
      <3>2. Up = L
        BY <3>1 DEF Returned, lockMap, Holders
      <3>3. Cardinality(L) <= maxRebootingNodes
        BY <3>1 DEF OverlapInv, LateReturns
      <3>4. QED
        BY <3>2, <3>3
    <2>2. CASE phase = "checkBeforeReboot"
      <3>1. Up \in SUBSET U
        BY <2>2, OverlapSets DEF Marking
      <3>2. Cardinality(U) <= maxRebootingNodes
        BY <2>2 DEF OverlapInv, LateReturns
      <3>3. QED
        <4> HIDE DEF U, Up
        <4> QED BY <1>1, <3>1, <3>2, KeepsRoom
    <2>3. QED
      BY <1>3, <2>1, <2>2, PhaseStep
  <1>4. QED
    BY <1>2, <1>3 DEF LateReturns

\* Every step keeps the nodes between label and release within twice the
\* bound.
LEMMA OverlapStep ==
    ASSUME NoCrashes, TypeOK, BudgetInv, RebootInv, OverlapInv, [Next]_vars
    PROVE  OverlapInv'
  <1> DEFINE V == Unreleased
             Vp == Unreleased'
             W == Unreleased \cup todo
             Wp == Unreleased' \cup todo'
  <1>1. \A n \in Nodes : ReturnSeen(n)'
    BY NothingToSpend, ReturnSeenStep DEF OverlapInv, RebootInv, RebootInvOf
  <1>2. LateReturns'
    BY LateReturnsStep
  <1>3. V \in SUBSET Nodes /\ W \in SUBSET Nodes /\ Vp \in SUBSET Nodes
    BY DEF Unreleased, TypeOK
  \* Twice the room is kept like the room.
  <1>4. ASSUME NEW H \in SUBSET Nodes, NEW G \in SUBSET H,
               Cardinality(H) <= 2 * maxRebootingNodes
        PROVE  Cardinality(G) <= 2 * maxRebootingNodes
    <2>1. Cardinality(G) <= Cardinality(H) /\ Cardinality(G) \in Nat /\ Cardinality(H) \in Nat
      BY NodesCardinality
    <2>2. 2 * maxRebootingNodes \in Nat
      BY MaxAssumption
    <2>3. QED
      BY <1>4, <2>1, <2>2
  <1>5. SUFFICES /\ Cardinality(Vp) <= 2 * maxRebootingNodes
                 /\ Marking' /\ todo' # {} => Cardinality(Wp) <= 2 * maxRebootingNodes
    BY <1>1, <1>2 DEF OverlapInv
  <1>6. CASE Marking /\ todo # {}
    <2>1. Vp \in SUBSET W /\ Wp \in SUBSET W
      BY <1>6, OverlapSets, MarkingStep
    <2>2. Cardinality(W) <= 2 * maxRebootingNodes
      BY <1>6 DEF OverlapInv
    <2>3. QED
      <3> HIDE DEF Vp, Wp, W
      <3> QED BY <1>3, <1>4, <2>1, <2>2
  <1>7. CASE ~(Marking /\ todo # {})
    <2>1. Vp \in SUBSET V
      BY <1>7, OverlapSets
    <2>2. Cardinality(V) <= 2 * maxRebootingNodes
      BY DEF OverlapInv
    <2>3. Cardinality(Vp) <= 2 * maxRebootingNodes
      <3> HIDE DEF Vp, V
      <3> QED BY <1>3, <1>4, <2>1, <2>2
    <2>4. ASSUME Marking', todo' # {}
          PROVE  Cardinality(Wp) <= 2 * maxRebootingNodes
      <3> DEFINE B == Holders \cup LabelledAfter \cup todo'
                 S == B \cup Returned
      <3>1. ~Marking
        BY <1>7, <2>4, MarkingStep
      <3>2. phase = "checkBeforeReboot" /\ UNCHANGED node /\ todo' \in ChosenNodes
        BY <2>4, <3>1, MarkingStep, PhaseStep
      <3>3. RebootInv' /\ TypeOK'
        BY NothingToSpend, RebootInvStep, TypeStep DEF RebootInv
      <3>4. Holders' = Holders /\ LabelledAfter' = LabelledAfter /\ Unreleased' = Unreleased
        BY <3>2 DEF Holders, LabelledAfter, Unreleased, lockMap
      <3>5. /\ B \in SUBSET Nodes /\ Returned \in SUBSET Nodes /\ Wp \in SUBSET S
            /\ S \in SUBSET Nodes
            /\ Returned \in SUBSET (Returned \cup Holders)
            /\ Returned \cup Holders \in SUBSET Nodes
        BY <3>3, <3>4, OverlapSets DEF TypeOK, Holders, LabelledAfter, Returned
      <3>6. Cardinality(B) <= maxRebootingNodes
        <4>1. (Holders' \cup LabelledAfter' \cup todo') \cap Nodes = B
          BY <3>4, <3>5
        <4>2. QED
          BY <2>4, <3>3, <4>1 DEF RebootInv, RebootInvOf, PlacesInv
      <3>7. Cardinality(Returned) <= maxRebootingNodes
        <4>1. Cardinality(Returned \cup Holders) <= maxRebootingNodes
          BY <3>2 DEF OverlapInv, LateReturns
        <4>2. QED
          BY <3>5, <4>1, KeepsRoom
      <3> HIDE DEF B
      <3>8. Cardinality(S) <= Cardinality(B) + Cardinality(Returned)
        BY <3>5, UnionBound
      <3>9. /\ Cardinality(B) \in Nat /\ Cardinality(Returned) \in Nat
            /\ Cardinality(S) \in Nat
        BY <3>5, NodesCardinality
      <3>10. Cardinality(S) <= 2 * maxRebootingNodes
        BY <3>6, <3>7, <3>8, <3>9, MaxAssumption
      <3>11. QED
        <4> HIDE DEF S, Wp
        <4> QED BY <1>4, <3>5, <3>10
    <2>5. QED
      BY <2>3, <2>4
  <1>8. QED
    BY <1>6, <1>7

\* Without crashes, at most twice maxRebootingNodes nodes are between their
\* before-reboot label and the end of their after-reboot checks, for every
\* cluster: OverlapBound, of markAfterReboot and markBeforeReboot together.
THEOREM OverlapBoundHolds == ASSUME NoCrashes PROVE Spec => []OverlapBound
  <1>1. Init => OverlapInv
    <2> SUFFICES ASSUME Init PROVE OverlapInv
      OBVIOUS
    <2>1. \A n \in Nodes : lockMap[n] = "idle"
      BY DEF Init, lockMap, lockOf, FreshNode, stillRebooting
    <2>2. Unreleased = {}
      BY <2>1 DEF Unreleased
    <2>3. QED
      BY <2>1, <2>2, FS_EmptySet, MaxAssumption
      DEF Init, OperatorInit, OverlapInv, ReturnSeen, LateReturns, Marking
  <1>2. TypeOK /\ BudgetInv /\ RebootInv /\ OverlapInv /\ [Next]_vars => OverlapInv'
    BY OverlapStep
  <1>3. OverlapInv => OverlapBound
    BY DEF OverlapInv, OverlapBound
  <1>4. QED
    BY <1>1, <1>2, <1>3, TypeCorrect, BudgetHolds, RebootInvariantHolds, PTL DEF Spec

=============================================================================
