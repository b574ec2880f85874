------------------------- MODULE AgentManagerProofs -------------------------
(***************************************************************************)
(* Proofs about the agent manager, for every set of versions and nodes and *)
(* any number of operators that follow each other, failures and acts of    *)
(* the administrator.                                                      *)
(***************************************************************************)
EXTENDS AgentManager, TLAPS

\* What the operator has found out is still so when it acts on it: there is
\* one operator, and nobody else touches its DaemonSet.
FoundInv ==
    /\ pc = "delete" => Manageable /\ listed = daemonSets
    /\ pc = "create" => daemonSets = {}

\* The inductive invariant.
ManagerInv == TypeOK /\ FoundInv /\ RunsWithAgents

-----------------------------------------------------------------------------
\* What each verdict on the list says about it.
LEMMA VerdictMeans ==
    ASSUME TypeOK
    PROVE  /\ verdict(daemonSets) \in {"create", "exit", "delete", "run"}
           /\ verdict(daemonSets) = "create" => daemonSets = {}
           /\ verdict(daemonSets) = "delete" => Manageable
           /\ verdict(daemonSets) = "run" =>
                 \E d \in daemonSets : d.version \in Versions /\ ~tooOld(d)
<1>1. \A d \in daemonSets : d.version \in Versions \cup {NoVersion}
  BY DEF TypeOK, DaemonSet
<1>2. CASE daemonSets = {}
  <2>1. verdict(daemonSets) = "create"
    BY <1>2 DEF verdict
  <2> QED BY <1>2, <2>1
<1>3. CASE daemonSets # {} /\ ~Manageable
  <2>1. verdict(daemonSets) = "exit"
    BY <1>3 DEF verdict, Manageable
  <2> QED BY <2>1
<1>4. CASE daemonSets # {} /\ Manageable
  <2>1. verdict(daemonSets) \in {"delete", "run"}
        /\ (verdict(daemonSets) = "run" => \A d \in daemonSets : ~tooOld(d))
    BY <1>4 DEF verdict, Manageable
  <2> QED BY <1>1, <1>4, <2>1 DEF Manageable
<1> QED BY <1>2, <1>3, <1>4

\* The invariant holds before the first operator has started.
LEMMA InitManager == Init => ManagerInv
BY NodesAssumption, BoundsAssumption
   DEF Init, ManagerInv, TypeOK, FoundInv, RunsWithAgents

\* Deleting what was listed leaves nothing behind.
LEMMA AllDeleted ==
    ASSUME pc = "delete", FoundInv
    PROVE  daemonSets \ deleted = {}
BY DEF FoundInv, deleted

\* The DaemonSet to be created is as new as the operator.
LEMMA NewDaemonSet ==
    ASSUME TypeOK
    PROVE  agentDaemonset \in DaemonSet /\ agentDaemonset.version = version
           /\ version \in Nat /\ version >= version
BY VersionsAssumption DEF agentDaemonset, DaemonSet, TypeOK

\* Every step keeps the invariant.
LEMMA NextManager == ManagerInv /\ [Next]_vars => ManagerInv'
<1> SUFFICES ASSUME ManagerInv, [Next]_vars
             PROVE  ManagerInv'
  OBVIOUS
<1> USE NodesAssumption, BoundsAssumption, VersionsAssumption
        DEF ManagerInv, labelVars, managerVars
<1>1. CASE ListDaemonSets
  <2>1. TypeOK'
    BY <1>1, VerdictMeans DEF ListDaemonSets, TypeOK
  <2>2. FoundInv'
    BY <1>1, VerdictMeans DEF ListDaemonSets, FoundInv, Manageable
  <2>3. ASSUME pc' = "run"
        PROVE  \E d \in daemonSets : d.version >= version
    <3>1. PICK d \in daemonSets : d.version \in Versions /\ ~tooOld(d)
      BY <1>1, <2>3, VerdictMeans DEF ListDaemonSets
    <3>2. d.version \in Nat /\ version \in Nat /\ ~(d.version < version)
      BY <3>1 DEF tooOld, TypeOK
    <3> QED BY <3>2
  <2>4. RunsWithAgents'
    BY <1>1, <2>3 DEF ListDaemonSets, RunsWithAgents
  <2> QED BY <2>1, <2>2, <2>4
<1>2. CASE DeleteDaemonSet
  BY <1>2, AllDeleted DEF DeleteDaemonSet, TypeOK, FoundInv, RunsWithAgents
<1>3. CASE CreateDaemonSet
  BY <1>3, NewDaemonSet DEF CreateDaemonSet, created, TypeOK, FoundInv, RunsWithAgents
<1>4. CASE ManagerFails
  BY <1>4, NewDaemonSet DEF ManagerFails, Exit, created, TypeOK, FoundInv, RunsWithAgents
<1>5. CASE Restart
  BY <1>5 DEF Restart, TypeOK, FoundInv, RunsWithAgents
<1>6. CASE ListNodes
  BY <1>6 DEF ListNodes, nodesToLabel, TypeOK, FoundInv, RunsWithAgents, Manageable
<1>7. ASSUME NEW n \in Nodes, LabelNode(n)
      PROVE  ManagerInv'
  BY <1>7 DEF LabelNode, TypeOK, FoundInv, RunsWithAgents, Manageable
<1>8. ASSUME NEW n \in Nodes, LabelFails(n)
      PROVE  ManagerInv'
  BY <1>8 DEF LabelFails, TypeOK, FoundInv, RunsWithAgents, Manageable
<1>9. ASSUME NEW n \in Nodes, NEW v \in {"absent", "true", "false"}, AdminLabels(n, v)
      PROVE  ManagerInv'
  BY <1>9 DEF AdminLabels, TypeOK, FoundInv, RunsWithAgents, Manageable
<1>10. CASE UNCHANGED vars
  BY <1>10 DEF vars, TypeOK, FoundInv, RunsWithAgents, Manageable
<1> QED
  BY <1>1, <1>2, <1>3, <1>4, <1>5, <1>6, <1>7, <1>8, <1>9, <1>10
     DEF Next, ManagerStep, LabelerStep

\* Every variable of the agent manager keeps its type.
THEOREM ManagerTypeCorrect == Spec => []TypeOK
<1>1. ManagerInv => TypeOK
  BY DEF ManagerInv
<1> QED BY <1>1, InitManager, NextManager, PTL DEF Spec

\* An operator that has come past runDaemonsetUpdate has agents at least as
\* new as itself, wherever the operators before it died.
THEOREM RunsWithAgentsHolds == Spec => []RunsWithAgents
<1>1. ManagerInv => RunsWithAgents
  BY DEF ManagerInv
<1> QED BY <1>1, InitManager, NextManager, PTL DEF Spec

\* runDaemonsetUpdate makes no mess: one DaemonSet never becomes two, and
\* where it is not clear which is the agents' nothing is touched.
THEOREM ManageableKeptHolds == Spec => ManageableKept
<1>1. ASSUME ManagerInv, [Next]_vars
      PROVE  UNCHANGED daemonSets \/ (Manageable /\ Manageable')
  <2> USE DEF ManagerInv
  <2>1. CASE UNCHANGED daemonSets
    BY <2>1
  <2>2. CASE daemonSets' = daemonSets \ deleted /\ pc = "delete"
    <3>1. daemonSets' = {} /\ Manageable
      BY <1>1, <2>2, AllDeleted DEF FoundInv
    <3>2. Manageable'
      BY <3>1 DEF Manageable
    <3> QED BY <3>1, <3>2
  <2>3. CASE daemonSets' = daemonSets \cup {agentDaemonset} /\ pc = "create"
    <3>1. daemonSets = {} /\ daemonSets' = {agentDaemonset}
      BY <1>1, <2>3 DEF FoundInv
    <3>2. agentDaemonset.version # NoVersion
      BY <1>1, NewDaemonSet, VersionsAssumption DEF TypeOK
    <3>3. Manageable
      BY <3>1 DEF Manageable
    <3>4. Manageable'
      BY <3>1, <3>2 DEF Manageable
    <3> QED BY <3>3, <3>4
  <2> QED
    BY <1>1, <2>1, <2>2, <2>3 DEF Next, ManagerStep, LabelerStep, ListDaemonSets,
       DeleteDaemonSet, CreateDaemonSet, created, ManagerFails, Restart, ListNodes,
       LabelNode, LabelFails, AdminLabels, managerVars, vars
<1>2. ASSUME UNCHANGED daemonSets \/ (Manageable /\ Manageable')
      PROVE  Manageable' = Manageable /\ (~Manageable => UNCHANGED daemonSets)
  BY <1>2 DEF Manageable
<1> QED BY <1>1, <1>2, InitManager, NextManager, PTL DEF Spec, ManageableKept

=============================================================================
