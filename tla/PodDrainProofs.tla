--------------------------- MODULE PodDrainProofs ---------------------------
(***************************************************************************)
(* Proofs about the drain of a node, for every set of pods and DaemonSets  *)
(* and every grace period.                                                 *)
(***************************************************************************)
EXTENDS PodDrain, TLAPS

\* A pod the drain leaves where it is.
Spared(p) == p \in Mirror \cup System \/ OwnerRefs[p] \cap existed # {}

\* Once the node is cordoned, the scheduler assigns it pods only as long as it
\* does not know.
Cordoned ==
    /\ pc \notin {"cordon", "exited"} => unschedulable
    /\ pc # "exited" => assigned \subseteq unaware

\* A listed pod was bound.
ListedBound == listed \subseteq running \cup ended

\* Before the List there is nothing to delete, before the waits nothing has
\* been given up.
NotYet ==
    /\ pc \in {"cordon", "list"} => pods = {}
    /\ pc \notin {"wait", "reboot"} => timedOut = {}

\* What the history keeps of the DaemonSets since the List.
SinceList ==
    pc \notin {"cordon", "list", "exited"} =>
        daemonSets \subseteq existed /\ DaemonSets \ daemonSets \subseteq missing

\* Pods for deletion are no mirror pods, and none whose DaemonSet has existed
\* ever since the List, but for those the lookup failed for.
Deletable ==
    \A p \in pods :
        p \notin Mirror /\ (OwnerRefs[p] \cap DaemonSets \subseteq missing \/ p \in failed)

\* Where a pod on the node is that the drain does not leave there: behind the
\* List, still to be looked at, for deletion, or waited for and given up.
Accounted ==
    \A p \in running : \/ Spared(p) \/ p \in unaware \ listed
                       \/ pc \in {"cordon", "list", "exited"}
                       \/ pc = "lookup" /\ p \in todo \cup pods
                       \/ pc = "delete" /\ p \in pods
                       \/ pc = "wait" /\ p \in todo \cup timedOut \cup failed
                       \/ pc = "reboot" /\ p \in timedOut \cup failed

\* The inductive invariant.
DrainInv ==
    TypeOK /\ Cordoned /\ ListedBound /\ NotYet /\ SinceList /\ Deletable /\ Accounted

-----------------------------------------------------------------------------
LEMMA InitDrain == Init => DrainInv
BY PodsAssumption DEF Init, DrainInv, TypeOK, Cordoned, ListedBound, NotYet, SinceList,
   Deletable, Accounted

\* Scheduler, kubelet and DaemonSet controller keep the invariant.
LEMMA ClusterKeeps == DrainInv /\ ClusterStep => DrainInv'
<1> SUFFICES ASSUME DrainInv, ClusterStep
             PROVE  DrainInv'
  OBVIOUS
<1> USE PodsAssumption DEF DrainInv, agent, history
<1>1. CASE SchedulerInformed
  BY <1>1 DEF SchedulerInformed, TypeOK, Cordoned, ListedBound, NotYet, SinceList,
     Deletable, Accounted, Spared
<1>2. ASSUME NEW p \in Pods, Assign(p)
      PROVE  DrainInv'
  BY <1>2 DEF Assign, TypeOK, Cordoned, ListedBound, NotYet, SinceList, Deletable,
     Accounted, Spared
<1>3. ASSUME NEW p \in Pods, Bind(p)
      PROVE  DrainInv'
  <2>1. TypeOK' /\ Cordoned' /\ ListedBound' /\ NotYet' /\ SinceList' /\ Deletable'
    BY <1>3 DEF Bind, TypeOK, Cordoned, ListedBound, NotYet, SinceList, Deletable
  <2>2. pc = "exited" \/ p \in unaware \ listed
    BY <1>3 DEF Bind, TypeOK, Cordoned, ListedBound
  <2>3. Accounted'
    BY <1>3, <2>2 DEF Bind, Accounted, Spared
  <2> QED BY <2>1, <2>3
<1>4. ASSUME NEW p \in Pods, PodComes(p)
      PROVE  DrainInv'
  <2>1. TypeOK' /\ Cordoned' /\ ListedBound' /\ NotYet' /\ SinceList' /\ Deletable'
    BY <1>4 DEF PodComes, TypeOK, Cordoned, ListedBound, NotYet, SinceList, Deletable
  <2>2. Spared(p) \/ pc \in {"cordon", "list", "exited"}
    BY <1>4 DEF PodComes, SinceList, Spared
  <2>3. Accounted'
    BY <1>4, <2>2 DEF PodComes, Accounted, Spared
  <2> QED BY <2>1, <2>3
<1>5. ASSUME NEW p \in Pods, PodGoes(p)
      PROVE  DrainInv'
  BY <1>5 DEF PodGoes, TypeOK, Cordoned, ListedBound, NotYet, SinceList, Deletable,
     Accounted, Spared
<1>6. ASSUME NEW d \in DaemonSets, DaemonSetDeleted(d)
      PROVE  DrainInv'
  <2>1. TypeOK' /\ Cordoned' /\ ListedBound' /\ NotYet' /\ SinceList' /\ Accounted'
    BY <1>6 DEF DaemonSetDeleted, TypeOK, Cordoned, ListedBound, NotYet, SinceList,
       Accounted, Spared
  <2>2. missing \subseteq missing' /\ UNCHANGED <<pods, failed>>
    BY <1>6 DEF DaemonSetDeleted
  <2>3. Deletable'
    BY <2>2 DEF Deletable
  <2> QED BY <2>1, <2>3
<1>7. ASSUME NEW d \in DaemonSets, DaemonSetCreated(d)
      PROVE  DrainInv'
  <2>1. TypeOK' /\ Cordoned' /\ ListedBound' /\ NotYet' /\ SinceList' /\ Deletable'
    BY <1>7 DEF DaemonSetCreated, TypeOK, Cordoned, ListedBound, NotYet, SinceList, Deletable
  <2>2. existed \subseteq existed'
        /\ UNCHANGED <<running, unaware, listed, pc, todo, pods, timedOut, failed>>
    BY <1>7 DEF DaemonSetCreated
  <2>3. Accounted'
    BY <2>2 DEF Accounted, Spared
  <2> QED BY <2>1, <2>3
<1> QED BY <1>1, <1>2, <1>3, <1>4, <1>5, <1>6, <1>7 DEF ClusterStep

\* So does the agent.
LEMMA AgentKeeps == DrainInv /\ (DrainStep \/ RequestFails) => DrainInv'
<1> SUFFICES ASSUME DrainInv, DrainStep \/ RequestFails
             PROVE  DrainInv'
  OBVIOUS
<1> USE PodsAssumption DEF DrainInv, agentKeeps, cluster, history
<1>1. CASE MakeUnschedulable
  BY <1>1 DEF MakeUnschedulable, TypeOK, Cordoned, ListedBound, NotYet, SinceList,
     Deletable, Accounted, Spared
<1>2. CASE ListPods
  BY <1>2 DEF ListPods, TypeOK, Cordoned, ListedBound, NotYet, SinceList,
     Deletable, Accounted, Spared
<1>3. CASE processFails
  BY <1>3 DEF processFails, TypeOK, Cordoned, ListedBound, NotYet, SinceList,
     Deletable, Accounted, Spared
<1>4. ASSUME NEW p \in Pods, GetPodsForDeletion(p)
      PROVE  DrainInv'
  <2>1. TypeOK' /\ Cordoned' /\ ListedBound' /\ NotYet' /\ SinceList'
    BY <1>4 DEF GetPodsForDeletion, TypeOK, Cordoned, ListedBound, NotYet, SinceList
  <2>2. Deletable'
    BY <1>4 DEF GetPodsForDeletion, getOwnerDaemonset, SinceList, Deletable
  <2>3. Accounted'
    BY <1>4 DEF GetPodsForDeletion, getOwnerDaemonset, TypeOK, SinceList, Accounted, Spared
  <2> QED BY <2>1, <2>2, <2>3
<1>5. ASSUME NEW p \in Pods, LookupFails(p)
      PROVE  DrainInv'
  BY <1>5 DEF LookupFails, TypeOK, Cordoned, ListedBound, NotYet, SinceList,
     Deletable, Accounted, Spared
<1>6. CASE LookupsDone
  BY <1>6 DEF LookupsDone, FilterPods, TypeOK, Cordoned, ListedBound, NotYet, SinceList,
     Deletable, Accounted, Spared
<1>7. ASSUME NEW p \in Pods, Delete(p)
      PROVE  DrainInv'
  BY <1>7 DEF Delete, TypeOK, Cordoned, ListedBound, NotYet, SinceList,
     Deletable, Accounted, Spared
<1>8. CASE DeletesDone
  BY <1>8 DEF DeletesDone, TypeOK, Cordoned, ListedBound, NotYet, SinceList,
     Deletable, Accounted, Spared
<1>9. ASSUME NEW p \in Pods, PollPod(p)
      PROVE  DrainInv'
  BY <1>9 DEF PollPod, podDeleted, TypeOK, Cordoned, ListedBound, NotYet, SinceList,
     Deletable, Accounted, Spared
<1>10. ASSUME NEW p \in Pods, PollFails(p)
       PROVE  DrainInv'
  BY <1>10 DEF PollFails, TypeOK, Cordoned, ListedBound, NotYet, SinceList,
     Deletable, Accounted, Spared
<1>11. ASSUME NEW p \in Pods, ReapTimeout(p)
       PROVE  DrainInv'
  BY <1>11 DEF ReapTimeout, TypeOK, Cordoned, ListedBound, NotYet, SinceList,
     Deletable, Accounted, Spared
<1>12. CASE WaitsDone
  BY <1>12 DEF WaitsDone, TypeOK, Cordoned, ListedBound, NotYet, SinceList,
     Deletable, Accounted, Spared
<1> QED
  BY <1>1, <1>2, <1>3, <1>4, <1>5, <1>6, <1>7, <1>8, <1>9, <1>10, <1>11, <1>12
     DEF DrainStep, RequestFails

\* Every step of the drain and of its environment keeps the invariant.
LEMMA NextDrain == DrainInv /\ [Next]_vars => DrainInv'
<1>1. DrainInv /\ UNCHANGED vars => DrainInv'
  BY DEF vars, cluster, agent, history, DrainInv, TypeOK, Cordoned, ListedBound, NotYet,
     SinceList, Deletable, Accounted, Spared
<1> QED BY <1>1, ClusterKeeps, AgentKeeps DEF Next

\* Every variable keeps its type, and no pod of kube-system is ever deleted
\* or waited for.
THEOREM DrainTypeCorrect == Spec => []TypeOK
<1>1. DrainInv => TypeOK
  BY DEF DrainInv
<1> QED BY <1>1, InitDrain, NextDrain, PTL DEF Spec

\* Whatever comes and goes while the agent drains its node, and whatever
\* requests fail, a pod that is still there when logind is asked to reboot
\* is one the drain leaves alone, outlived the timeout, had a request fail, or
\* was bound behind the List by a scheduler that did not know of the cordon.
THEOREM WorkloadGoneHolds == Spec => []WorkloadGone
<1>1. DrainInv => WorkloadGone
  BY DEF DrainInv, Accounted, Spared, Explained, WorkloadGone
<1> QED BY <1>1, InitDrain, NextDrain, PTL DEF Spec

\* The agent never deletes a mirror pod, a pod of kube-system, or one whose
\* DaemonSet has existed ever since the List, unless it could not read it.
THEOREM DaemonPodsKeptHolds == Spec => DaemonPodsKept
<1>1. ASSUME DrainInv, [Next]_vars
      PROVE  \A p \in terminating' \ terminating :
                /\ p \notin Mirror \cup System
                /\ OwnerRefs[p] \cap DaemonSets \subseteq missing \/ p \in failed
  <2>1. terminating' \subseteq terminating \/ \E p \in Pods : Delete(p)
    BY <1>1 DEF Next, DrainStep, RequestFails, ClusterStep, vars, cluster, agentKeeps,
       MakeUnschedulable, ListPods, processFails, GetPodsForDeletion, LookupFails,
       LookupsDone, DeletesDone, PollPod, PollFails, ReapTimeout, WaitsDone, PodComes,
       PodGoes, SchedulerInformed, Assign, Bind, DaemonSetDeleted, DaemonSetCreated
  <2>2. ASSUME NEW p \in Pods, Delete(p)
        PROVE  /\ terminating' \subseteq terminating \cup {p}
               /\ p \notin Mirror \cup System
               /\ OwnerRefs[p] \cap DaemonSets \subseteq missing \/ p \in failed
    BY <1>1, <2>2 DEF Delete, DrainInv, TypeOK, Deletable
  <2> QED BY <2>1, <2>2
<1> QED BY <1>1, InitDrain, NextDrain, PTL DEF Spec, DaemonPodsKept

=============================================================================
