------------------------------ MODULE PodDrain ------------------------------
(***************************************************************************)
(* The drain of one node: what Klocksmith.process does between marking the *)
(* reboot in progress and asking logind for it, which UpdateAgent takes    *)
(* for the steps MakeUnschedulable and DrainPods.  The agent cordons the   *)
(* node, lists its pods, looks up the DaemonSets that own them, deletes    *)
(* the others and waits until each is gone or the reap timeout has passed. *)
(* Scheduler, kubelet and DaemonSet controller go on all the while.  The   *)
(* scheduler decides on its own copy of the Node, which lags behind, and   *)
(* binds the pod later still: a cordon does not stop what is under way.    *)
(*                                                                         *)
(* A pod stands for one UID: a pod made anew under an old name is another  *)
(* pod, as it is for waitForPodDeletion.  Nobody makes pods with their     *)
(* spec.nodeName set but kubelet and DaemonSet controller.                 *)
(***************************************************************************)
EXTENDS Naturals, FiniteSets

CONSTANTS
    Pods,        \* the pods that may come to this node
    Mirror,      \* those with the mirror annotation
    System,      \* those in namespace kube-system
    DaemonSets,  \* the DaemonSets that may exist, be deleted and be made anew
    OwnerRefs,   \* the DaemonSets a pod's owner references name, existing or not
    GracePeriods \* values of --grace-period, in seconds

ASSUME PodsAssumption == IsFiniteSet(Pods) /\ Mirror \cup System \subseteq Pods
ASSUME OwnerAssumption == DOMAIN OwnerRefs = Pods
ASSUME GraceAssumption == GracePeriods \subseteq Nat

VARIABLES
    unschedulable,   \* spec.unschedulable of the node
    informed,        \* the same in the scheduler's copy of the Node
    assigned,        \* pods the scheduler has chosen this node for and not yet bound
    running,         \* its pods
    ended,           \* the pods that were there before
    terminating,     \* pods the agent has deleted and the kubelet stops
    daemonSets,      \* the DaemonSets that exist
    pc,              \* what the agent does next
    listed,          \* podList.Items
    todo,            \* listed pods it has not looked at, or deleted, or seen gone
    pods,            \* pods for deletion
    timedOut,        \* pods whose wait ended by the timeout
    failed,          \* pods for which a lookup, or the Get of a poll, failed
    gracePeriod,     \* the agent's reapTimeout
    unaware,         \* history: pods assigned before the scheduler knew of the cordon
    existed, missing \* history: DaemonSets that existed, or did not, since the List

cluster == <<unschedulable, informed, assigned, running, ended, terminating, daemonSets>>
agent == <<pc, listed, todo, pods, timedOut, failed, gracePeriod>>
history == <<unaware, existed, missing>>
vars == <<cluster, agent, history>>

Init ==
    /\ unschedulable \in BOOLEAN /\ informed \in BOOLEAN
    /\ running \in SUBSET Pods
    /\ assigned = {} /\ ended = {} /\ terminating = {}
    /\ daemonSets \in SUBSET DaemonSets
    /\ pc = "cordon"
    /\ listed = {} /\ todo = {} /\ pods = {} /\ timedOut = {} /\ failed = {}
    /\ gracePeriod \in GracePeriods
    /\ unaware = {} /\ existed = {} /\ missing = {}

-----------------------------------------------------------------------------
(* The cluster.                                                            *)

SchedulerInformed ==
    /\ informed # unschedulable
    /\ informed' = unschedulable
    /\ UNCHANGED <<unschedulable, assigned, running, ended, terminating, daemonSets,
                   agent, history>>

\* The scheduler goes by its copy.
Assign(p) ==
    /\ ~informed /\ p \notin Mirror
    /\ p \notin assigned \cup running \cup ended
    /\ assigned' = assigned \cup {p}
    /\ unaware' = IF pc = "cordon" \/ unschedulable THEN unaware \cup {p} ELSE unaware
    /\ UNCHANGED <<unschedulable, informed, running, ended, terminating, daemonSets,
                   agent, existed, missing>>

\* The API server and the kubelet take a pod bound to a cordoned node.
Bind(p) ==
    /\ p \in assigned
    /\ assigned' = assigned \ {p} /\ running' = running \cup {p}
    /\ UNCHANGED <<unschedulable, informed, ended, terminating, daemonSets, agent, history>>

\* Kubelet and DaemonSet controller need no scheduler and heed no cordon.
PodComes(p) ==
    /\ p \notin assigned \cup running \cup ended
    /\ p \in Mirror \/ OwnerRefs[p] \cap daemonSets # {}
    /\ running' = running \cup {p}
    /\ UNCHANGED <<unschedulable, informed, assigned, ended, terminating, daemonSets,
                   agent, history>>

\* The kubelet has stopped a deleted pod, or the pod ended by itself.
PodGoes(p) ==
    /\ p \in running
    /\ running' = running \ {p} /\ ended' = ended \cup {p}
    /\ terminating' = terminating \ {p}
    /\ UNCHANGED <<unschedulable, informed, assigned, daemonSets, agent, history>>

DaemonSetDeleted(d) ==
    /\ d \in daemonSets
    /\ daemonSets' = daemonSets \ {d} /\ missing' = missing \cup {d}
    /\ UNCHANGED <<unschedulable, informed, assigned, running, ended, terminating,
                   agent, unaware, existed>>

DaemonSetCreated(d) ==
    /\ d \notin daemonSets
    /\ daemonSets' = daemonSets \cup {d} /\ existed' = existed \cup {d}
    /\ UNCHANGED <<unschedulable, informed, assigned, running, ended, terminating,
                   agent, unaware, missing>>

-----------------------------------------------------------------------------
(* The agent.                                                              *)

agentKeeps == <<timedOut, failed, gracePeriod, history>>

\* Mutant: the test of alreadyUnschedulable is inverted.
MakeUnschedulable_Inverted ==
    /\ pc = "cordon"
    /\ pc' = "list"
    /\ UNCHANGED <<cluster, listed, todo, pods, agentKeeps>>

\* Both branches: an unschedulable node is left alone.  No administrator is
\* at work here, so alreadyUnschedulable, read earlier, still tells the truth.
MakeUnschedulable ==
    /\ pc = "cordon"
    /\ unschedulable' = TRUE
    /\ pc' = "list"
    /\ UNCHANGED <<informed, assigned, running, ended, terminating, daemonSets,
                   listed, todo, pods, agentKeeps>>

ListPods ==
    /\ pc = "list"
    /\ listed' = running /\ todo' = running
    /\ pc' = "lookup"
    /\ existed' = daemonSets /\ missing' = DaemonSets \ daemonSets
    /\ UNCHANGED <<cluster, pods, timedOut, failed, gracePeriod, unaware>>

\* Cordon or List fails: the error is returned, and the agent's process exits.
\* The cordon may have been carried out all the same.
processFails ==
    /\ \/ pc = "cordon" /\ ~unschedulable /\ unschedulable' \in BOOLEAN
       \/ pc = "list" /\ UNCHANGED unschedulable
    /\ pc' = "exited"
    /\ UNCHANGED <<informed, assigned, running, ended, terminating, daemonSets,
                   listed, todo, pods, agentKeeps>>

\* getOwnerDaemonset returns an existing DaemonSet, or else an error.
getOwnerDaemonset(p) == OwnerRefs[p] \cap daemonSets # {}

\* Mutant: mirror pods are not skipped.
GetPodsForDeletion_Mirrors(p) ==
    /\ pc = "lookup" /\ p \in todo
    /\ todo' = todo \ {p}
    /\ pods' = IF getOwnerDaemonset(p) THEN pods ELSE pods \cup {p}
    /\ UNCHANGED <<cluster, pc, listed, agentKeeps>>

GetPodsForDeletion(p) ==
    /\ pc = "lookup" /\ p \in todo
    /\ todo' = todo \ {p}
    /\ pods' = IF p \in Mirror \/ getOwnerDaemonset(p) THEN pods ELSE pods \cup {p}
    /\ UNCHANGED <<cluster, pc, listed, agentKeeps>>

\* A DaemonSet could not be read: an error like any other.
LookupFails(p) ==
    /\ pc = "lookup" /\ p \in todo
    /\ p \notin Mirror /\ OwnerRefs[p] # {}
    /\ todo' = todo \ {p}
    /\ pods' = pods \cup {p}
    /\ failed' = failed \cup {p}
    /\ UNCHANGED <<cluster, pc, listed, timedOut, gracePeriod, history>>

\* Mutant: kube-system is not filtered out.
FilterPods_All(ps) == ps

FilterPods(ps) == ps \ System

LookupsDone ==
    /\ pc = "lookup" /\ todo = {}
    /\ pods' = FilterPods(pods)
    /\ todo' = pods'
    /\ pc' = "delete"
    /\ UNCHANGED <<cluster, listed, agentKeeps>>

\* The API server does not know a pod that has gone; that error and others
\* are logged and the drain goes on.
Delete(p) ==
    /\ pc = "delete" /\ p \in todo
    /\ todo' = todo \ {p}
    /\ terminating' \in {terminating, terminating \cup ({p} \cap running)}
    /\ UNCHANGED <<unschedulable, informed, assigned, running, ended, daemonSets,
                   pc, listed, pods, agentKeeps>>

DeletesDone ==
    /\ pc = "delete" /\ todo = {}
    /\ todo' = pods
    /\ pc' = "wait"
    /\ UNCHANGED <<cluster, listed, pods, agentKeeps>>

podDeleted(p) == p \notin running

PollPod(p) ==
    /\ pc = "wait" /\ p \in todo
    /\ podDeleted(p)
    /\ todo' = todo \ {p}
    /\ UNCHANGED <<cluster, pc, listed, pods, agentKeeps>>

\* client-go returns an empty pod beside the error; its UID differs.
PollFails(p) ==
    /\ pc = "wait" /\ p \in todo
    /\ todo' = todo \ {p}
    /\ failed' = failed \cup {p}
    /\ UNCHANGED <<cluster, pc, listed, pods, timedOut, gracePeriod, history>>

\* Mutant: a wait without timeout.
ReapTimeout_None(p) == FALSE /\ p \in Pods /\ UNCHANGED vars

\* PollImmediate with a timeout of 0 polls for ever.
ReapTimeout(p) ==
    /\ gracePeriod # 0
    /\ pc = "wait" /\ p \in todo
    /\ todo' = todo \ {p}
    /\ timedOut' = timedOut \cup {p}
    /\ UNCHANGED <<cluster, pc, listed, pods, failed, gracePeriod, history>>

\* wg.Wait returns and logind is asked to reboot.
WaitsDone ==
    /\ pc = "wait" /\ todo = {}
    /\ pc' = "reboot"
    /\ UNCHANGED <<cluster, listed, todo, pods, agentKeeps>>

-----------------------------------------------------------------------------
DrainStep ==
    \/ MakeUnschedulable \/ ListPods \/ LookupsDone \/ DeletesDone \/ WaitsDone
    \/ \E p \in Pods : GetPodsForDeletion(p) \/ Delete(p)
                       \/ PollPod(p) \/ ReapTimeout(p)

RequestFails == processFails \/ \E p \in Pods : LookupFails(p) \/ PollFails(p)

ClusterStep ==
    \/ SchedulerInformed
    \/ \E p \in Pods : Assign(p) \/ Bind(p) \/ PodComes(p) \/ PodGoes(p)
    \/ \E d \in DaemonSets : DaemonSetDeleted(d) \/ DaemonSetCreated(d)

Next == DrainStep \/ RequestFails \/ ClusterStep

Spec == Init /\ [][Next]_vars

\* The agent goes on; the kubelet promises nothing.
FairSpec == Spec /\ WF_vars(DrainStep)

-----------------------------------------------------------------------------
\* Type invariant; no pod of kube-system is deleted or waited for.
TypeOK ==
    /\ unschedulable \in BOOLEAN /\ informed \in BOOLEAN
    /\ terminating \subseteq running /\ running \subseteq Pods
    /\ ended \subseteq Pods \ running
    /\ assigned \subseteq Pods \ (running \cup ended)
    /\ daemonSets \cup existed \cup missing \subseteq DaemonSets
    /\ pc \in {"cordon", "list", "lookup", "delete", "wait", "reboot", "exited"}
    /\ listed \cup todo \cup pods \cup unaware \subseteq Pods
    /\ pc \in {"delete", "wait"} => pods \cap System = {} /\ todo \subseteq pods
    /\ timedOut \subseteq pods /\ failed \subseteq Pods
    /\ gracePeriod \in GracePeriods

\* A pod the drain leaves on the node, or did not get rid of in time, or that
\* a request failed for.
Explained(p) ==
    \/ p \in Mirror \cup System \cup timedOut \cup failed
    \/ OwnerRefs[p] \cap existed # {}

\* When the machine is told to reboot, a pod still on it is one the drain
\* leaves there (a mirror or kube-system pod, or one of a DaemonSet that has
\* existed since the List), one that outlived the reap timeout, one a request
\* failed for, or else one the scheduler chose the node for before it knew of
\* the cordon and bound after the List.
WorkloadGone ==
    pc = "reboot" => \A p \in running : Explained(p) \/ p \in unaware \ listed

\* The node is drained before it is rebooted: when the agent asks for the
\* reboot, a pod still there is one the drain leaves or has outlived the reap
\* timeout.  Neither a late binding nor a failed request is an excuse.
NodeDrained ==
    [][pc' = "reboot" /\ pc # "reboot" =>
          \A p \in running : \/ p \in Mirror \cup System \cup timedOut
                              \/ OwnerRefs[p] \cap existed # {}]_vars

\* The agent never deletes a mirror pod or a kube-system pod, nor a pod one of
\* whose DaemonSets has existed ever since the List, unless it failed to find
\* out; one deleted and made anew meanwhile may be too late for its pods.
DaemonPodsKept ==
    [][\A p \in terminating' \ terminating :
          /\ p \notin Mirror \cup System
          /\ OwnerRefs[p] \cap DaemonSets \subseteq missing \/ p \in failed]_vars

\* The drain ends, in a reboot or the exit of the agent, even if pods never
\* stop or could not be deleted.  Only with a grace period of 0, which bounds
\* nothing, may it wait for ever, and then for pods that do not stop.
DrainEnds ==
    \/ <>(pc \in {"reboot", "exited"})
    \/ gracePeriod = 0 /\ <>[](pc = "wait" /\ todo # {} /\ todo \subseteq running)

=============================================================================
