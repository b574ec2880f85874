---------------------------- MODULE AgentManager ----------------------------
(***************************************************************************)
(* What the operator does about the agents themselves: runDaemonsetUpdate, *)
(* once, before its reconciliation loop starts, and legacyLabeler, beside  *)
(* it every 30 seconds.  Operator processes follow each other, of older or *)
(* newer versions: the deployment is upgraded and rolled back.             *)
(***************************************************************************)
EXTENDS Naturals

CONSTANTS
    Versions,         \* versions of operator and agent, as numbers
    NoVersion,        \* version annotation missing, or no semver
    Nodes,            \* nodes of the cluster
    ContainerLinux,   \* those whose OS image says Container Linux
    MaxExits,         \* bound: ends of the operator process
    MaxErrors,        \* bound: failed requests of the labeler
    MaxAdmin          \* bound: labels set by the administrator

ASSUME VersionsAssumption == Versions \subseteq Nat /\ NoVersion \notin Versions
ASSUME NodesAssumption == ContainerLinux \subseteq Nodes
ASSUME BoundsAssumption ==
    MaxExits \in Nat /\ MaxErrors \in Nat /\ MaxAdmin \in Nat

VARIABLES
    daemonSets,    \* DaemonSets with managedByOperatorLabels: name and version
    taken,         \* has a DaemonSet without those labels taken the name?
    version,       \* version of the operator process
    pc,            \* the request runDaemonsetUpdate makes next
    listed,        \* agentDaemonsets.Items
    label,         \* label agent of each node: "absent", "true" or "false"
    toLabel,       \* nodesToLabel still to be updated
    exits, errors, acts   \* counters for the bounds

managerVars == <<daemonSets, taken, version, pc, listed, exits>>
labelVars   == <<label, toLabel, errors, acts>>
vars == <<managerVars, labelVars>>

\* daemonsetName, or a name somebody else gave a DaemonSet so labelled.
DaemonSet == [name : {"agent-ds", "other"}, version : Versions \cup {NoVersion}]

Init ==
    /\ daemonSets \in SUBSET DaemonSet
    /\ \A d, e \in daemonSets : d.name = e.name => d = e
    /\ taken \in BOOLEAN /\ (taken => \A d \in daemonSets : d.name # "agent-ds")
    /\ version \in Versions /\ pc = "list" /\ listed = {}
    /\ label = [n \in Nodes |-> "absent"] /\ toLabel = {}
    /\ exits = 0 /\ errors = 0 /\ acts = 0

-----------------------------------------------------------------------------
(* runDaemonsetUpdate.                                                     *)

\* Mutant: the comparison is turned around.
tooOld_Reversed(d) == d.version > version

tooOld(d) == d.version < version

\* What the list calls for; "exit" is an error return.
verdict(ds) ==
    IF ds = {} THEN "create"
    ELSE IF \E d, e \in ds : d # e \/ d.version = NoVersion THEN "exit"
    ELSE IF \E d \in ds : tooOld(d) THEN "delete"
    ELSE "run"

ListDaemonSets ==
    /\ pc = "list"
    /\ listed' = daemonSets
    /\ pc' = verdict(daemonSets)
    /\ UNCHANGED <<daemonSets, taken, version, exits, labelVars>>

deleted == {d \in daemonSets : \E e \in listed : e.name = d.name}

\* Mutant: nothing is deleted.
DeleteDaemonSet_Not ==
    /\ pc = "delete"
    /\ pc' = "create"
    /\ UNCHANGED <<daemonSets, taken, version, listed, exits, labelVars>>

DeleteDaemonSet ==
    /\ pc = "delete"
    /\ daemonSets' = daemonSets \ deleted
    /\ pc' = "create"
    /\ UNCHANGED <<taken, version, listed, exits, labelVars>>

\* Mutant: the new DaemonSet carries the version of the one it replaces.
agentDaemonset_OldVersion ==
    [name |-> "agent-ds",
     version |-> IF listed = {} THEN version ELSE (CHOOSE d \in listed : TRUE).version]

agentDaemonset == [name |-> "agent-ds", version |-> version]

\* The API server answers AlreadyExists, whatever the labels.
alreadyExists == taken \/ \E d \in daemonSets : d.name = agentDaemonset.name

created == IF alreadyExists THEN daemonSets ELSE daemonSets \cup {agentDaemonset}

\* The error is returned, and the process exits.
CreateDaemonSet ==
    /\ pc = "create"
    /\ daemonSets' = created
    /\ pc' = IF alreadyExists THEN "exit" ELSE "run"
    /\ UNCHANGED <<taken, version, listed, exits, labelVars>>

Exit ==
    /\ exits < MaxExits
    /\ exits' = exits + 1
    /\ pc' = "exit"

\* The process dies, or a request fails and Run returns its error; the
\* request may have been carried out.
ManagerFails ==
    /\ pc # "exit"
    /\ Exit
    /\ \/ UNCHANGED daemonSets
       \/ pc = "delete" /\ daemonSets' = daemonSets \ deleted
       \/ pc = "create" /\ daemonSets' = created
    /\ UNCHANGED <<taken, version, listed, labelVars>>

\* The next operator process, perhaps of another version.
Restart ==
    /\ pc = "exit"
    /\ version' \in IF exits < MaxExits THEN Versions ELSE {version}
    /\ pc' = "list" /\ listed' = {} /\ toLabel' = {}
    /\ UNCHANGED <<daemonSets, taken, exits, label, errors, acts>>

-----------------------------------------------------------------------------
(* legacyLabeler, as long as the process lives.                            *)

\* Mutants: one filter is missing, or inverted.
nodesToLabel_AllSystems == {n \in Nodes : label[n] = "absent"}
nodesToLabel_Labelled == {n \in ContainerLinux : label[n] # "absent"}

nodesToLabel == {n \in ContainerLinux : label[n] = "absent"}

ListNodes ==
    /\ pc # "exit" /\ toLabel = {}
    /\ toLabel' = nodesToLabel
    /\ UNCHANGED <<managerVars, label, errors, acts>>

LabelNode(n) ==
    /\ pc # "exit" /\ n \in toLabel
    /\ toLabel' = toLabel \ {n}
    /\ label' = [label EXCEPT ![n] = "true"]
    /\ UNCHANGED <<managerVars, errors, acts>>

\* The error is logged and the loop goes on.
LabelFails(n) ==
    /\ pc # "exit" /\ n \in toLabel
    /\ errors < MaxErrors
    /\ errors' = errors + 1
    /\ toLabel' = toLabel \ {n}
    /\ UNCHANGED <<managerVars, label, acts>>

\* The administrator opts a node in or out, or leaves it to the labeler.
AdminLabels(n, v) ==
    /\ label[n] # v
    /\ acts < MaxAdmin
    /\ acts' = acts + 1
    /\ label' = [label EXCEPT ![n] = v]
    /\ UNCHANGED <<managerVars, toLabel, errors>>

-----------------------------------------------------------------------------
ManagerStep == ListDaemonSets \/ DeleteDaemonSet \/ CreateDaemonSet \/ Restart

LabelerStep == ListNodes \/ \E n \in Nodes : LabelNode(n)

Next ==
    \/ ManagerStep
    \/ ManagerFails
    \/ LabelerStep
    \/ \E n \in Nodes : LabelFails(n)
    \/ \E n \in Nodes, v \in {"absent", "true", "false"} : AdminLabels(n, v)

Spec == Init /\ [][Next]_vars

\* The process goes on and is restarted; wait.Until calls the labeler again.
FairSpec == Spec /\ WF_vars(ManagerStep) /\ WF_vars(LabelerStep)

-----------------------------------------------------------------------------
\* Type invariant.
TypeOK ==
    /\ daemonSets \cup listed \subseteq DaemonSet
    /\ taken \in BOOLEAN /\ version \in Versions
    /\ pc \in {"list", "delete", "create", "run", "exit"}
    /\ label \in [Nodes -> {"absent", "true", "false"}]
    /\ toLabel \subseteq ContainerLinux
    /\ exits \in 0 .. MaxExits /\ errors \in 0 .. MaxErrors /\ acts \in 0 .. MaxAdmin

\* One DaemonSet at most, of a version that can be compared.
Manageable == \A d, e \in daemonSets : d = e /\ d.version # NoVersion

\* The operator starts to coordinate reboots only when there are agents at
\* least as new as itself, however many operators, of whatever versions, died
\* before it between deleting and creating the DaemonSet.
RunsWithAgents == pc = "run" => \E d \in daemonSets : d.version >= version

\* Nothing is touched where it is not clear which DaemonSet is the agents',
\* and one DaemonSet never becomes two.
ManageableKept == [][Manageable' = Manageable /\ (~Manageable => UNCHANGED daemonSets)]_vars

\* Unless a DaemonSet of somebody else has its name, the operator gets its
\* agents from every manageable state, although it may die after every
\* request, and be followed by an older or a newer one.
AgentsManaged ==
    Manageable /\ ~taken => <>[](pc = "run" /\ \E d \in daemonSets : d.version >= version)

\* A Container Linux node without the label is opted in, though labelling
\* it may fail and the operator die meanwhile; an operator that cannot manage
\* its DaemonSet exits again and again and may never get that far.
NodesLabelled ==
    Manageable /\ ~taken =>
        \A n \in ContainerLinux : label[n] = "absent" ~> label[n] # "absent"

=============================================================================
