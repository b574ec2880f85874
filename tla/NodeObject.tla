----------------------------- MODULE NodeObject -----------------------------
(***************************************************************************)
(* The Kubernetes Node objects as update-operator and update-agent see     *)
(* them: the annotations and labels of pkg/constants, the selectors both   *)
(* programs match them with, and k8sutil.UpdateNodeRetry, the one way both *)
(* programs write them (Unschedulable apart, see UpdateAgent).             *)
(*                                                                         *)
(* Only what some selector tells apart is kept of an annotation: reboot-   *)
(* needed and reboot-in-progress are compared with "true" and with         *)
(* "false", so they have three values; the others are only ever compared   *)
(* with "true".  The reboot-needed label is always written together with   *)
(* the annotation of the same name and read by nobody, and the status,     *)
(* version and id keys are read by nobody: they are left out.              *)
(***************************************************************************)
EXTENDS Integers, FiniteSets

CONSTANTS
    Nodes,          \* the nodes of the cluster
    BeforeAnnos,    \* --before-reboot-annotations
    AfterAnnos      \* --after-reboot-annotations

ASSUME NodesAssumption == IsFiniteSet(Nodes)

VARIABLE node       \* the API server's Node objects

Unset == ""
True  == "true"
False == "false"

AnnotationValue == {Unset, True, False}

Annos == BeforeAnnos \cup AfterAnnos

Node == [rebootNeeded           : AnnotationValue,
         rebootInProgress       : AnnotationValue,
         okToReboot             : BOOLEAN,
         rebootPaused           : BOOLEAN,
         agentMadeUnschedulable : BOOLEAN,
         beforeReboot           : BOOLEAN,        \* label before-reboot=true
         afterReboot            : BOOLEAN,        \* label after-reboot=true
         checks                 : SUBSET Annos,   \* check annotations equal to "true"
         unschedulable          : BOOLEAN]        \* Spec.Unschedulable

\* A node that neither program has touched yet.
FreshNode ==
    [rebootNeeded |-> Unset, rebootInProgress |-> Unset, okToReboot |-> FALSE,
     rebootPaused |-> FALSE, agentMadeUnschedulable |-> FALSE,
     beforeReboot |-> FALSE, afterReboot |-> FALSE, checks |-> {},
     unschedulable |-> FALSE]

-----------------------------------------------------------------------------
(* Selectors.                                                              *)

\* Mutant: the agent's two annotations are not looked at.
justRebooted_OkOnly(o) == o.okToReboot

justRebooted(o) ==
    /\ o.okToReboot
    /\ o.rebootNeeded = False
    /\ o.rebootInProgress = False

wantsReboot(o) ==
    /\ o.rebootNeeded = True
    /\ ~o.rebootPaused
    /\ ~o.okToReboot
    /\ o.rebootInProgress # True

stillRebooting(o) == o.okToReboot /\ o.rebootNeeded = True

\* The agent's own selector; the same two annotations as stillRebooting.
shouldReboot(o) == o.okToReboot /\ o.rebootNeeded = True

hasAllAnnotations(o, annotations) == annotations \subseteq o.checks

-----------------------------------------------------------------------------
(* UpdateNodeRetry: Get, apply f, Update, again on a conflict.  A call is  *)
(* one atomic application of f to the current object (NodeRequests shows   *)
(* it); one that fails has made that step at once, or never makes it.  An  *)
(* Update that the API server carries out after its caller has given up is *)
(* in NodeRequests, but not here.  Callers pass o = f(node[n]).            *)

UpdateNodeRetry(n, o) == node' = [node EXCEPT ![n] = o]

=============================================================================
