--------------------------- MODULE UpdateOperator ---------------------------
(***************************************************************************)
(* update-operator: Kontroller.process, the reconciliation pass that runs  *)
(* every 30 seconds, as the sequence of API requests it makes.             *)
(*                                                                         *)
(* Each of the five functions of a pass lists the nodes, filters the list, *)
(* and then updates the selected nodes one request at a time.  Everything  *)
(* the filters compute comes from the list, so the list is represented by  *)
(* its result: todo, the nodes still to be updated.  The updates read the  *)
(* node again, but (cleanupState apart) they do not evaluate the filter    *)
(* again: whatever the agents do in between goes unnoticed.                *)
(*                                                                         *)
(* The items of a list come in the API server's order, which the code does *)
(* not rely on; here a loop takes the nodes of todo in any order.          *)
(***************************************************************************)
EXTENDS NodeObject

CONSTANTS
    maxRebootingNodes,   \* 1 in the code
    HasWindow            \* is a reboot window configured?

ASSUME MaxAssumption    == maxRebootingNodes \in Nat \ {0}
ASSUME WindowAssumption == HasWindow \in BOOLEAN

VARIABLES
    phase,        \* the function of the pass that is running, or "idle"
    todo          \* the listed nodes this function has still to update

operatorVars == <<phase, todo>>

Phase == {"idle", "cleanupState", "checkAfterReboot", "markAfterReboot",
          "checkBeforeReboot", "rebootWindow", "markBeforeReboot"}

OperatorInit ==
    /\ phase = "idle"
    /\ todo = {}

-----------------------------------------------------------------------------
(* The node list of a function, reduced to the nodes it will update.       *)

\* The list request of function f, made when its predecessor p is done.
List(p, f, selected) ==
    /\ phase = p
    /\ todo = {}
    /\ phase' = f
    /\ todo' = selected
    /\ UNCHANGED node

\* One iteration of the update loop of function f, for the listed node n.
ForListed(f, n) ==
    /\ phase = f
    /\ n \in todo
    /\ todo' = todo \ {n}
    /\ UNCHANGED phase

-----------------------------------------------------------------------------
(* cleanupState: a node labelled before-reboot that no longer wants a      *)
(* reboot loses the label and its before-reboot annotations.               *)

cleanup(o) ==
    IF o.beforeReboot /\ ~wantsReboot(o)
    THEN [o EXCEPT !.beforeReboot = FALSE, !.checks = @ \ BeforeAnnos]
    ELSE o

ListCleanupState == List("idle", "cleanupState", Nodes)

cleanupState(n) ==
    /\ ForListed("cleanupState", n)
    /\ UpdateNodeRetry(n, cleanup(node[n]))

-----------------------------------------------------------------------------
(* checkAfterReboot: every after-reboot annotation is set, so take the     *)
(* label, the annotations and the permission to reboot away.               *)

completeReboot(o) ==
    [o EXCEPT !.afterReboot = FALSE,
              !.checks = @ \ AfterAnnos,
              !.okToReboot = FALSE]

ListCheckAfterReboot ==
    List("cleanupState", "checkAfterReboot",
         {n \in Nodes : node[n].afterReboot /\ hasAllAnnotations(node[n], AfterAnnos)})

checkAfterReboot(n) ==
    /\ ForListed("checkAfterReboot", n)
    /\ UpdateNodeRetry(n, completeReboot(node[n]))

-----------------------------------------------------------------------------
(* markAfterReboot: the agent is back and has cleared reboot-needed; label *)
(* the node after-reboot, dropping check results of an earlier reboot.     *)

\* Mutant: annotations left over from an earlier reboot are kept.
markAfter_KeepsChecks(o) == [o EXCEPT !.afterReboot = TRUE]

markAfter(o) == [o EXCEPT !.checks = @ \ AfterAnnos, !.afterReboot = TRUE]

ListMarkAfterReboot ==
    List("checkAfterReboot", "markAfterReboot",
         {n \in Nodes : justRebooted(node[n]) /\ ~node[n].afterReboot})

markAfterReboot(n) ==
    /\ ForListed("markAfterReboot", n)
    /\ UpdateNodeRetry(n, markAfter(node[n]))

-----------------------------------------------------------------------------
(* checkBeforeReboot: every before-reboot annotation is set, so drop the   *)
(* label and the annotations and permit the reboot.                        *)

permitReboot(o) ==
    [o EXCEPT !.beforeReboot = FALSE,
              !.checks = @ \ BeforeAnnos,
              !.okToReboot = TRUE]

ListCheckBeforeReboot ==
    List("markAfterReboot", "checkBeforeReboot",
         {n \in Nodes : node[n].beforeReboot /\ hasAllAnnotations(node[n], BeforeAnnos)})

checkBeforeReboot(n) ==
    /\ ForListed("checkBeforeReboot", n)
    /\ UpdateNodeRetry(n, permitReboot(node[n]))

-----------------------------------------------------------------------------
(* markBeforeReboot: inside the window, and with fewer than                *)
(* maxRebootingNodes nodes rebooting, label some of the rebootable nodes.  *)

\* Mutants: one of the lists is not appended.
rebootingNodesCount_NoBefore ==
    Cardinality({n \in Nodes : stillRebooting(node[n])})
      + Cardinality({n \in Nodes : node[n].afterReboot})

rebootingNodesCount_NoStillRebooting ==
    Cardinality({n \in Nodes : node[n].beforeReboot})
      + Cardinality({n \in Nodes : node[n].afterReboot})

rebootingNodesCount_NoAfter ==
    Cardinality({n \in Nodes : stillRebooting(node[n])})
      + Cardinality({n \in Nodes : node[n].beforeReboot})

\* len(rebootingNodes): three filtered lists appended to each other.
rebootingNodesCount ==
    Cardinality({n \in Nodes : stillRebooting(node[n])})
      + Cardinality({n \in Nodes : node[n].beforeReboot})
      + Cardinality({n \in Nodes : node[n].afterReboot})

rebootableNodes ==
    {n \in Nodes : wantsReboot(node[n]) /\ ~node[n].beforeReboot}

\* The possible values of chosenNodes: as many rebootable nodes as there is
\* room for, or all of them.
ChosenNodes ==
    LET remaining == maxRebootingNodes - rebootingNodesCount
    IN  IF remaining <= 0
        THEN {{}}
        ELSE {S \in SUBSET rebootableNodes :
                /\ Cardinality(S) <= remaining
                /\ S = rebootableNodes \/ Cardinality(S) = remaining}

\* Mutant: annotations left over from an earlier reboot are kept.
markBefore_KeepsChecks(o) == [o EXCEPT !.beforeReboot = TRUE]

markBefore(o) == [o EXCEPT !.checks = @ \ BeforeAnnos, !.beforeReboot = TRUE]

ListMarkBeforeReboot ==
    \E chosen \in ChosenNodes : List("checkBeforeReboot", "rebootWindow", chosen)

\* There is no window, or the time is inside it.
InsideWindow ==
    /\ phase = "rebootWindow"
    /\ phase' = "markBeforeReboot"
    /\ UNCHANGED <<node, todo>>

OutsideWindow ==
    /\ HasWindow
    /\ phase = "rebootWindow"
    /\ phase' = "idle"
    /\ todo' = {}
    /\ UNCHANGED node

\* The clock is read after the list request has returned.
CheckRebootWindow == InsideWindow \/ OutsideWindow

markBeforeReboot(n) ==
    /\ ForListed("markBeforeReboot", n)
    /\ UpdateNodeRetry(n, markBefore(node[n]))

ProcessDone ==
    /\ phase = "markBeforeReboot"
    /\ todo = {}
    /\ phase' = "idle"
    /\ UNCHANGED <<node, todo>>

-----------------------------------------------------------------------------
(* A List or Update fails, or the operator process dies or loses its       *)
(* lease: the pass is given up and everything it had listed is forgotten.  *)

ProcessFails ==
    /\ phase # "idle"
    /\ phase' = "idle"
    /\ todo' = {}
    /\ UNCHANGED node

process ==
    \/ ListCleanupState
    \/ ListCheckAfterReboot
    \/ ListMarkAfterReboot
    \/ ListCheckBeforeReboot
    \/ ListMarkBeforeReboot
    \/ CheckRebootWindow
    \/ ProcessDone
    \/ \E n \in Nodes : \/ cleanupState(n)
                        \/ checkAfterReboot(n)
                        \/ markAfterReboot(n)
                        \/ checkBeforeReboot(n)
                        \/ markBeforeReboot(n)

=============================================================================
