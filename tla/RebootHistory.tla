--------------------------- MODULE RebootHistory ---------------------------
(***************************************************************************)
(* RebootCluster with history variables, for properties that speak of what *)
(* happened earlier.  They observe every step and influence none.          *)
(***************************************************************************)
EXTENDS RebootCluster

VARIABLES
    rides,          \* how often the agent set out to reboot on the last reboot-ok
    passedBefore,   \* the checks written since the node was labelled before-reboot
    passedAfter,    \* the checks written since its reboot was permitted
    crashed         \* the nodes on which an agent was killed or that lost power

historyVars == <<rides, passedBefore, passedAfter, crashed>>

rises(n, f(_)) == ~f(node[n]) /\ f(node'[n])

HInit ==
    /\ Init
    /\ rides = [n \in Nodes |-> 0]
    /\ passedBefore = [n \in Nodes |-> {}]
    /\ passedAfter = [n \in Nodes |-> {}]
    /\ crashed = {}

okToReboot(o)   == o.okToReboot
beforeReboot(o) == o.beforeReboot

\* A new permission starts a new count.
CountRides ==
    rides' = [n \in Nodes |->
                IF rises(n, okToReboot) THEN 0
                ELSE IF pc[n] # "readSpec" /\ pc'[n] = "readSpec" THEN rides[n] + 1
                ELSE rides[n]]

\* A before-round begins with the label, an after-round with the permission
\* to reboot; an annotation belongs to the rounds it is written in.
RecordChecks ==
    LET written(n) == node'[n].checks \ node[n].checks
        since(f(_), n, passed) == IF rises(n, f) THEN {} ELSE passed
    IN  /\ passedBefore' = [n \in Nodes |->
               since(beforeReboot, n, passedBefore[n]) \cup written(n)]
        /\ passedAfter' = [n \in Nodes |->
               since(okToReboot, n, passedAfter[n]) \cup written(n)]

\* An agent killed before its first request starts as if for the first time.
RecordCrashes ==
    crashed' = crashed \cup {n \in Nodes : /\ budget'["crash"] # budget["crash"]
                                          /\ pc'[n] # pc[n]}

HNext == Next /\ CountRides /\ RecordChecks /\ RecordCrashes

HSpec == HInit /\ [][HNext]_<<vars, historyVars>>

-----------------------------------------------------------------------------
(* Safety.                                                                 *)

\* No reboot loop: an agent sets out to reboot at most once on a permission.
\* A restarted agent clears reboot-needed and waits for reboot-ok to go away
\* before it listens for a permission again, wherever it was interrupted.
NoRebootLoop == \A n \in Nodes : rides[n] <= 1

\* A node is permitted to reboot only if every before-reboot annotation was
\* written since it was labelled: results left over from an earlier round,
\* or written by a pod that outlived its label, do not count.
GrantAfterChecks ==
    \A n \in Nodes : node[n].okToReboot => BeforeAnnos \subseteq passedBefore[n]

\* On a node that has not crashed, an agent makes its node schedulable only if
\* every after-reboot annotation was written since the reboot was permitted.
UncordonAfterChecks ==
    \A n \in Nodes \ crashed : pc[n] = "uncordon" => AfterAnnos \subseteq passedAfter[n]

\* A crash harms only the node it strikes: of the other nodes, at most
\* maxRebootingNodes are out of service, and each of them reboots on a
\* permission it still has, although the operator cannot tell which nodes
\* crashed and what it decides for one node depends on all.
CrashesStayLocal ==
    /\ Cardinality(InReboot \ crashed) <= maxRebootingNodes
    /\ \A n \in Nodes \ crashed : pc[n] \in Reboot => shouldReboot(node[n])

=============================================================================
