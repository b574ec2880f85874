---------------------------- MODULE UpdateAgent ----------------------------
(***************************************************************************)
(* update-agent: Klocksmith.process, one instance per node, as the         *)
(* sequence of API requests it makes; its status goroutine; and the        *)
(* machine under it, which reboots.                                        *)
(*                                                                         *)
(* The agent waits for reboot-ok to appear, and to disappear, with a Get   *)
(* followed by a watch from the version the Get returned.  A watch reports *)
(* every later version of the node, late perhaps, but in order: what the   *)
(* agent acts on is that SOME version since the watch began satisfied the  *)
(* condition.  event[n] records that; the node may have changed again.     *)
(***************************************************************************)
EXTENDS NodeObject

VARIABLES
    pc,                    \* the next request of the agent on each node
    event,                 \* has the open watch met its condition?
    makeSchedulable,       \* local variable of process
    alreadyUnschedulable,  \* local variable of process
    rebootPending,         \* has logind accepted a reboot of the machine?
    needReboot             \* is update_engine at UPDATED_NEED_REBOOT?

agentVars == <<pc, event, makeSchedulable, alreadyUnschedulable,
               rebootPending, needReboot>>

\* The machine is shut down at "off"; the others are agent requests.
Startup == {"start", "reset", "getNotOk", "watchNotOk", "uncordon", "unmark"}
Waiting == {"getOk", "watchOk"}
Reboot  == {"readSpec", "mark", "cordon", "drain", "reboot", "sleep"}
PC      == Startup \cup Waiting \cup Reboot \cup {"off"}

AgentInit ==
    /\ pc = [n \in Nodes |-> "start"]
    /\ event = [n \in Nodes |-> FALSE]
    /\ makeSchedulable = [n \in Nodes |-> FALSE]
    /\ alreadyUnschedulable = [n \in Nodes |-> FALSE]
    /\ rebootPending = [n \in Nodes |-> FALSE]
    /\ needReboot = [n \in Nodes |-> FALSE]

\* Locals of process, and the update_engine status of the machine.
locals  == <<makeSchedulable, alreadyUnschedulable>>
machine == <<rebootPending, needReboot>>

goto(n, from, to) == pc[n] = from /\ pc' = [pc EXCEPT ![n] = to]

-----------------------------------------------------------------------------
(* Watches.  Conjoined to every step of the system: a watch that stays     *)
(* open remembers, and meets its condition when the node's new version     *)
(* satisfies it.                                                           *)

watchMatches(p, o) ==
    \/ p = "watchOk" /\ shouldReboot(o)
    \/ p = "watchNotOk" /\ ~o.okToReboot

WatchEvents ==
    event' = [n \in Nodes |-> \/ event[n] /\ pc'[n] = pc[n]
                              \/ watchMatches(pc'[n], node'[n])]

-----------------------------------------------------------------------------
(* Start of process: the agent's labels, then what the previous run left.  *)

CheckAnnotations(n) ==
    /\ goto(n, "start", "reset")
    /\ makeSchedulable' =
           [makeSchedulable EXCEPT ![n] = node[n].agentMadeUnschedulable]
    /\ UNCHANGED <<node, alreadyUnschedulable, machine>>

noReboot(o) == [o EXCEPT !.rebootInProgress = False, !.rebootNeeded = False]

ResetAnnotations(n) ==
    /\ goto(n, "reset", "getNotOk")
    /\ UpdateNodeRetry(n, noReboot(node[n]))
    /\ UNCHANGED <<locals, machine>>

\* Where process goes once reboot-ok is seen not to be "true".
afterNotOk(n) == IF makeSchedulable[n] THEN "uncordon" ELSE "getOk"

\* Mutant: the agent does not wait.
GetNotOkToReboot_NoWait(n) ==
    /\ goto(n, "getNotOk", afterNotOk(n))
    /\ UNCHANGED <<node, locals, machine>>

\* waitForNotOkToReboot, the Get.
GetNotOkToReboot(n) ==
    /\ goto(n, "getNotOk", IF node[n].okToReboot THEN "watchNotOk" ELSE afterNotOk(n))
    /\ UNCHANGED <<node, locals, machine>>

\* waitForNotOkToReboot, the watch.
WatchNotOkToReboot(n) ==
    /\ event[n]
    /\ goto(n, "watchNotOk", afterNotOk(n))
    /\ UNCHANGED <<node, locals, machine>>

-----------------------------------------------------------------------------
(* Undo the cordon, if it was the agent's.  Unschedulable reads the node   *)
(* once and sends that copy with the flag changed, so it takes effect only *)
(* if nobody wrote the node in between: success is an atomic change of the *)
(* flag, and a conflict fails the call (AgentFails).                       *)

schedulable(o)    == [o EXCEPT !.unschedulable = FALSE]
notMadeByAgent(o) == [o EXCEPT !.agentMadeUnschedulable = FALSE]

MakeSchedulable(n) ==
    /\ goto(n, "uncordon", "unmark")
    /\ UpdateNodeRetry(n, schedulable(node[n]))
    /\ UNCHANGED <<locals, machine>>

ClearMadeUnschedulable(n) ==
    /\ goto(n, "unmark", "getOk")
    /\ UpdateNodeRetry(n, notMadeByAgent(node[n]))
    /\ UNCHANGED <<locals, machine>>

-----------------------------------------------------------------------------
(* The status goroutine, started just before the agent first waits for     *)
(* reboot-ok and alive until the process ends.  The callback runs once per *)
(* change of operation and retries until its update succeeds; repeating it *)
(* would change nothing, since only a new process clears reboot-needed.    *)

\* Mutant: a value no selector knows.
rebootNeeded_Capital(o) == [o EXCEPT !.rebootNeeded = "True"]

rebootNeeded(o) == [o EXCEPT !.rebootNeeded = True]

updateStatusCallback(n) ==
    /\ pc[n] \in Waiting \cup Reboot
    /\ needReboot[n]
    /\ UpdateNodeRetry(n, rebootNeeded(node[n]))
    /\ UNCHANGED <<pc, locals, machine>>

-----------------------------------------------------------------------------
(* waitForOkToReboot, in a loop that only its success leaves.              *)

GetOkToReboot(n) ==
    /\ goto(n, "getOk", IF shouldReboot(node[n]) THEN "readSpec" ELSE "watchOk")
    /\ UNCHANGED <<node, locals, machine>>

WatchOkToReboot(n) ==
    /\ event[n]
    /\ goto(n, "watchOk", "readSpec")
    /\ UNCHANGED <<node, locals, machine>>

\* The watch is closed, expires or reports something else: Get again.
WatchOkFails(n) ==
    /\ goto(n, "watchOk", "getOk")
    /\ UNCHANGED <<node, locals, machine>>

-----------------------------------------------------------------------------
(* The way to the reboot: note who cordons the node, cordon it, drain it.  *)

ReadUnschedulable(n) ==
    /\ goto(n, "readSpec", "mark")
    /\ alreadyUnschedulable' =
           [alreadyUnschedulable EXCEPT ![n] = node[n].unschedulable]
    /\ UNCHANGED <<node, makeSchedulable, machine>>

\* The two forms of the annotations process writes before it cordons.
inProgress(o)     == [o EXCEPT !.rebootInProgress = True]
inProgressMade(o) == [o EXCEPT !.rebootInProgress = True,
                               !.agentMadeUnschedulable = TRUE]

MarkRebootInProgress(n) ==
    /\ \/ /\ alreadyUnschedulable[n]
          /\ goto(n, "mark", "drain")
          /\ UpdateNodeRetry(n, inProgress(node[n]))
       \/ /\ ~alreadyUnschedulable[n]
          /\ goto(n, "mark", "cordon")
          /\ UpdateNodeRetry(n, inProgressMade(node[n]))
    /\ UNCHANGED <<locals, machine>>

unschedulable(o) == [o EXCEPT !.unschedulable = TRUE]

MakeUnschedulable(n) ==
    /\ goto(n, "cordon", "drain")
    /\ UpdateNodeRetry(n, unschedulable(node[n]))
    /\ UNCHANGED <<locals, machine>>

\* Pods are listed, deleted and waited for; nothing here depends on which.
DrainPods(n) ==
    /\ goto(n, "drain", "reboot")
    /\ UNCHANGED <<node, locals, machine>>

\* login1's Reboot; process ignores its error.
RequestReboot(n) ==
    /\ goto(n, "reboot", "sleep")
    /\ rebootPending' = [rebootPending EXCEPT ![n] = TRUE]
    /\ UNCHANGED <<node, locals, needReboot>>

RequestRebootFails(n) ==
    /\ goto(n, "reboot", "sleep")
    /\ UNCHANGED <<node, locals, machine>>

-----------------------------------------------------------------------------
(* The end of the process.  Its container is started again, with fresh     *)
(* locals.                                                                 *)

Restart(n, to) ==
    /\ pc' = [pc EXCEPT ![n] = to]
    /\ makeSchedulable' = [makeSchedulable EXCEPT ![n] = FALSE]
    /\ alreadyUnschedulable' = [alreadyUnschedulable EXCEPT ![n] = FALSE]

\* process returns an error (or, for a GetNodeRetry that ran out of
\* attempts, dereferences the nil node it returned).  The loop around
\* waitForOkToReboot and the final sleep have no such exit.  An Update whose
\* answer was lost is an Update followed by the failure of the next request;
\* only after "unmark" the next request has no error exit.
AgentFails(n) ==
    /\ pc[n] \in Startup \cup (Reboot \ {"reboot", "sleep"})
    /\ Restart(n, "start")
    /\ \/ UNCHANGED node
       \/ pc[n] = "unmark" /\ UpdateNodeRetry(n, notMadeByAgent(node[n]))
    /\ UNCHANGED machine

\* Mutant: the sleep never ends.
SleepDone_Never(n) == FALSE /\ pc[n] = "sleep" /\ UNCHANGED <<node, pc, locals, machine>>

\* A week after a reboot that logind refused, process returns.
SleepDone(n) ==
    /\ pc[n] = "sleep"
    /\ ~rebootPending[n]
    /\ Restart(n, "start")
    /\ UNCHANGED <<node, machine>>

\* The container is killed from outside: a crash, an update of the
\* DaemonSet, the shutdown of the machine.
AgentKilled(n) ==
    /\ pc[n] # "off"
    /\ Restart(n, "start")
    /\ UNCHANGED <<node, machine>>

MachineDown(n) ==
    /\ rebootPending[n]
    /\ Restart(n, "off")
    /\ rebootPending' = [rebootPending EXCEPT ![n] = FALSE]
    /\ UNCHANGED <<node, needReboot>>

PowerLoss(n) ==
    /\ pc[n] # "off"
    /\ Restart(n, "off")
    /\ rebootPending' = [rebootPending EXCEPT ![n] = FALSE]
    /\ UNCHANGED <<node, needReboot>>

\* The machine boots into the version update_engine had installed.
MachineUp(n) ==
    /\ goto(n, "off", "start")
    /\ needReboot' = [needReboot EXCEPT ![n] = FALSE]
    /\ UNCHANGED <<node, locals, rebootPending>>

\* update_engine installs an update and asks for a reboot.
UpdateInstalled(n) ==
    /\ pc[n] # "off"
    /\ ~needReboot[n]
    /\ needReboot' = [needReboot EXCEPT ![n] = TRUE]
    /\ UNCHANGED <<node, pc, locals, rebootPending>>

-----------------------------------------------------------------------------
(* The requests of Klocksmith.process that succeed.                        *)

agentProcess(n) ==
    \/ CheckAnnotations(n)
    \/ ResetAnnotations(n)
    \/ GetNotOkToReboot(n)
    \/ WatchNotOkToReboot(n)
    \/ MakeSchedulable(n)
    \/ ClearMadeUnschedulable(n)
    \/ GetOkToReboot(n)
    \/ WatchOkToReboot(n)
    \/ ReadUnschedulable(n)
    \/ MarkRebootInProgress(n)
    \/ MakeUnschedulable(n)
    \/ DrainPods(n)
    \/ RequestReboot(n)

=============================================================================
