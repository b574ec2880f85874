----------------------------- MODULE RebootLock -----------------------------
(***************************************************************************)
(* What update-operator and update-agent promise together, with no Node    *)
(* objects, requests or programs in sight: a lock with maxRebootingNodes   *)
(* places, held by a node while it is prepared for a reboot, rebooted and  *)
(* verified.                                                               *)
(*                                                                         *)
(* The lock has a gap.  A node that returns drops out of the books, and is *)
(* put back into them, without asking, when its verification begins; in    *)
(* between its place may be given to another.  The lock the documents      *)
(* speak of has no such gap: RebootCluster!LockReleasedAfterChecks states  *)
(* it, and the system does not keep it.                                    *)
(***************************************************************************)
EXTENDS Naturals, FiniteSets

CONSTANTS Nodes, maxRebootingNodes

VARIABLE lock

LockState == {"idle", "checking", "rebooting", "rebooted", "verifying"}

Init == lock = [n \in Nodes |-> "idle"]

\* The nodes in the books: all that are not idle, "rebooted" apart.
Holders == {n \in Nodes : lock[n] \in {"checking", "rebooting", "verifying"}}

move(n, from, to) == lock[n] = from /\ lock' = [lock EXCEPT ![n] = to]

\* A place is free, and n takes it to run its before-reboot checks.
Reserve(n) ==
    /\ Cardinality(Holders) < maxRebootingNodes
    /\ move(n, "idle", "checking")

\* n does not want to reboot any more.
Cancel(n) == move(n, "checking", "idle")

Permit(n) == move(n, "checking", "rebooting")

\* n is back, rebooted or not, and nobody has noticed yet.
Return(n) == move(n, "rebooting", "rebooted")

\* It is noticed, and counts again, even if its place has been taken.
Verify(n) == move(n, "rebooted", "verifying")

Release(n) == move(n, "verifying", "idle")

Next ==
    \E n \in Nodes : \/ Reserve(n)
                     \/ Cancel(n)
                     \/ Permit(n)
                     \/ Return(n)
                     \/ Verify(n)
                     \/ Release(n)

Spec == Init /\ [][Next]_lock

=============================================================================
