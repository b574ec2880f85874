--------------------------- MODULE LeaderElection ---------------------------
(***************************************************************************)
(* Which of several update-operator processes leads: withLeaderElection,   *)
(* and the LeaderElector of client-go it runs, on one ConfigMap.           *)
(*                                                                         *)
(* Time passes in Tick.  A process keeps how long ago it saw the record    *)
(* change (it never compares clocks), and a leader how long ago its renew  *)
(* poll began.  The ConfigMap is written under its resourceVersion, which  *)
(* changes exactly when the record does: "my copy is current" and "I have  *)
(* seen this record" are one bit.  How long a request takes is bounded by  *)
(* a constant here; the code has no such bound.                            *)
(***************************************************************************)
EXTENDS Naturals, FiniteSets

CONSTANTS
    Operators,      \* operator processes; each has an identity of its own
    NoOne,          \* there is no record yet
    LeaseDuration, RenewDeadline, RetryPeriod,
    Latency,        \* the longest a request takes
    MaxFaults       \* bound: failed requests and killed processes

ASSUME LeaseAssumption ==
    /\ {LeaseDuration, RenewDeadline, RetryPeriod} \subseteq Nat \ {0}
    /\ LeaseDuration > RenewDeadline /\ RenewDeadline > RetryPeriod
ASSUME OperatorsAssumption == NoOne \notin Operators
ASSUME LatencyAssumption == Latency \in Nat /\ MaxFaults \in Nat

VARIABLES
    holder,     \* HolderIdentity of the record in the ConfigMap
    seen,       \* is observedRecord the record of the ConfigMap?
    age,        \* time since observedTime
    pc,         \* what the elector does: waits, or has a request under way
    expired,    \* had the lease run out when this attempt began?
    leading,    \* has OnStartedLeading been called?
    since,      \* time since the renew poll began
    due,        \* a tick of the poll has been sent and not taken
    final,      \* does this attempt follow the end of the poll?
    busy,       \* time this request has taken so far
    faults      \* faults so far

elector == <<pc, expired, leading, since, due, final, busy>>
vars == <<holder, seen, age, elector, faults>>

Requesting == {"get", "update", "reply"}

Init ==
    /\ holder = NoOne /\ faults = 0
    /\ seen = [p \in Operators |-> FALSE] /\ age = [p \in Operators |-> 0]
    /\ pc = [p \in Operators |-> "idle"]
    /\ expired = [p \in Operators |-> FALSE]
    /\ leading = [p \in Operators |-> FALSE]
    /\ since = [p \in Operators |-> 0] /\ due = [p \in Operators |-> FALSE]
    /\ final = [p \in Operators |-> FALSE] /\ busy = [p \in Operators |-> 0]

-----------------------------------------------------------------------------
(* acquire and renew.                                                      *)

closed(p) == since[p] >= RenewDeadline

\* Mutant: the lease is taken for run out at the renew deadline.
leaseExpired_Early(p) == age[p] >= RenewDeadline

leaseExpired(p) == age[p] >= LeaseDuration

\* acquire tries at jittered intervals, here at any time.  renew tries at a
\* tick of its poll and, at once and for the last time, when that has closed.
TryAcquireOrRenew(p) ==
    /\ pc[p] = "idle"
    /\ leading[p] => due[p] \/ closed(p)
    /\ pc' = [pc EXCEPT ![p] = "get"]
    /\ busy' = [busy EXCEPT ![p] = 0]
    /\ expired' = [expired EXCEPT ![p] = leaseExpired(p)]
    /\ due' = [due EXCEPT ![p] = FALSE]
    /\ \E f \in BOOLEAN :
          /\ leading[p] => (f \/ due[p]) /\ (f => closed(p))
          /\ ~leading[p] => ~f
          /\ final' = [final EXCEPT ![p] = f]
    /\ UNCHANGED <<holder, seen, age, leading, since, faults>>

\* tryAcquireOrRenew returns false; after the final attempt of renew comes
\* OnStoppedLeading, which ends the process.
AttemptFails(p) ==
    /\ pc' = [pc EXCEPT ![p] = IF final[p] THEN "dead" ELSE "idle"]
    /\ leading' = [leading EXCEPT ![p] = @ /\ ~final[p]]

\* Mutant: observedTime is set by every Get.
observe_Always(p) == age' = [age EXCEPT ![p] = 0]

observe(p) == age' = [age EXCEPT ![p] = IF seen[p] THEN @ ELSE 0]

\* The lease is free, or mine, or ran out and has not been renewed since.
mayHold(p) == holder \in {NoOne, p} \/ (expired[p] /\ seen[p])

Get(p) ==
    /\ pc[p] = "get"
    /\ observe(p)
    /\ seen' = [seen EXCEPT ![p] = TRUE]
    /\ busy' = [busy EXCEPT ![p] = 0]
    /\ IF mayHold(p) THEN pc' = [pc EXCEPT ![p] = "update"] /\ UNCHANGED leading
                     ELSE AttemptFails(p)
    /\ UNCHANGED <<holder, expired, since, due, final, faults>>

\* Create or Update, carried out by the API server.
Update(p) ==
    /\ pc[p] = "update"
    /\ IF seen[p]
       THEN /\ holder' = p
            /\ seen' = [q \in Operators |-> q = p]
            /\ pc' = [pc EXCEPT ![p] = "reply"]
            /\ UNCHANGED leading
       ELSE AttemptFails(p) /\ UNCHANGED <<holder, seen>>
    /\ UNCHANGED <<age, expired, since, due, final, busy, faults>>

\* Mutant: renew goes on with the poll that has ended.
Lead_SamePoll(p) ==
    /\ pc[p] = "reply"
    /\ pc' = [pc EXCEPT ![p] = "idle"]
    /\ leading' = [leading EXCEPT ![p] = TRUE]
    /\ age' = [age EXCEPT ![p] = 0]
    /\ UNCHANGED <<holder, seen, expired, since, due, final, busy, faults>>

\* Its answer arrives: lead, or lead on.
Lead(p) ==
    /\ pc[p] = "reply"
    /\ pc' = [pc EXCEPT ![p] = "idle"]
    /\ leading' = [leading EXCEPT ![p] = TRUE]
    /\ age' = [age EXCEPT ![p] = 0]
    /\ since' = [since EXCEPT ![p] = 0]
    /\ UNCHANGED <<holder, seen, expired, due, final, busy, faults>>

RequestFails(p) ==
    /\ pc[p] \in Requesting
    /\ faults < MaxFaults
    /\ faults' = faults + 1
    /\ AttemptFails(p)
    /\ seen' = [seen EXCEPT ![p] = @ /\ pc[p] # "reply"]
    /\ UNCHANGED <<holder, age, expired, since, due, final, busy>>

Killed(p) ==
    /\ pc[p] # "dead"
    /\ faults < MaxFaults
    /\ faults' = faults + 1
    /\ pc' = [pc EXCEPT ![p] = "dead"]
    /\ leading' = [leading EXCEPT ![p] = FALSE]
    /\ UNCHANGED <<holder, seen, age, expired, since, due, final, busy>>

\* The pod is restarted and keeps its host name, hence its identity.
Restart(p) ==
    /\ pc[p] = "dead"
    /\ pc' = [pc EXCEPT ![p] = "idle"]
    /\ seen' = [seen EXCEPT ![p] = FALSE]
    /\ age' = [age EXCEPT ![p] = 0]
    /\ since' = [since EXCEPT ![p] = 0]
    /\ due' = [due EXCEPT ![p] = FALSE]
    /\ final' = [final EXCEPT ![p] = FALSE]
    /\ UNCHANGED <<holder, expired, leading, busy, faults>>

-----------------------------------------------------------------------------
(* Time.  It waits for a request that is due and for a poll that has ended.*)

pollTicks(p) ==
    leading[p] /\ pc[p] = "idle" /\ (since[p] + 1) % RetryPeriod = 0

Tick ==
    /\ \A p \in Operators :
          /\ pc[p] \in Requesting => busy[p] < Latency
          /\ leading[p] /\ pc[p] = "idle" => ~due[p] /\ ~closed(p)
    /\ age' = [p \in Operators |->
                 IF age[p] < LeaseDuration THEN age[p] + 1 ELSE age[p]]
    /\ since' = [p \in Operators |-> since[p] + IF leading[p] THEN 1 ELSE 0]
    /\ busy' = [p \in Operators |->
                 IF pc[p] \in Requesting THEN busy[p] + 1 ELSE 0]
    /\ due' = [p \in Operators |-> pollTicks(p)]
    /\ UNCHANGED <<holder, seen, pc, expired, leading, final, faults>>

-----------------------------------------------------------------------------
OperatorStep(p) == TryAcquireOrRenew(p) \/ Get(p) \/ Update(p) \/ Lead(p)

Next ==
    \/ Tick
    \/ \E p \in Operators :
          OperatorStep(p) \/ RequestFails(p) \/ Killed(p) \/ Restart(p)

Spec == Init /\ [][Next]_vars

\* Time passes and live processes go on; a dead one need not come back.
FairSpec == Spec /\ WF_vars(Tick) /\ \A p \in Operators : WF_vars(OperatorStep(p))

-----------------------------------------------------------------------------
\* Type invariant; a leader lives at most four requests beyond its deadline.
TypeOK ==
    /\ holder \in Operators \cup {NoOne}
    /\ seen \in [Operators -> BOOLEAN]
    /\ age \in [Operators -> 0 .. LeaseDuration]
    /\ pc \in [Operators -> Requesting \cup {"idle", "dead"}]
    /\ {expired, leading, due, final} \subseteq [Operators -> BOOLEAN]
    /\ since \in [Operators -> 0 .. RenewDeadline + 4 * Latency]
    /\ busy \in [Operators -> 0 .. Latency]
    /\ faults \in 0 .. MaxFaults

\* Two operators never reconcile at the same time: a leader that cannot
\* renew is gone before another can have taken the lease, provided five
\* requests take less than the lease outlasts the renew deadline.
OneLeader == Cardinality({p \in Operators : leading[p]}) <= 1

\* As long as some operator process stays alive, the cluster is not left
\* without a leader: the lease of a leader that never returns runs out.
LeaderReturns ==
    (\E p \in Operators : <>[](pc[p] # "dead")) => []<>(\E p \in Operators : leading[p])

=============================================================================
