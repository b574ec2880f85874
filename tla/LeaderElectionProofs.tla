------------------------ MODULE LeaderElectionProofs ------------------------
(***************************************************************************)
(* Proofs about leader election, for any set of operator processes, any    *)
(* durations the elector accepts and any number of faults.                 *)
(*                                                                         *)
(* Nobody knows how old the record is: a process only knows how long ago   *)
(* it saw it change, and a leader how long ago its poll began.  The        *)
(* argument bounds the first by the second (Young) and the second by the   *)
(* code's renew loop (Renewing).                                           *)
(***************************************************************************)
EXTENDS LeaderElection, FiniteSetTheorems, TLAPS

\* Five requests take less than the lease outlasts the renew deadline.
Prompt == RenewDeadline + 5 * Latency < LeaseDuration

\* An attempt is a Get and a write, each at most Latency long; the last one
\* of renew begins at most one attempt after the deadline.
allowance(p) == IF final[p] THEN 2 * Latency ELSE 0

\* How far a leader is past the beginning of its poll.
Renewing(p) ==
    /\ pc[p] = "idle" => since[p] <= RenewDeadline + 2 * Latency
    /\ pc[p] = "get"  => since[p] <= RenewDeadline + allowance(p) + busy[p]
    /\ pc[p] \in {"update", "reply"} =>
           since[p] <= RenewDeadline + allowance(p) + Latency + busy[p]

\* A tick of the poll is sent to an idle leader before its poll has ended,
\* and taken before anything else happens.
DueInv(p) == due[p] => pc[p] \in {"idle", "dead"} /\ since[p] <= RenewDeadline

\* The bounds on the renew loop of a process.
OnePoll(p) ==
    /\ leading[p] => pc[p] # "dead" /\ Renewing(p)
    /\ DueInv(p)

PollInv == \A p \in Operators : OnePoll(p)

-----------------------------------------------------------------------------
\* Who leads, or has just taken the lease, is the holder.
HolderInv == \A p \in Operators : leading[p] \/ pc[p] = "reply" => holder = p

\* Who knows the record of a leader has known it for no longer than one
\* request before the leader's poll; if the leader's write is still to be
\* answered, for no longer than that takes.
Young(p, q) ==
    seen[q] => /\ leading[p] => age[q] <= since[p] + Latency
               /\ pc[p] = "reply" => age[q] <= busy[p]

\* A process about to write over somebody else's record has known it for the
\* whole lease, and nobody has written since.
ExpiredInv(q) ==
    /\ pc[q] = "get" /\ expired[q] /\ seen[q] => age[q] >= LeaseDuration
    /\ pc[q] = "update" /\ seen[q] =>
           holder \in {NoOne, q} \/ age[q] >= LeaseDuration

LeaseInv ==
    /\ HolderInv
    /\ \A p, q \in Operators : p # q => Young(p, q)
    /\ \A q \in Operators : ExpiredInv(q)

\* The inductive invariant.
ElectionInv == TypeOK /\ PollInv /\ LeaseInv

-----------------------------------------------------------------------------
(* Type correctness, and the bounds on the renew loop.                     *)

\* At first nobody polls.
LEMMA InitPoll == Init => TypeOK /\ PollInv
  BY LeaseAssumption, LatencyAssumption
     DEF Init, TypeOK, PollInv, OnePoll, DueInv, Renewing, allowance, Requesting

\* A failed attempt keeps the types; a leader's last one ends its leadership.
LEMMA AttemptFailsType ==
    ASSUME TypeOK, NEW p \in Operators, AttemptFails(p)
    PROVE  /\ pc' \in [Operators -> Requesting \cup {"idle", "dead"}]
           /\ leading' \in [Operators -> BOOLEAN]
  <1>1. pc' \in [Operators -> Requesting \cup {"idle", "dead"}]
    BY DEF AttemptFails, TypeOK
  <1>2. (leading[p] /\ ~final[p]) \in BOOLEAN
    OBVIOUS
  <1>3. leading' \in [Operators -> BOOLEAN]
    BY <1>2 DEF AttemptFails, TypeOK
  <1> QED BY <1>1, <1>3

\* A process that takes a step keeps its types and its bounds.
LEMMA StepPoll ==
    ASSUME TypeOK, NEW p \in Operators, OnePoll(p),
           OperatorStep(p) \/ RequestFails(p) \/ Killed(p) \/ Restart(p)
    PROVE  /\ TypeOK'
           /\ OnePoll(p)'
           /\ \A q \in Operators \ {p} :
                 UNCHANGED <<pc[q], leading[q], since[q], due[q], final[q], busy[q]>>
  <1> USE LeaseAssumption, LatencyAssumption DEF TypeOK, Requesting
  <1>1. CASE TryAcquireOrRenew(p)
    <2>1. TypeOK'
      BY <1>1 DEF TryAcquireOrRenew, leaseExpired
    <2>2. OnePoll(p)'
      BY <1>1 DEF TryAcquireOrRenew, OnePoll, Renewing, DueInv, allowance, closed
    <2> QED BY <1>1, <2>1, <2>2 DEF TryAcquireOrRenew
  <1>2. CASE Get(p)
    <2>1. TypeOK'
      <3>1. /\ pc' \in [Operators -> Requesting \cup {"idle", "dead"}]
            /\ leading' \in [Operators -> BOOLEAN]
        BY <1>2, AttemptFailsType DEF Get
      <3>2. age' \in [Operators -> 0 .. LeaseDuration]
        BY <1>2 DEF Get, observe
      <3>3. /\ seen' = [seen EXCEPT ![p] = TRUE]
            /\ busy' = [busy EXCEPT ![p] = 0]
            /\ UNCHANGED <<holder, expired, since, due, final, faults>>
        BY <1>2 DEF Get
      <3> QED BY <3>1, <3>2, <3>3
    <2>2. OnePoll(p)'
      BY <1>2 DEF Get, AttemptFails, OnePoll, Renewing, DueInv, allowance
    <2> QED BY <1>2, <2>1, <2>2 DEF Get, AttemptFails
  <1>3. CASE Update(p)
    <2>1. TypeOK'
      <3>1. /\ pc' \in [Operators -> Requesting \cup {"idle", "dead"}]
            /\ leading' \in [Operators -> BOOLEAN]
        BY <1>3, AttemptFailsType DEF Update
      <3>2. \/ holder' = p /\ seen' = [q \in Operators |-> q = p]
            \/ UNCHANGED <<holder, seen>>
        BY <1>3 DEF Update
      <3>4. holder' \in Operators \cup {NoOne}
        BY <3>2
      <3>5. seen' \in [Operators -> BOOLEAN]
        BY <3>2, Zenon
      <3>3. UNCHANGED <<age, expired, since, due, final, busy, faults>>
        BY <1>3 DEF Update
      <3> QED BY <3>1, <3>3, <3>4, <3>5
    <2>2. OnePoll(p)'
      BY <1>3 DEF Update, AttemptFails, OnePoll, Renewing, DueInv, allowance
    <2> QED BY <1>3, <2>1, <2>2 DEF Update, AttemptFails
  <1>4. CASE Lead(p)
    <2>1. TypeOK'
      BY <1>4 DEF Lead
    <2>2. OnePoll(p)'
      BY <1>4 DEF Lead, OnePoll, Renewing, DueInv
    <2> QED BY <1>4, <2>1, <2>2 DEF Lead
  <1>5. CASE RequestFails(p)
    <2>1. TypeOK'
      BY <1>5, AttemptFailsType DEF RequestFails
    <2>2. OnePoll(p)'
      BY <1>5 DEF RequestFails, AttemptFails, OnePoll, Renewing, DueInv, allowance
    <2> QED BY <1>5, <2>1, <2>2 DEF RequestFails, AttemptFails
  <1>6. CASE Killed(p)
    <2>1. TypeOK'
      BY <1>6 DEF Killed
    <2>2. OnePoll(p)'
      BY <1>6 DEF Killed, OnePoll, DueInv
    <2> QED BY <1>6, <2>1, <2>2 DEF Killed
  <1>7. CASE Restart(p)
    <2>1. TypeOK'
      BY <1>7 DEF Restart
    <2>2. OnePoll(p)'
      BY <1>7 DEF Restart, OnePoll, DueInv
    <2> QED BY <1>7, <2>1, <2>2 DEF Restart
  <1> QED BY <1>1, <1>2, <1>3, <1>4, <1>5, <1>6, <1>7 DEF OperatorStep

\* Time passes only while no request and no poll is overdue.
LEMMA TickPoll ==
    ASSUME TypeOK, PollInv, Tick
    PROVE  TypeOK' /\ PollInv'
  <1> USE LeaseAssumption, LatencyAssumption DEF TypeOK, Requesting
  <1>1. ASSUME NEW p \in Operators
        PROVE  /\ OnePoll(p)'
               /\ since'[p] \in 0 .. RenewDeadline + 4 * Latency
               /\ busy'[p] \in 0 .. Latency
               /\ age'[p] \in 0 .. LeaseDuration
               /\ due'[p] \in BOOLEAN
    <2>1. OnePoll(p)
      BY DEF PollInv
    <2>2. CASE leading[p]
      BY <2>1, <2>2 DEF Tick, OnePoll, Renewing, DueInv, allowance, closed, pollTicks
    <2>3. CASE ~leading[p]
      BY <2>1, <2>3 DEF Tick, OnePoll, Renewing, DueInv, pollTicks
    <2> QED BY <2>2, <2>3
  <1>2. TypeOK'
    BY <1>1 DEF Tick
  <1>3. PollInv'
    BY <1>1 DEF PollInv
  <1> QED BY <1>2, <1>3

\* Every step keeps the types and the bounds.
LEMMA NextPoll == TypeOK /\ PollInv /\ [Next]_vars => TypeOK' /\ PollInv'
  <1> SUFFICES ASSUME TypeOK, PollInv, [Next]_vars
               PROVE  TypeOK' /\ PollInv'
    OBVIOUS
  <1>1. CASE UNCHANGED vars
    BY <1>1 DEF vars, elector, TypeOK, PollInv, OnePoll, Renewing, DueInv, allowance
  <1>2. CASE Tick
    BY <1>2, TickPoll
  <1>3. ASSUME NEW p \in Operators,
               OperatorStep(p) \/ RequestFails(p) \/ Killed(p) \/ Restart(p)
        PROVE  TypeOK' /\ PollInv'
    <2>1. OnePoll(p)
      BY DEF PollInv
    <2>2. /\ TypeOK' /\ OnePoll(p)'
          /\ \A q \in Operators \ {p} :
                UNCHANGED <<pc[q], leading[q], since[q], due[q], final[q], busy[q]>>
      BY <1>3, <2>1, StepPoll
    <2>3. \A q \in Operators \ {p} : OnePoll(q) /\ OnePoll(q)'
      BY <2>2 DEF PollInv, OnePoll, Renewing, DueInv, allowance
    <2> QED BY <2>2, <2>3 DEF PollInv
  <1> QED BY <1>1, <1>2, <1>3 DEF Next

\* Type correctness: a leader lives at most four requests beyond its deadline.
THEOREM TypeCorrect == Spec => []TypeOK
  <1>1. Spec => [](TypeOK /\ PollInv)
    BY InitPoll, NextPoll, PTL DEF Spec
  <1> QED BY <1>1, PTL

-----------------------------------------------------------------------------
(* The lease.                                                              *)

\* At first there is no lease, and nobody has seen one.
LEMMA InitLease == Init => LeaseInv
  BY DEF Init, LeaseInv, HolderInv, Young, ExpiredInv

\* A process never writes over the record of a leader, or of one about to
\* learn that it leads.
LEMMA NoTakeover ==
    ASSUME Prompt, ElectionInv, NEW p \in Operators, NEW q \in Operators,
           leading[p] \/ pc[p] = "reply",
           pc[q] = "update", seen[q]
    PROVE  p = q
  <1> SUFFICES ASSUME p # q
               PROVE  FALSE
    OBVIOUS
  <1>1. holder = p /\ p # NoOne
    BY OperatorsAssumption DEF ElectionInv, LeaseInv, HolderInv
  <1>2. age[q] >= LeaseDuration
    BY <1>1 DEF ElectionInv, LeaseInv, ExpiredInv
  <1>3. since[p] <= RenewDeadline + 4 * Latency /\ busy[p] <= Latency
        /\ since[p] \in Nat /\ busy[p] \in Nat /\ age[q] \in Nat
    BY LeaseAssumption, LatencyAssumption DEF ElectionInv, TypeOK
  <1>4. age[q] <= since[p] + Latency \/ age[q] <= busy[p]
    BY DEF ElectionInv, LeaseInv, Young
  <1> QED
    BY <1>2, <1>3, <1>4, LeaseAssumption, LatencyAssumption DEF Prompt

\* Steps that leave the record alone.
LEMMA OtherStepsLease ==
    ASSUME ElectionInv, NEW p \in Operators,
           TryAcquireOrRenew(p) \/ RequestFails(p) \/ Killed(p) \/ Restart(p)
    PROVE  LeaseInv'
  <1> USE LeaseAssumption, LatencyAssumption DEF ElectionInv, LeaseInv, TypeOK
  <1>1. /\ holder' = holder
        /\ \A q \in Operators \ {p} :
              UNCHANGED <<pc[q], leading[q], seen[q], age[q], since[q], busy[q], expired[q]>>
        /\ pc'[p] \in {"idle", "get", "dead"}
        /\ pc'[p] = "get" => (expired'[p] => age'[p] >= LeaseDuration)
        /\ seen'[p] => seen[p] /\ age'[p] = age[p]
        /\ leading'[p] => leading[p] /\ since'[p] = since[p]
    <2>1. CASE TryAcquireOrRenew(p)
      BY <2>1 DEF TryAcquireOrRenew, leaseExpired
    <2>2. CASE RequestFails(p)
      BY <2>2 DEF RequestFails, AttemptFails
    <2>3. CASE Killed(p)
      BY <2>3 DEF Killed
    <2>4. CASE Restart(p)
      BY <2>4 DEF Restart, PollInv, OnePoll
    <2> QED BY <2>1, <2>2, <2>3, <2>4
  <1>2. HolderInv'
    BY <1>1 DEF HolderInv
  <1>3. \A r, q \in Operators : r # q => Young(r, q)'
    BY <1>1 DEF Young
  <1>4. \A q \in Operators : ExpiredInv(q)'
    BY <1>1 DEF ExpiredInv
  <1> QED BY <1>2, <1>3, <1>4

\* Reading the lease: an elector that has not seen the record before counts
\* its age from now.
LEMMA GetLease ==
    ASSUME ElectionInv, NEW p \in Operators, Get(p)
    PROVE  LeaseInv'
  <1> USE LeaseAssumption, LatencyAssumption DEF ElectionInv, LeaseInv, TypeOK
  <1>1. /\ holder' = holder /\ since' = since /\ expired' = expired
        /\ seen' = [seen EXCEPT ![p] = TRUE]
        /\ age' = [age EXCEPT ![p] = IF seen[p] THEN @ ELSE 0]
        /\ \A q \in Operators \ {p} :
              pc'[q] = pc[q] /\ leading'[q] = leading[q] /\ busy'[q] = busy[q]
        /\ pc[p] = "get" /\ pc'[p] \in {"idle", "dead", "update"}
        /\ pc'[p] = "update" => mayHold(p)
        /\ leading'[p] => leading[p]
    BY DEF Get, observe, AttemptFails
  <1>2. HolderInv'
    BY <1>1 DEF HolderInv
  <1>3. \A r, q \in Operators : r # q => Young(r, q)'
    BY <1>1 DEF Young
  <1>4. \A q \in Operators : ExpiredInv(q)'
    BY <1>1 DEF ExpiredInv, mayHold
  <1> QED BY <1>2, <1>3, <1>4

\* Writing the lease: the server takes it only from an elector whose copy is
\* the current one, so nobody else's young lease is overwritten.
LEMMA UpdateLease ==
    ASSUME Prompt, ElectionInv, NEW p \in Operators, Update(p)
    PROVE  LeaseInv'
  <1> USE DEF ElectionInv, LeaseInv, TypeOK
  <1>1. CASE seen[p]
    <2>1. /\ holder' = p /\ pc' = [pc EXCEPT ![p] = "reply"]
          /\ UNCHANGED <<leading, age, since, busy, expired>>
          /\ \A q \in Operators : seen'[q] <=> q = p
      BY <1>1 DEF Update
    <2>2. HolderInv'
      BY <1>1, <2>1, NoTakeover DEF Update, HolderInv
    <2>3. \A r, q \in Operators : r # q => Young(r, q)'
      <3> SUFFICES ASSUME NEW r \in Operators, NEW q \in Operators, r # q, seen'[q]
                   PROVE  Young(r, q)'
        BY DEF Young
      <3>1. q = p
        BY <2>1
      <3>2. ~leading[r] /\ pc[r] # "reply"
        BY <1>1, <3>1, NoTakeover DEF Update
      <3> QED BY <2>1, <3>1, <3>2 DEF Young
    <2>4. \A q \in Operators : ExpiredInv(q)'
      BY <2>1 DEF ExpiredInv
    <2> QED BY <2>2, <2>3, <2>4
  <1>2. CASE ~seen[p]
    <2>1. AttemptFails(p) /\ UNCHANGED <<holder, seen, age, since, busy, expired>>
      BY <1>2 DEF Update
    <2>2. HolderInv'
      BY <2>1 DEF AttemptFails, HolderInv
    <2>3. \A r, q \in Operators : r # q => Young(r, q)'
      BY <2>1 DEF AttemptFails, Young
    <2>4. \A q \in Operators : ExpiredInv(q)'
      BY <2>1 DEF AttemptFails, ExpiredInv
    <2> QED BY <2>2, <2>3, <2>4
  <1> QED BY <1>1, <1>2

\* An elector starts to lead on the lease its own Update has just written.
LEMMA LeadLease ==
    ASSUME ElectionInv, NEW p \in Operators, Lead(p)
    PROVE  LeaseInv'
  <1> USE LeaseAssumption, LatencyAssumption DEF ElectionInv, LeaseInv, TypeOK
  <1>1. HolderInv'
    BY DEF Lead, HolderInv
  <1>2. \A r, q \in Operators : r # q => Young(r, q)'
    BY DEF Lead, Young
  <1>3. \A q \in Operators : ExpiredInv(q)'
    BY DEF Lead, ExpiredInv
  <1> QED BY <1>1, <1>2, <1>3

\* Time makes everybody older at the same pace.
LEMMA TickLease ==
    ASSUME ElectionInv, Tick
    PROVE  LeaseInv'
  <1> USE LeaseAssumption, LatencyAssumption DEF ElectionInv, LeaseInv, TypeOK
  <1>1. HolderInv'
    BY DEF Tick, HolderInv
  <1>2. \A r, q \in Operators : r # q => Young(r, q)'
    BY DEF Tick, Young, Requesting
  <1>3. \A q \in Operators : ExpiredInv(q)'
    BY DEF Tick, ExpiredInv
  <1> QED BY <1>1, <1>2, <1>3

\* Every step keeps the inductive invariant.
LEMMA NextElection == Prompt /\ ElectionInv /\ [Next]_vars => ElectionInv'
  <1> SUFFICES ASSUME Prompt, ElectionInv, [Next]_vars
               PROVE  ElectionInv'
    OBVIOUS
  <1>1. TypeOK' /\ PollInv'
    BY NextPoll DEF ElectionInv
  <1>2. LeaseInv'
    <2>1. CASE UNCHANGED vars
      BY <2>1 DEF vars, elector, ElectionInv, LeaseInv, HolderInv, Young, ExpiredInv
    <2> QED
      BY <2>1, OtherStepsLease, GetLease, UpdateLease, LeadLease, TickLease
         DEF Next, OperatorStep
  <1> QED BY <1>1, <1>2 DEF ElectionInv

\* The inductive invariant holds if requests are prompt.
THEOREM ElectionInvariantHolds == ASSUME Prompt PROVE Spec => []ElectionInv
  <1>1. Init => ElectionInv
    BY InitPoll, InitLease DEF ElectionInv
  <1>2. ElectionInv /\ [Next]_vars => ElectionInv'
    BY NextElection
  <1> QED BY <1>1, <1>2, PTL DEF Spec

\* Two operators never reconcile at the same time: whatever is killed,
\* restarted or fails, a leader that cannot renew is gone before another
\* can have taken the lease.
THEOREM OneLeaderHolds == ASSUME Prompt PROVE Spec => []OneLeader
  <1>1. ASSUME ElectionInv PROVE OneLeader
    <2>1. {p \in Operators : leading[p]} \subseteq {holder}
      BY <1>1 DEF ElectionInv, LeaseInv, HolderInv
    <2>2. IsFiniteSet({holder}) /\ Cardinality({holder}) = 1
      BY FS_Singleton
    <2> QED
      BY <2>1, <2>2, FS_Subset, FS_CardinalityType DEF OneLeader
  <1>2. ElectionInv => OneLeader
    BY <1>1
  <1> QED BY <1>2, ElectionInvariantHolds, PTL

=============================================================================
