---------------------------- MODULE NodeRequests ----------------------------
(***************************************************************************)
(* The helpers of pkg/k8sutil request by request, with several callers at  *)
(* one Node object: UpdateNodeRetry (and its Set and Delete wrappers),     *)
(* Unschedulable and GetNodeRetry, over RetryOnConflict and RetryOnError.  *)
(* The other modules take a call of UpdateNodeRetry for one step; this one *)
(* shows why they may.                                                     *)
(*                                                                         *)
(* Of the object only this is kept: which writers' changes are in it, and  *)
(* of a copy's resourceVersion whether it is the server's, an earlier one  *)
(* or missing.  The API server refuses an Update of an earlier version     *)
(* with a conflict.  A request may fail; an Update that failed for the     *)
(* client may be carried out all the same, or later.                       *)
(***************************************************************************)
EXTENDS Naturals

CONSTANTS
    UpdateCalls,    \* calls of UpdateNodeRetry
    CordonCalls,    \* calls of Unschedulable
    GetCalls,       \* calls of GetNodeRetry
    Others,         \* writes of the kubelet, of controllers, of administrators
    Steps           \* DefaultBackoff.Steps, 4 in the code

WriteCalls == UpdateCalls \cup CordonCalls
Calls      == WriteCalls \cup GetCalls
Writers    == WriteCalls \cup Others

ASSUME StepsAssumption == Steps \in Nat \ {0}
ASSUME CallAssumption ==
    /\ UpdateCalls \cap CordonCalls = {} /\ WriteCalls \cap GetCalls = {}
    /\ Calls \cap Others = {}

VARIABLES
    server,     \* the writers whose changes are in the API server's object
    pc,         \* the request a call makes next, or its result
    copy,       \* the object a call works on
    attempts,   \* failed attempts that RetryOnConflict or RetryOnError counted
    inflight    \* calls whose Update broke and may yet reach the server

vars == <<server, pc, copy, attempts, inflight>>

Object == [version : {"current", "old", "none"}, writes : SUBSET Writers]

\* &v1.Node{}, which client-go returns beside an error; also no object at all.
Empty == [version |-> "none", writes |-> {}]

Init ==
    /\ server = {}
    /\ pc = [c \in Calls |-> "get"]
    /\ copy = [c \in Calls |-> Empty]
    /\ attempts = [c \in Calls |-> 0]
    /\ inflight = {}

-----------------------------------------------------------------------------
(* The API server.                                                         *)

\* A copy of an earlier version; what is in it does not matter any more.
Old == [version |-> "old", writes |-> {}]

\* What a new resourceVersion makes of the copies.
Outdated == [c \in Calls |-> IF copy[c].version = "current" THEN Old ELSE copy[c]]

Accepts(o) == o.version # "old"

\* The request of c is carried out, and c is done with its copy.
Store(c) ==
    /\ server' = copy[c].writes
    /\ copy' = [Outdated EXCEPT ![c] = Empty]

\* A heartbeat of the kubelet changes nothing here but the resourceVersion.
Heartbeat ==
    /\ copy' = Outdated
    /\ UNCHANGED <<server, pc, attempts, inflight>>

OtherWrites(w) ==
    /\ w \notin server
    /\ server' = server \cup {w}
    /\ copy' = Outdated
    /\ UNCHANGED <<pc, attempts, inflight>>

-----------------------------------------------------------------------------
(* The calls.                                                              *)

\* Mutants: f is applied on the first attempt only; f makes an object of its
\* own, without resourceVersion.
modified_FirstOnly(c, o) ==
    IF attempts[c] = 0 THEN [o EXCEPT !.writes = @ \cup {c}] ELSE o
modified_Unversioned(c, o) ==
    [version |-> "none", writes |-> o.writes \cup {c}]

\* f, or the assignment to Spec.Unschedulable.
modified(c, o) == [o EXCEPT !.writes = @ \cup {c}]

Get(c) ==
    /\ c \in WriteCalls
    /\ pc[c] = "get"
    /\ copy' = [copy EXCEPT ![c] =
                   modified(c, [version |-> "current", writes |-> server])]
    /\ pc' = [pc EXCEPT ![c] = "update"]
    /\ UNCHANGED <<server, attempts, inflight>>

GetNodeRetry(c) ==
    /\ c \in GetCalls
    /\ pc[c] = "get"
    /\ pc' = [pc EXCEPT ![c] = "ok"]
    /\ UNCHANGED <<server, copy, attempts, inflight>>

\* Mutants: attempts are not counted; one attempt too many.
countAttempt_Not(c) == UNCHANGED attempts
countAttempt_Twice(c) == attempts' = [attempts EXCEPT ![c] = @ + 2]

\* ExponentialBackoff: after Steps attempts there is no other.
countAttempt(c) == attempts' = [attempts EXCEPT ![c] = @ + 1]

exhausted(c) == attempts[c] + 1 >= Steps

\* An error of Get ends UpdateNodeRetry and Unschedulable.
GetFails(c) ==
    /\ c \in WriteCalls
    /\ pc[c] = "get"
    /\ pc' = [pc EXCEPT ![c] = "error"]
    /\ UNCHANGED <<server, copy, attempts, inflight>>

\* RetryOnError: try again; when the attempts are used up it returns its own
\* lastErr, which is nil, as the closure sets another variable of that name.
RetryOnError(c) ==
    /\ c \in GetCalls
    /\ pc[c] = "get"
    /\ countAttempt(c)
    /\ pc' = [pc EXCEPT ![c] = IF exhausted(c) THEN "ok" ELSE "get"]
    /\ UNCHANGED <<server, copy, inflight>>

Update(c) ==
    /\ pc[c] = "update"
    /\ copy[c] # Empty
    /\ Accepts(copy[c])
    /\ Store(c)
    /\ pc' = [pc EXCEPT ![c] = "ok"]
    /\ UNCHANGED <<attempts, inflight>>

\* RetryOnConflict: UpdateNodeRetry reads the object again; Unschedulable
\* goes on with the empty object the refused Update returned.
RetryOnConflict(c) ==
    /\ pc[c] = "update"
    /\ copy[c] # Empty
    /\ ~Accepts(copy[c])
    /\ countAttempt(c)
    /\ pc' = [pc EXCEPT ![c] = IF exhausted(c) THEN "error"
                               ELSE IF c \in UpdateCalls THEN "get" ELSE "update"]
    /\ copy' = [copy EXCEPT ![c] = Empty]
    /\ UNCHANGED <<server, inflight>>

\* client-go refuses to send an object without a name: not a conflict.
UpdateRefused(c) ==
    /\ pc[c] = "update"
    /\ copy[c] = Empty
    /\ pc' = [pc EXCEPT ![c] = "error"]
    /\ UNCHANGED <<server, copy, attempts, inflight>>

\* The connection breaks before the answer.
UpdateBreaks(c) ==
    /\ pc[c] = "update"
    /\ copy[c] # Empty
    /\ pc' = [pc EXCEPT ![c] = "error"]
    /\ inflight' = inflight \cup {c}
    /\ UNCHANGED <<server, copy, attempts>>

\* The server carries out a request whose client has given up.
LateUpdate(c) ==
    /\ c \in inflight
    /\ inflight' = inflight \ {c}
    /\ IF Accepts(copy[c]) THEN Store(c)
       ELSE copy' = [copy EXCEPT ![c] = Empty] /\ UNCHANGED server
    /\ UNCHANGED <<pc, attempts>>

-----------------------------------------------------------------------------
CallStep(c) == \/ Get(c) \/ GetFails(c) \/ GetNodeRetry(c) \/ RetryOnError(c)
               \/ Update(c) \/ RetryOnConflict(c) \/ UpdateRefused(c) \/ UpdateBreaks(c)

Next ==
    \/ Heartbeat
    \/ \E w \in Others : OtherWrites(w)
    \/ \E c \in Calls : CallStep(c) \/ LateUpdate(c)

Spec == Init /\ [][Next]_vars

\* The server or the transport answers every request in the end.
Fairness == \A c \in Calls : WF_vars(CallStep(c))

FairSpec == Spec /\ Fairness

-----------------------------------------------------------------------------
\* Type invariant; no more attempts are counted than the backoff has steps.
TypeOK ==
    /\ server \subseteq Writers
    /\ pc \in [Calls -> {"get", "update", "ok", "error"}]
    /\ copy \in [Calls -> Object]
    /\ attempts \in [Calls -> 0 .. Steps]
    /\ inflight \subseteq WriteCalls

\* A copy whose resourceVersion is current is the current object with just
\* the caller's own change: what Update stores takes nothing away.
CopyInv ==
    \A c \in WriteCalls :
        copy[c] # Empty /\ Accepts(copy[c]) => copy[c].writes = server \cup {c}

\* What the calls that write have returned.
results == [c \in WriteCalls |-> IF pc[c] \in {"ok", "error"} THEN pc[c] ELSE "none"]

Atomic == INSTANCE AtomicUpdates WITH
    Calls <- WriteCalls, written <- server, result <- results

\* Whatever conflicts, lost answers and late requests there are, the calls
\* of UpdateNodeRetry and Unschedulable are atomic updates: no writer loses
\* its write to another, and a call that reports success has made its own.
AtomicSpec == Atomic!Spec

\* Every call returns, however busy the object is.
CallsEnd == \A c \in Calls : <>(pc[c] \in {"ok", "error"})

=============================================================================
