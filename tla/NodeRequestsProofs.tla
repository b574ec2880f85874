------------------------- MODULE NodeRequestsProofs -------------------------
(***************************************************************************)
(* Proofs that the helpers of pkg/k8sutil make atomic updates, for every   *)
(* set of callers and other writers and every number of attempts.          *)
(***************************************************************************)
EXTENDS NodeRequests, TLAPS

\* Only the empty object has no resourceVersion.
NoneIsEmpty == \A c \in Calls : copy[c].version = "none" => copy[c] = Empty

\* An attempt that is under way is one of the backoff's steps.
AttemptLeft == \A c \in Calls : pc[c] \in {"get", "update"} => attempts[c] < Steps

\* What the position of a call says: GetNodeRetry makes no Update, a call
\* that reported success has written, and one whose Update broke has
\* reported the error and left its object behind.
PositionInv ==
    /\ \A c \in GetCalls : pc[c] # "update"
    /\ \A c \in WriteCalls : pc[c] = "ok" => c \in server
    /\ \A c \in inflight : pc[c] = "error" /\ copy[c] # Empty

\* The inductive invariant.
RequestsInv == TypeOK /\ CopyInv /\ NoneIsEmpty /\ AttemptLeft /\ PositionInv

-----------------------------------------------------------------------------
\* An accepted object holds what is on the server and the caller's change.
LEMMA StoredObject ==
    ASSUME RequestsInv, NEW c \in WriteCalls, copy[c] # Empty, Accepts(copy[c])
    PROVE  copy[c].writes = server \cup {c}
BY DEF RequestsInv, CopyInv

\* A new version leaves no copy current, and none without version but Empty.
LEMMA OutdatedCopies ==
    ASSUME TypeOK, NoneIsEmpty
    PROVE  /\ Outdated \in [Calls -> Object]
           /\ \A c \in Calls : Outdated[c] = Empty \/ Outdated[c].version = "old"
           /\ \A c \in Calls : Outdated[c] = Empty <=> copy[c] = Empty
<1>1. Old \in Object /\ Old # Empty /\ Old.version = "old"
  BY DEF Old, Object, Empty
<1>2. ASSUME NEW c \in Calls
      PROVE  /\ Outdated[c] \in Object
             /\ Outdated[c] = Empty \/ Outdated[c].version = "old"
             /\ Outdated[c] = Empty <=> copy[c] = Empty
  <2>1. copy[c] \in Object /\ copy[c].version \in {"current", "old", "none"}
    BY DEF TypeOK, Object
  <2>2. Outdated[c] = IF copy[c].version = "current" THEN Old ELSE copy[c]
    BY DEF Outdated
  <2>3. copy[c].version = "none" => copy[c] = Empty
    BY DEF NoneIsEmpty
  <2>4. Empty.version = "none"
    BY DEF Empty
  <2> QED BY <1>1, <2>1, <2>2, <2>3, <2>4
<1> QED BY <1>2 DEF Outdated

\* The invariant holds before the first call.
LEMMA InitRequests == Init => RequestsInv
BY StepsAssumption DEF Init, RequestsInv, TypeOK, CopyInv, NoneIsEmpty, AttemptLeft,
   PositionInv, Empty, Object, Calls, WriteCalls

\* What carrying out a request does to the objects.
LEMMA StoreStep ==
    ASSUME RequestsInv, NEW c \in WriteCalls, copy[c] # Empty, Accepts(copy[c]), Store(c)
    PROVE  /\ server' = server \cup {c}
           /\ server' \subseteq Writers
           /\ copy' \in [Calls -> Object]
           /\ copy'[c] = Empty
           /\ \A d \in Calls : copy'[d] = Empty \/ copy'[d].version = "old"
           /\ \A d \in Calls \ {c} : copy'[d] = Empty <=> copy[d] = Empty
<1>1. server' = server \cup {c}
  BY StoredObject DEF Store
<1>2. Empty \in Object
  BY DEF Empty, Object
<1>3. copy' = [Outdated EXCEPT ![c] = Empty]
  BY DEF Store
<1>4. c \in Calls /\ c \in Writers /\ server \subseteq Writers
  BY DEF Calls, Writers, RequestsInv, TypeOK
<1> QED BY <1>1, <1>2, <1>3, <1>4, OutdatedCopies DEF RequestsInv

\* A change that leaves only outdated and empty copies keeps CopyInv.
LEMMA OldCopies ==
    ASSUME \A d \in Calls : copy'[d] = Empty \/ copy'[d].version = "old"
    PROVE  CopyInv' /\ NoneIsEmpty'
BY DEF CopyInv, NoneIsEmpty, Accepts, Calls

-----------------------------------------------------------------------------
\* Every step keeps the invariant.
LEMMA NextRequests == RequestsInv /\ [Next]_vars => RequestsInv'
<1> SUFFICES ASSUME RequestsInv, [Next]_vars
             PROVE  RequestsInv'
  OBVIOUS
<1> USE StepsAssumption, CallAssumption DEF RequestsInv
<1>0. /\ WriteCalls \subseteq Calls /\ GetCalls \subseteq Calls
      /\ Calls = WriteCalls \cup GetCalls /\ WriteCalls \cap GetCalls = {}
      /\ WriteCalls \subseteq Writers /\ Empty \in Object /\ Empty.version = "none"
  BY DEF Calls, WriteCalls, Writers, Empty, Object
<1>1. CASE Heartbeat
  <2>1. TypeOK' /\ CopyInv' /\ NoneIsEmpty'
    BY <1>1, OutdatedCopies, OldCopies DEF Heartbeat, TypeOK
  <2>2. AttemptLeft' /\ PositionInv'
    BY <1>0, <1>1, OutdatedCopies DEF Heartbeat, TypeOK, AttemptLeft, PositionInv
  <2> QED BY <2>1, <2>2
<1>2. CASE \E w \in Others : OtherWrites(w)
  <2> PICK w \in Others : OtherWrites(w)
    BY <1>2
  <2>1. TypeOK' /\ CopyInv' /\ NoneIsEmpty'
    BY OutdatedCopies, OldCopies DEF OtherWrites, TypeOK, Writers
  <2>2. AttemptLeft' /\ PositionInv'
    BY <1>0, OutdatedCopies DEF OtherWrites, TypeOK, AttemptLeft, PositionInv
  <2> QED BY <2>1, <2>2
<1>3. ASSUME NEW c \in Calls, Get(c)
      PROVE  RequestsInv'
  <2> DEFINE read == [version |-> "current", writes |-> server \cup {c}]
  <2>a. modified(c, [version |-> "current", writes |-> server]) = read
    BY DEF modified
  <2>b. copy' = [copy EXCEPT ![c] = read]
    BY <1>3, <2>a DEF Get
  <2>c. /\ read \in Object /\ read.version = "current" /\ read # Empty
        /\ read.writes = server \cup {c}
    BY <1>0, <1>3 DEF Get, Object, TypeOK, Empty
  <2> HIDE DEF read
  <2>1. /\ copy' = [copy EXCEPT ![c] = read]
        /\ read \in Object /\ read.version = "current" /\ read # Empty
        /\ read.writes = server \cup {c}
    BY <2>b, <2>c
  <2>2. TypeOK' /\ AttemptLeft'
    BY <1>0, <1>3, <2>1 DEF Get, TypeOK, AttemptLeft
  <2>3. CopyInv' /\ NoneIsEmpty'
    BY <1>0, <1>3, <2>1 DEF Get, TypeOK, CopyInv, NoneIsEmpty, Accepts
  <2>4. PositionInv'
    BY <1>0, <1>3, <2>1 DEF Get, TypeOK, PositionInv
  <2> QED BY <2>2, <2>3, <2>4
<1>4. ASSUME NEW c \in Calls, GetFails(c)
      PROVE  RequestsInv'
  BY <1>0, <1>4 DEF GetFails, TypeOK, CopyInv, NoneIsEmpty, AttemptLeft, PositionInv
<1>5. ASSUME NEW c \in Calls, GetNodeRetry(c)
      PROVE  RequestsInv'
  BY <1>0, <1>5 DEF GetNodeRetry, TypeOK, CopyInv, NoneIsEmpty, AttemptLeft, PositionInv
<1>6. ASSUME NEW c \in Calls, RetryOnError(c)
      PROVE  RequestsInv'
  <2>1. TypeOK' /\ AttemptLeft'
    BY <1>0, <1>6 DEF RetryOnError, countAttempt, exhausted, TypeOK, AttemptLeft
  <2>2. CopyInv' /\ NoneIsEmpty' /\ PositionInv'
    BY <1>0, <1>6 DEF RetryOnError, TypeOK, CopyInv, NoneIsEmpty, PositionInv
  <2> QED BY <2>1, <2>2
<1>7. ASSUME NEW c \in Calls, Update(c)
      PROVE  RequestsInv'
  <2>1. c \in WriteCalls /\ c \notin inflight
    BY <1>0, <1>7 DEF Update, PositionInv
  <2>2. Store(c) /\ copy[c] # Empty /\ Accepts(copy[c])
    BY <1>7 DEF Update
  <2>3. TypeOK' /\ AttemptLeft'
    BY <1>0, <1>7, <2>1, <2>2, StoreStep DEF Update, TypeOK, AttemptLeft
  <2>4. CopyInv' /\ NoneIsEmpty'
    BY <2>1, <2>2, StoreStep, OldCopies
  <2>5. PositionInv'
    BY <1>0, <1>7, <2>1, <2>2, StoreStep DEF Update, TypeOK, PositionInv
  <2> QED BY <2>3, <2>4, <2>5
<1>8. ASSUME NEW c \in Calls, RetryOnConflict(c)
      PROVE  RequestsInv'
  <2>1. c \in WriteCalls /\ c \notin inflight
    BY <1>0, <1>8 DEF RetryOnConflict, PositionInv
  <2>2. pc'[c] \in {"get", "update", "error"} /\ (exhausted(c) => pc'[c] = "error")
    BY <1>8 DEF RetryOnConflict, TypeOK, exhausted
  <2>3. pc' \in [Calls -> {"get", "update", "ok", "error"}]
        /\ \A d \in Calls \ {c} : pc'[d] = pc[d]
    BY <1>8, <2>2 DEF RetryOnConflict, TypeOK
  <2>4. TypeOK' /\ AttemptLeft'
    BY <1>0, <1>8, <2>2, <2>3 DEF RetryOnConflict, countAttempt, exhausted, TypeOK, AttemptLeft
  <2>5. CopyInv' /\ NoneIsEmpty'
    BY <1>0, <1>8 DEF RetryOnConflict, TypeOK, CopyInv, NoneIsEmpty
  <2>6. PositionInv'
    BY <1>0, <1>8, <2>1, <2>2, <2>3 DEF RetryOnConflict, TypeOK, PositionInv
  <2> QED BY <2>4, <2>5, <2>6
<1>9. ASSUME NEW c \in Calls, UpdateRefused(c)
      PROVE  RequestsInv'
  BY <1>0, <1>9 DEF UpdateRefused, TypeOK, CopyInv, NoneIsEmpty, AttemptLeft, PositionInv
<1>10. ASSUME NEW c \in Calls, UpdateBreaks(c)
       PROVE  RequestsInv'
  <2>1. c \in WriteCalls
    BY <1>0, <1>10 DEF UpdateBreaks, PositionInv
  <2> QED
    BY <1>0, <1>10, <2>1 DEF UpdateBreaks, TypeOK, CopyInv, NoneIsEmpty, AttemptLeft, PositionInv
<1>11. ASSUME NEW c \in Calls, LateUpdate(c)
       PROVE  RequestsInv'
  <2>1. c \in WriteCalls /\ copy[c] # Empty
    BY <1>11 DEF LateUpdate, TypeOK, PositionInv
  <2>2. CASE Accepts(copy[c])
    <3>1. Store(c)
      BY <1>11, <2>2 DEF LateUpdate
    <3>2. TypeOK' /\ AttemptLeft'
      BY <1>0, <1>11, <2>1, <2>2, <3>1, StoreStep DEF LateUpdate, TypeOK, AttemptLeft
    <3>3. CopyInv' /\ NoneIsEmpty'
      BY <2>1, <2>2, <3>1, StoreStep, OldCopies
    <3>4. PositionInv'
      BY <1>0, <1>11, <2>1, <2>2, <3>1, StoreStep DEF LateUpdate, TypeOK, PositionInv
    <3> QED BY <3>2, <3>3, <3>4
  <2>3. CASE ~Accepts(copy[c])
    BY <1>0, <1>11, <2>1, <2>3 DEF LateUpdate, TypeOK, CopyInv, NoneIsEmpty, AttemptLeft, PositionInv
  <2> QED BY <2>2, <2>3
<1>12. CASE UNCHANGED vars
  BY <1>12 DEF vars, TypeOK, CopyInv, NoneIsEmpty, AttemptLeft, PositionInv, Accepts
<1> QED
  BY <1>1, <1>2, <1>3, <1>4, <1>5, <1>6, <1>7, <1>8, <1>9, <1>10, <1>11, <1>12
     DEF Next, CallStep

\* The helpers of pkg/k8sutil keep their types and count no attempt beyond
\* the backoff's, whatever the server, the network and other writers do.
THEOREM RequestsTypeCorrect == Spec => []TypeOK
<1>1. RequestsInv => TypeOK
  BY DEF RequestsInv
<1> QED BY <1>1, InitRequests, NextRequests, PTL DEF Spec

\* What an Update would store is never less than what is on the server.
THEOREM CopiesCurrent == Spec => []CopyInv
<1>1. RequestsInv => CopyInv
  BY DEF RequestsInv
<1> QED BY <1>1, InitRequests, NextRequests, PTL DEF Spec

-----------------------------------------------------------------------------
(* The refinement.                                                         *)

\* A step in which no call of the writers returns.
LEMMA SameResults ==
    ASSUME TypeOK, NEW c \in Calls, NEW p,
           pc' = [pc EXCEPT ![c] = p],
           c \in WriteCalls => /\ pc[c] \notin {"ok", "error"}
                              /\ p \notin {"ok", "error"}
    PROVE  results' = results
<1>1. WriteCalls \subseteq Calls
  BY DEF Calls
<1> QED BY <1>1 DEF results, TypeOK

\* A step in which one call of the writers returns.
LEMMA OneResult ==
    ASSUME TypeOK, NEW c \in WriteCalls, NEW r \in {"ok", "error"},
           pc[c] \notin {"ok", "error"}, pc' = [pc EXCEPT ![c] = r]
    PROVE  results[c] = "none" /\ results' = [results EXCEPT ![c] = r]
<1>1. WriteCalls \subseteq Calls
  BY DEF Calls
<1> QED BY <1>1 DEF results, TypeOK

\* The initial states of the requests are initial states of the atomic calls.
LEMMA AtomicInit == Init => Atomic!Init
BY DEF Init, Atomic!Init, results, Calls

\* Every step is a write, the failure of a call, or neither.
LEMMA AtomicStep ==
    RequestsInv /\ [Next]_vars => [Atomic!Next]_<<server, results>>
<1> SUFFICES ASSUME RequestsInv, [Next]_vars
             PROVE  [Atomic!Next]_<<server, results>>
  OBVIOUS
<1> USE CallAssumption DEF RequestsInv
<1>0. /\ WriteCalls \subseteq Calls /\ WriteCalls \subseteq Writers /\ Others \subseteq Writers
      /\ Calls = WriteCalls \cup GetCalls /\ WriteCalls \cap GetCalls = {}
      /\ WriteCalls \cap Others = {}
  BY DEF Calls, WriteCalls, Writers
<1>1. CASE Heartbeat \/ UNCHANGED vars
  BY <1>1 DEF Heartbeat, vars, results
<1>2. ASSUME NEW w \in Others, OtherWrites(w)
      PROVE  Atomic!Next
  BY <1>0, <1>2 DEF OtherWrites, results, Atomic!Next, Atomic!Write
<1>3. ASSUME NEW c \in Calls, Get(c)
      PROVE  UNCHANGED <<server, results>>
  BY <1>3, SameResults DEF Get
<1>4. ASSUME NEW c \in Calls, GetFails(c)
      PROVE  Atomic!Next
  BY <1>4, OneResult DEF GetFails, Atomic!Next, Atomic!Fail
<1>5. ASSUME NEW c \in Calls, GetNodeRetry(c) \/ RetryOnError(c)
      PROVE  UNCHANGED <<server, results>>
  <2>1. c \in Calls /\ c \notin WriteCalls /\ UNCHANGED server
    BY <1>0, <1>5 DEF GetNodeRetry, RetryOnError
  <2>2. \A d \in WriteCalls : pc'[d] = pc[d]
    BY <1>0, <1>5, <2>1 DEF GetNodeRetry, RetryOnError, TypeOK
  <2> QED BY <2>1, <2>2 DEF results
<1>6. ASSUME NEW c \in Calls, Update(c)
      PROVE  Atomic!Next
  <2>1. c \in WriteCalls /\ pc[c] = "update" /\ pc' = [pc EXCEPT ![c] = "ok"]
    BY <1>0, <1>6 DEF Update, PositionInv
  <2>2. results[c] = "none" /\ results' = [results EXCEPT ![c] = "ok"]
    BY <2>1, OneResult
  <2>3. server' = server \cup {c}
    BY <1>6, <2>1, StoreStep DEF Update
  <2> QED BY <1>0, <2>1, <2>2, <2>3 DEF Atomic!Next, Atomic!Write
<1>7. ASSUME NEW c \in Calls, RetryOnConflict(c)
      PROVE  [Atomic!Next]_<<server, results>>
  <2>1. c \in WriteCalls /\ pc[c] = "update" /\ UNCHANGED server
    BY <1>0, <1>7 DEF RetryOnConflict, PositionInv
  <2>2. CASE exhausted(c)
    <3>1. pc' = [pc EXCEPT ![c] = "error"]
      BY <1>7, <2>2 DEF RetryOnConflict, exhausted
    <3> QED BY <2>1, <3>1, OneResult DEF Atomic!Next, Atomic!Fail
  <2>3. CASE ~exhausted(c)
    <3>1. PICK p \in {"get", "update"} : pc' = [pc EXCEPT ![c] = p]
      BY <1>7, <2>3 DEF RetryOnConflict, exhausted
    <3> QED BY <2>1, <3>1, SameResults
  <2> QED BY <2>2, <2>3
<1>8. ASSUME NEW c \in Calls, UpdateRefused(c) \/ UpdateBreaks(c)
      PROVE  Atomic!Next
  <2>1. c \in WriteCalls /\ pc[c] = "update" /\ UNCHANGED server
        /\ pc' = [pc EXCEPT ![c] = "error"]
    BY <1>0, <1>8 DEF UpdateRefused, UpdateBreaks, PositionInv
  <2> QED BY <2>1, OneResult DEF Atomic!Next, Atomic!Fail
<1>9. ASSUME NEW c \in Calls, LateUpdate(c)
      PROVE  [Atomic!Next]_<<server, results>>
  <2>1. c \in WriteCalls /\ copy[c] # Empty /\ pc[c] = "error"
    BY <1>9 DEF LateUpdate, TypeOK, PositionInv
  <2>2. UNCHANGED results /\ results[c] = "error"
    BY <1>0, <1>9, <2>1 DEF LateUpdate, results
  <2>3. server' = server \cup {c} \/ UNCHANGED server
    BY <1>9, <2>1, StoreStep DEF LateUpdate
  <2> QED BY <1>0, <2>1, <2>2, <2>3 DEF Atomic!Next, Atomic!Write
<1> QED
  BY <1>1, <1>2, <1>3, <1>4, <1>5, <1>6, <1>7, <1>8, <1>9 DEF Next, CallStep

\* UpdateNodeRetry and Unschedulable are atomic updates of the Node object,
\* for any number of callers and other writers, conflicts, lost answers and
\* late requests: the other modules may take each call for one step.
THEOREM CallsAreAtomic == Spec => AtomicSpec
BY InitRequests, NextRequests, AtomicInit, AtomicStep, PTL
   DEF Spec, AtomicSpec, Atomic!Spec

=============================================================================
