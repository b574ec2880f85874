------------------------- MODULE RebootWindowProofs -------------------------
(***************************************************************************)
(* Proofs about the reboot window, for every length of the day, every      *)
(* accepted configuration and every time.  The arithmetic is done once, in *)
(* PreviousFinds; the rest is about the two readings of the clock.         *)
(***************************************************************************)
EXTENDS RebootWindow, TLAPS

\* The provers do not multiply and divide by an unknown on their own.
LEMMA DivMod ==
    ASSUME NEW a \in Int, NEW d \in Nat \ {0}
    PROVE  /\ a \div d \in Int /\ a % d \in 0 .. d - 1
           /\ a = d * (a \div d) + (a % d)
  OBVIOUS

\* A multiple of d is 0 or at least d away from it.
LEMMA Multiples ==
    ASSUME NEW x \in Int, NEW d \in Nat \ {0}
    PROVE  /\ x * d \in Int
           /\ x >= 1 => x * d >= d
           /\ x <= -1 => x * d <= -d
           /\ x = 0 => x * d = 0
  OBVIOUS

\* Multiplication distributes over sum and difference.
LEMMA Distributes ==
    ASSUME NEW x \in Int, NEW y \in Int, NEW d \in Int
    PROVE  (x + y) * d = x * d + y * d /\ (x - y) * d = x * d - y * d
  OBVIOUS

\* A multiple has no remainder, and what has none is a multiple.
LEMMA NoRemainder ==
    ASSUME NEW a \in Int, NEW d \in Nat \ {0}
    PROVE  a % d = 0 <=> \E k \in Int : a = k * d
  <1>1. a \div d \in Int /\ a % d \in 0 .. d - 1 /\ a = d * (a \div d) + (a % d)
    BY DivMod
  <1>2. ASSUME NEW k \in Int, a = k * d
        PROVE  a % d = 0
    <2> DEFINE q == a \div d
               r == a % d
    <2>1. q \in Int /\ r \in 0 .. d - 1 /\ k * d = q * d + r
      BY <1>1, <1>2
    <2> HIDE DEF q, r
    <2>2. (k - q) * d = r
      BY <2>1, Distributes
    <2>3. k - q = 0
      BY <2>1, <2>2, Multiples
    <2>4. r = 0
      BY <2>2, <2>3
    <2> QED BY <2>4 DEF r
  <1>3. ASSUME a % d = 0
        PROVE  \E k \in Int : a = k * d
    BY <1>1, <1>3
  <1> QED BY <1>2, <1>3

-----------------------------------------------------------------------------
(* Previous.                                                               *)

\* The fields of an accepted configuration.
LEMMA ConfigType ==
    ASSUME config \in Config
    PROVE  /\ config.dayOfWeek \in -1 .. 6 /\ config.minute \in 0 .. DayLength - 1
           /\ config.duration \in Nat
           /\ PeriodLength \in Nat \ {0} /\ FirstStart \in 0 .. PeriodLength - 1
  <1>1. /\ config.dayOfWeek \in -1 .. 6 /\ config.minute \in 0 .. DayLength - 1
        /\ config.duration \in Nat
    BY DayAssumption DEF Config, Week
  <1>2. CASE config.dayOfWeek = -1
    BY <1>1, <1>2, DayAssumption DEF PeriodLength, FirstStart
  <1>3. CASE config.dayOfWeek # -1
    <2>1. config.dayOfWeek \in 0 .. 6
      BY <1>1, <1>3
    <2>2. config.dayOfWeek * DayLength \in 0 .. 6 * DayLength
      BY <2>1, DayAssumption
    <2> QED BY <1>1, <1>3, <2>2, DayAssumption DEF PeriodLength, FirstStart, Week
  <1> QED BY <1>1, <1>2, <1>3

\* Previous(ref) is the window with the last start that is not after ref.
LEMMA PreviousFinds ==
    ASSUME config \in Config, NEW ref \in Int
    PROVE  LET p == Previous(ref)
           IN  /\ p.start \in Int /\ p.end = p.start + config.duration
               /\ \E k \in Int : p.start - FirstStart = k * PeriodLength
               /\ p.start <= ref /\ ref < p.start + PeriodLength
  <1> DEFINE D == DayLength
             Q == ref \div D
             R == ref % D
             m == config.minute
             c == config.dayOfWeek
             s == Previous(ref).start
  <1>1. D \in Nat \ {0} /\ m \in 0 .. D - 1 /\ c \in -1 .. 6 /\ config.duration \in Nat
    BY DayAssumption, ConfigType
  <1>2. Q \in Int /\ R \in 0 .. D - 1 /\ ref = Q * D + R
    BY <1>1, DivMod
  <1>3. Previous(ref).end = s + config.duration
    BY DEF Previous
  <1>4. CASE c = -1
    <2> DEFINE back == IF R >= m THEN 0 ELSE 1
    <2>1. cmpHourOfDay(ref) = R - m
      <3>1. cmpHourOfDay(ref) = ref - (ref - R + 0 * D + m)
        BY DEF cmpHourOfDay, shiftTimeByDays
      <3> HIDE DEF D, Q, R, m
      <3> QED BY <1>1, <1>2, <3>1
    <2>2. daysBack(ref) = back
      BY <1>1, <1>2, <1>4, <2>1 DEF daysBack
    <2>3. s = ref - R + (-back) * D + m
      BY <2>2 DEF Previous, shiftTimeByDays
    <2>4. back \in {0, 1} /\ (back = 0 <=> R >= m)
      OBVIOUS
    <2> HIDE DEF back
    <2>5. FirstStart = m /\ PeriodLength = D
      BY <1>1, <1>4 DEF FirstStart, PeriodLength
    <2> HIDE DEF D, Q, R, m, c, s
    <2>6. s = (Q - back) * D + m
      <3>1. (Q - back) * D = Q * D - back * D /\ (-back) * D = -(back * D)
        BY <1>1, <1>2, <2>4
      <3> QED BY <1>1, <1>2, <2>3, <2>4, <3>1
    <2>7. s \in Int /\ Q - back \in Int /\ s - m = (Q - back) * D
      BY <1>1, <1>2, <2>4, <2>6
    <2>8. s <= ref /\ ref < s + D
      BY <1>1, <1>2, <2>3, <2>4
    <2> QED BY <1>3, <2>5, <2>7, <2>8 DEF s
  <1>5. CASE c # -1
    <2> DEFINE w == Q % 7
               V == Q \div 7
               x == (w - c) * D
               e == IF R + x - m >= 0 THEN 0 ELSE 7
    <2>1. w \in 0 .. 6 /\ V \in Int /\ Q = 7 * V + w /\ c \in 0 .. 6
      <3> HIDE DEF D, Q, R, m, c
      <3>1. Q % 7 \in 0 .. 6 /\ Q \div 7 \in Int /\ Q = 7 * (Q \div 7) + (Q % 7)
        BY <1>2, DivMod
      <3> QED BY <1>1, <1>5, <3>1
    <2>2. Weekday(ref) = w
      BY DEF Weekday
    <2>3. x \in -(6 * D) .. 6 * D /\ (c - w) * D = -x
      <3> HIDE DEF D, w, c
      <3> QED BY <1>1, <2>1
    <2>4. cmpDayOfWeek(ref) = R + x - m
      <3>1. cmpDayOfWeek(ref) = ref - (ref - R + (c - w) * D + m)
        BY <2>2 DEF cmpDayOfWeek, shiftTimeByDays
      <3> HIDE DEF D, Q, R, m, c, w, x
      <3> QED BY <1>1, <1>2, <2>3, <3>1
    <2>5. daysBack(ref) = w - c + e
      BY <1>5, <2>2, <2>4 DEF daysBack
    <2>6. s = ref - R + (-(w - c + e)) * D + m
      BY <2>5 DEF Previous, shiftTimeByDays
    <2>7. e \in {0, 7} /\ (e = 0 <=> R + x - m >= 0)
      OBVIOUS
    <2> HIDE DEF e
    <2>8. FirstStart = m + c * D /\ PeriodLength = 7 * D
      BY <1>5 DEF FirstStart, PeriodLength, Week
    <2>9. s = ref - R - x - e * D + m
      <3> HIDE DEF D, Q, R, m, c, w, s
      <3> QED BY <1>1, <1>2, <2>1, <2>6, <2>7 DEF x
    <2>10. s \in Int /\ s <= ref /\ ref < s + 7 * D
      <3> HIDE DEF D, Q, R, m, c, w, s, x
      <3> QED BY <1>1, <1>2, <2>3, <2>7, <2>9
    <2>11. \E k \in Int : s - (m + c * D) = k * (7 * D)
      <3> HIDE DEF D, Q, R, m, c, w, s, V
      <3>1. s = (7 * V + w) * D - (w - c) * D - e * D + m
        BY <1>1, <1>2, <2>1, <2>7, <2>9 DEF x
      <3>2. CASE e = 0
        <4>1. s - (m + c * D) = V * (7 * D)
          BY <1>1, <2>1, <3>1, <3>2
        <4> QED BY <2>1, <4>1
      <3>3. CASE e = 7
        <4>1. s - (m + c * D) = (V - 1) * (7 * D)
          BY <1>1, <2>1, <3>1, <3>3
        <4> QED BY <2>1, <4>1
      <3> QED BY <2>7, <3>2, <3>3
    <2> QED BY <1>3, <2>8, <2>10, <2>11
  <1> QED BY <1>4, <1>5

-----------------------------------------------------------------------------
(* The two readings of the clock.                                          *)

\* The inductive invariant: between the readings the operator holds the
\* window with the last start before the first of them.
WindowInv ==
    /\ TypeOK
    /\ PreviousIsLatest
    /\ now \in 0 .. MaxNow
    /\ pc = "compare" => period.end = period.start + config.duration

\* The invariant holds at the first reading of the clock.
LEMMA InitWindow == Init => WindowInv
  <1> SUFFICES ASSUME Init
               PROVE  WindowInv
    OBVIOUS
  <1>1. now = Week /\ readAt = Week /\ Week \in 0 .. MaxNow
    BY DayAssumption, NowAssumption DEF Init, Week
  <1>2. period.start = 0 /\ period.end = 0 /\ pc = "previous"
        /\ config \in Config /\ labels \in BOOLEAN
    BY DEF Init
  <1> QED BY <1>1, <1>2, NowAssumption DEF WindowInv, TypeOK, PreviousIsLatest

\* Time passing and both readings keep the invariant.
LEMMA NextWindow == WindowInv /\ [Next]_vars => WindowInv'
  <1> SUFFICES ASSUME WindowInv, [Next]_vars
               PROVE  WindowInv'
    OBVIOUS
  <1>1. CASE ReadPrevious
    <2>1. /\ period' = Previous(now) /\ readAt' = now /\ pc' = "compare"
          /\ UNCHANGED <<config, now, labels>>
      BY <1>1 DEF ReadPrevious
    <2>2. /\ Previous(now).start \in Int
          /\ Previous(now).end = Previous(now).start + config.duration
          /\ \E k \in Int : Previous(now).start - FirstStart = k * PeriodLength
          /\ Previous(now).start <= now
          /\ now < Previous(now).start + PeriodLength
      BY PreviousFinds DEF WindowInv, TypeOK
    <2>3. /\ config \in Config /\ config.duration \in Nat
          /\ PeriodLength \in Nat \ {0} /\ FirstStart \in Int
      BY ConfigType DEF WindowInv, TypeOK
    <2>4. (Previous(now).start - FirstStart) % PeriodLength = 0
      <3> DEFINE a == Previous(now).start - FirstStart
                 d == PeriodLength
      <3>1. a \in Int /\ d \in Nat \ {0}
        BY <2>2, <2>3
      <3>2. \E k \in Int : a = k * d
        BY <2>2, Zenon
      <3> HIDE DEF a, d
      <3>3. a % d = 0
        BY <3>1, <3>2, NoRemainder
      <3> QED BY <3>3 DEF a, d
    <2>5. PeriodLength' = PeriodLength /\ FirstStart' = FirstStart
      BY <2>1 DEF PeriodLength, FirstStart
    <2>6. PreviousIsLatest'
      BY <2>1, <2>2, <2>4, <2>5 DEF PreviousIsLatest
    <2>7. TypeOK'
      BY <2>1, <2>2, <2>3, NowAssumption DEF TypeOK, WindowInv
    <2> QED BY <2>1, <2>2, <2>6, <2>7 DEF WindowInv
  <1>2. CASE CompareEnd
    BY <1>2 DEF CompareEnd, inside, WindowInv, TypeOK, PreviousIsLatest
  <1>3. CASE Tick
    <2>1. PeriodLength' = PeriodLength /\ FirstStart' = FirstStart
      BY <1>3 DEF Tick, PeriodLength, FirstStart
    <2> QED BY <1>3, <2>1, NowAssumption DEF Tick, WindowInv, TypeOK, PreviousIsLatest
  <1>4. CASE UNCHANGED vars
    <2>1. PeriodLength' = PeriodLength /\ FirstStart' = FirstStart
      BY <1>4 DEF vars, PeriodLength, FirstStart
    <2> QED BY <1>4, <2>1 DEF vars, WindowInv, TypeOK, PreviousIsLatest
  <1> QED BY <1>1, <1>2, <1>3, <1>4 DEF Next

\* The inductive invariant holds at every minute: what Previous returned is the
\* start of a period that has begun, and the clock only moves on.
THEOREM WindowInvariantHolds == Spec => []WindowInv
  BY InitWindow, NextWindow, PTL DEF Spec

\* Type correctness; the period that was read has begun.
THEOREM TypeCorrect == Spec => []TypeOK
  <1>1. WindowInv => TypeOK
    BY DEF WindowInv
  <1> QED BY <1>1, WindowInvariantHolds, PTL

\* Previous returns the last start that is not after the time it is asked
\* about, whatever the day, the time of day and the configuration.
THEOREM PreviousIsLatestHolds == Spec => []PreviousIsLatest
  <1>1. WindowInv => PreviousIsLatest
    BY DEF WindowInv
  <1> QED BY <1>1, WindowInvariantHolds, PTL

\* The period that was read is one of those InWindow speaks of, and no later
\* one has begun at the time of the first reading.
LEMMA ReadIsWindow ==
    ASSUME WindowInv, pc = "compare"
    PROVE  \E k \in -2 .. MaxNow :
              /\ period.start = FirstStart + k * PeriodLength
              /\ \A j \in Int : j > k => FirstStart + j * PeriodLength > readAt
  <1> DEFINE P == PeriodLength
             F == FirstStart
             s == period.start
  <1>1. /\ P \in Nat \ {0} /\ F \in 0 .. P - 1 /\ s \in Int
        /\ readAt \in 0 .. MaxNow /\ s <= readAt /\ readAt < s + P
        /\ (s - F) % P = 0
    BY ConfigType, NowAssumption DEF WindowInv, TypeOK, PreviousIsLatest
  <1> HIDE DEF P, F, s
  <1>2. PICK k \in Int : s - F = k * P
    <2> DEFINE a == s - F
    <2>1. a \in Int /\ a % P = 0
      BY <1>1
    <2> HIDE DEF a
    <2>2. \E k \in Int : a = k * P
      BY <1>1, <2>1, NoRemainder
    <2> QED BY <2>2 DEF a
  <1>3. k <= MaxNow
    <2> SUFFICES ASSUME k >= MaxNow + 1
                 PROVE  FALSE
      BY <1>2, NowAssumption
    <2>1. k * P >= k
      BY <1>1, <1>2, NowAssumption
    <2> QED BY <1>1, <1>2, <2>1, NowAssumption
  <1>4. k >= -2
    <2> SUFFICES ASSUME k + 2 <= -1
                 PROVE  FALSE
      BY <1>2
    <2>1. (k + 2) * P = k * P + 2 * P /\ (k + 2) * P <= -P
      BY <1>1, <1>2, Distributes, Multiples
    <2> QED BY <1>1, <1>2, <2>1
  <1>5. ASSUME NEW j \in Int, j > k
        PROVE  F + j * P > readAt
    <2>1. (j - k) * P = j * P - k * P /\ (j - k) * P >= P
      BY <1>1, <1>2, <1>5, Distributes, Multiples
    <2> QED BY <1>1, <1>2, <1>5, <2>1
  <1>6. k \in -2 .. MaxNow /\ s = F + k * P
    BY <1>1, <1>2, <1>3, <1>4, NowAssumption
  <1> QED BY <1>5, <1>6 DEF P, F, s

\* What a pass of markBeforeReboot decides.
LEMMA DecidesExactly ==
    ASSUME WindowInv, CompareEnd
    PROVE  /\ labels' => InWindow(now)
           /\ readAt = now => (InWindow(now) => labels')
  <1>1. PICK k \in -2 .. MaxNow :
                /\ period.start = FirstStart + k * PeriodLength
                /\ \A j \in Int : j > k => FirstStart + j * PeriodLength > readAt
    BY ReadIsWindow DEF CompareEnd
  <1>2. /\ period.end = period.start + config.duration /\ period.start <= readAt
        /\ readAt <= now /\ now \in Nat /\ readAt \in Nat /\ period.start \in Int
        /\ config.duration \in Nat /\ PeriodLength \in Nat \ {0} /\ FirstStart \in Nat
    BY ConfigType, NowAssumption DEF WindowInv, TypeOK, CompareEnd
  <1>3. labels' <=> period.end > now
    BY DEF CompareEnd, inside
  <1>4. ASSUME labels'
        PROVE  InWindow(now)
    <2>1. /\ FirstStart + k * PeriodLength <= now
          /\ now < FirstStart + k * PeriodLength + config.duration
      <3>1. k * PeriodLength \in Int
        BY <1>2, NowAssumption, Multiples
      <3>2. period.end > now
        BY <1>4, <1>3
      <3> QED BY <1>1, <1>2, <3>1, <3>2
    <2> QED BY <2>1 DEF InWindow
  <1>5. ASSUME readAt = now, InWindow(now)
        PROVE  labels'
    <2>1. PICK j \in -2 .. MaxNow :
                 /\ FirstStart + j * PeriodLength <= now
                 /\ now < FirstStart + j * PeriodLength + config.duration
      BY <1>5 DEF InWindow
    <2>2. j <= k
      BY <1>1, <1>2, <1>5, <2>1, NowAssumption
    <2>3. j * PeriodLength <= k * PeriodLength
      BY <1>2, <2>2, NowAssumption
    <2>4. j * PeriodLength \in Int /\ k * PeriodLength \in Int
      BY <1>2, NowAssumption, Multiples
    <2>5. period.end > now
      BY <1>1, <1>2, <2>1, <2>3, <2>4
    <2> QED BY <1>3, <2>5
  <1> QED BY <1>4, <1>5

\* Nodes are labelled only inside the window, although the clock moves on
\* between the two readings, and always when both are the same time inside.
THEOREM WindowExactHolds == Spec => WindowExact
  <1>1. WindowInv /\ [Next]_vars
          => [pc = "compare" /\ pc' = "previous" =>
                /\ labels' => InWindow(now)
                /\ readAt = now => (InWindow(now) => labels')]_vars
    <2> SUFFICES ASSUME WindowInv, [Next]_vars, pc = "compare", pc' = "previous"
                 PROVE  /\ labels' => InWindow(now)
                        /\ readAt = now => (InWindow(now) => labels')
      OBVIOUS
    <2>1. CompareEnd
      BY DEF Next, vars, ReadPrevious, Tick
    <2> QED BY <2>1, DecidesExactly
  <1> QED BY <1>1, WindowInvariantHolds, PTL DEF Spec, WindowExact

=============================================================================
