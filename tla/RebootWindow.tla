---------------------------- MODULE RebootWindow ----------------------------
(***************************************************************************)
(* When markBeforeReboot takes the time to be inside the reboot window:    *)
(* Periodic of the vendored package timeutil, and the two readings of the  *)
(* clock with which the operator uses it.  UpdateOperator leaves   *)
(* open which way the test goes.                                           *)
(*                                                                         *)
(* Time is counted in minutes from the beginning of a Sunday.  All days    *)
(* are of one length: the operator's container runs on UTC.                *)
(***************************************************************************)
EXTENDS Integers

CONSTANTS
    DayLength,    \* minutes of a day, 1440 in the code
    MaxNow        \* bound: the last minute

ASSUME DayAssumption == DayLength \in Nat \ {0}
ASSUME NowAssumption == MaxNow \in Nat /\ MaxNow >= 7 * DayLength

VARIABLES
    config,    \* the Periodic: day of the week or -1, minute of the day, length
    now,       \* the time
    pc,        \* the next reading of the clock
    readAt,    \* the time of the first reading
    period,    \* the Period it gave
    labels     \* did this pass go on to label nodes?

vars == <<config, now, pc, readAt, period, labels>>

Week == 7 * DayLength

\* What parseStart yields; ParsePeriodic refuses a window as long as its period.
accepted(c) ==
    /\ c.dayOfWeek = -1 => c.duration < DayLength
    /\ c.duration < Week

Config == {c \in [dayOfWeek : -1 .. 6, minute : 0 .. DayLength - 1,
                  duration : 0 .. Week] : accepted(c)}

Init ==
    /\ config \in Config
    /\ now = Week
    /\ pc = "previous" /\ readAt = Week /\ labels = FALSE
    /\ period = [start |-> 0, end |-> 0]

-----------------------------------------------------------------------------
(* Periodic.                                                               *)

Weekday(ref) == (ref \div DayLength) % 7

shiftTimeByDays(ref, daydiff) ==
    ref - (ref % DayLength) + daydiff * DayLength + config.minute

cmpDayOfWeek(ref) == ref - shiftTimeByDays(ref, config.dayOfWeek - Weekday(ref))

cmpHourOfDay(ref) == ref - shiftTimeByDays(ref, 0)

\* Mutants: the start itself does not count; it is always this week's.
daysBack_Strict(ref) ==
    IF config.dayOfWeek # -1
    THEN Weekday(ref) - config.dayOfWeek + IF cmpDayOfWeek(ref) > 0 THEN 0 ELSE 7
    ELSE IF cmpHourOfDay(ref) > 0 THEN 0 ELSE 1
daysBack_ThisWeek(ref) ==
    IF config.dayOfWeek # -1
    THEN Weekday(ref) - config.dayOfWeek
    ELSE IF cmpHourOfDay(ref) >= 0 THEN 0 ELSE 1

\* This week or last week; today or yesterday.
daysBack(ref) ==
    IF config.dayOfWeek # -1
    THEN Weekday(ref) - config.dayOfWeek + IF cmpDayOfWeek(ref) >= 0 THEN 0 ELSE 7
    ELSE IF cmpHourOfDay(ref) >= 0 THEN 0 ELSE 1

Previous(ref) ==
    LET start == shiftTimeByDays(ref, -daysBack(ref))
    IN  [start |-> start, end |-> start + config.duration]

-----------------------------------------------------------------------------
(* markBeforeReboot.                                                       *)

ReadPrevious ==
    /\ pc = "previous"
    /\ period' = Previous(now)
    /\ readAt' = now
    /\ pc' = "compare"
    /\ UNCHANGED <<config, now, labels>>

\* Mutant: the end belongs to the window.
inside_Inclusive == period.end >= now

inside == period.end > now

CompareEnd ==
    /\ pc = "compare"
    /\ labels' = inside
    /\ pc' = "previous"
    /\ UNCHANGED <<config, now, readAt, period>>

Tick ==
    /\ now < MaxNow
    /\ now' = now + 1
    /\ UNCHANGED <<config, pc, readAt, period, labels>>

Next == ReadPrevious \/ CompareEnd \/ Tick

Spec == Init /\ [][Next]_vars

-----------------------------------------------------------------------------
\* Type invariant; the previous period has begun.
TypeOK ==
    /\ config \in Config
    /\ now \in Nat /\ readAt \in 0 .. now
    /\ pc \in {"previous", "compare"}
    /\ period.start \in Int /\ period.end \in Int /\ period.start <= readAt
    /\ labels \in BOOLEAN

PeriodLength == IF config.dayOfWeek = -1 THEN DayLength ELSE Week

\* What the documentation calls the window: the minutes from a start on the
\* configured day, or on every day, for the configured length.
FirstStart ==
    config.minute + IF config.dayOfWeek = -1 THEN 0 ELSE config.dayOfWeek * DayLength

InWindow(t) ==
    \E k \in -2 .. MaxNow : LET s == FirstStart + k * PeriodLength
                            IN  s <= t /\ t < s + config.duration

\* Previous returns the last start that is not after ref: none is skipped
\* at midnight, at the end of the week or at the start minute itself.
PreviousIsLatest ==
    pc = "compare" =>
        /\ (period.start - FirstStart) % PeriodLength = 0
        /\ period.start <= readAt /\ readAt < period.start + PeriodLength

\* Nodes are labelled only inside the window, although the clock moves on
\* between the two readings; and a pass that reads the same time twice labels
\* nodes exactly when that time is inside.
WindowExact ==
    [][pc = "compare" /\ pc' = "previous" =>
          /\ labels' => InWindow(now)
          /\ readAt = now => (InWindow(now) => labels')]_vars

=============================================================================
