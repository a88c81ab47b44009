----------------------------- MODULE WorkingDay -----------------------------
(***************************************************************************)
(* How the register of one person is read: which working day each event    *)
(* belongs to (punches/workday.py) and what the readers of the register    *)
(* make of a day - the screen (punches/services.py build_day_status), the  *)
(* roster's comparison (shifts/services.py day_reconciliation), the        *)
(* overtime queue (punches/overtime.py) and the document handed to an      *)
(* inspection (reports/services.py build_report).                          *)
(*                                                                         *)
(* Time is a number of ticks and days have DayLength of them: the person   *)
(* stays in one time zone and no clock changes.  A register is a set of    *)
(* live events, no two of the same moment (the double tap guard).          *)
(***************************************************************************)
EXTENDS Integers, FiniteSets, Sequences, SequencesExt, Functions

CONSTANTS
    DayLength,    \* ticks of a day
    MaxOpen,      \* WorkingTimeRules.max_open_hours
    Margin,       \* exit_tolerance_minutes
    BreakCounts,  \* break_counts_as_work
    LookBack      \* UNCLOSED_LOOKBACK_DAYS

ReadingAssumption ==
    /\ DayLength \in Nat \ {0} /\ MaxOpen \in Nat \ {0} /\ Margin \in Nat
    /\ BreakCounts \in BOOLEAN /\ LookBack \in Nat

Intervals == {"WORK", "BREAK"}
Types     == {"IN", "OUT"}
Event(t)  == [at : 0 .. t, interval : Intervals, type : Types]

None     == -1            \* no opening, no day
DayOf(t) == t \div DayLength

\* order_by("timestamp")
Earlier(register, e) == {f \in register : f.at < e.at}
InOrder(register) ==
    [i \in 1 .. Cardinality(register) |->
        CHOOSE e \in register : Cardinality(Earlier(register, e)) = i - 1]

-----------------------------------------------------------------------------
(* workday.py: the day an event belongs to *)

\* An opening too old is no longer the working day in course (_abandonada).
KeptOpen(since, t) == IF since # None /\ t - since > MaxOpen THEN None ELSE since

\* One turn of the loop of assign_workdays: every event goes to the day that
\* was open, an entry opens one if none was, and an exit closes it.
AssignOne(acc, e) ==
    LET since == KeptOpen(acc.since, e.at)
        opens == e.interval = "WORK" /\ e.type = "IN" /\ since = None
        start == IF opens THEN e.at ELSE since
    IN [day   |-> acc.day \cup {<<e, DayOf(IF start = None THEN e.at ELSE start)>>},
        since |-> IF e.interval = "WORK" /\ e.type = "OUT" THEN None ELSE start]

Assigned(register) ==
    FoldLeft(AssignOne, [day |-> {}, since |-> None], InOrder(register))

\* The events of a window whose working day is one of `days`.
Within(register, first, after) == {e \in register : first <= e.at /\ e.at < after}
OfDay(window, d) == {pair[1] : pair \in {p \in Assigned(window).day : p[2] = d}}

\* MUTANT: the window is the day itself.
PunchesOfTheDate(register, d) ==
    OfDay(Within(register, d * DayLength, (d + 1) * DayLength), d)

PunchesOfTheWorkday(register, d) ==
    OfDay(Within(register, d * DayLength - MaxOpen, (d + 1) * DayLength + MaxOpen), d)

\* The last working-day event of the last MaxOpen ticks decides which day is
\* "now"; without one it is today.
CurrentWorkday(register, now) ==
    LET seen == {e \in register : e.at >= now - 2 * MaxOpen}
        work == {e \in seen : e.interval = "WORK" /\ now - e.at <= MaxOpen}
    IN IF work = {}
       THEN DayOf(now)
       ELSE LET last == CHOOSE e \in work : \A f \in work : f.at <= e.at
            IN CHOOSE d \in 0 .. DayOf(now) : <<last, d>> \in Assigned(seen).day

-----------------------------------------------------------------------------
(* services.py: what is open, and what a tap is *)

LastOpen(register, interval, now) ==
    {e \in register :
        /\ e.interval = interval /\ e.at >= now - MaxOpen
        /\ \A f \in register : f.interval = interval => f.at <= e.at}

IsOpen(register, interval, now) ==
    \E e \in LastOpen(register, interval, now) : e.type = "IN"

InferredType(register, interval, now) ==
    IF IsOpen(register, interval, now) THEN "OUT" ELSE "IN"

\* unclosed_clock_in before what was already asked: an entry no exit followed
\* in time.  The loop keeps the first of two entries in a row.
UnclosedOne(acc, e) ==
    LET open == IF acc.open # None /\ e.at - acc.open > MaxOpen THEN None ELSE acc.open
    IN [forgotten |-> IF open = None /\ acc.open # None THEN acc.open ELSE acc.forgotten,
        open      |-> CASE e.type = "OUT" -> None
                        [] open = None    -> e.at
                        [] OTHER          -> open]

UnclosedClockIn(register, now) ==
    LET recent == {e \in register :
                      e.interval = "WORK" /\ e.at >= now - LookBack * DayLength}
        read   == FoldLeft(UnclosedOne, [open |-> None, forgotten |-> None],
                           InOrder(recent))
    IN IF read.open # None /\ now - read.open > MaxOpen THEN read.open ELSE read.forgotten

-----------------------------------------------------------------------------
(* The hours of a day *)

\* Entries and exits paired per interval, the first of two entries winning:
\* the loop of build_day_status and that of build_report.
PairOne(acc, e) ==
    CASE e.type = "IN" /\ acc.open[e.interval] = None ->
            [acc EXCEPT !.open[e.interval] = e.at]
      [] e.type = "OUT" /\ acc.open[e.interval] # None ->
            [acc EXCEPT !.hours[e.interval] = @ + e.at - acc.open[e.interval],
                        !.open[e.interval] = None]
      [] OTHER -> acc

Unpaired == [open |-> [k \in Intervals |-> None], hours |-> [k \in Intervals |-> 0]]

Paired(events) == FoldLeft(PairOne, Unpaired, InOrder(events))

Positive(n) == IF n > 0 THEN n ELSE 0

LessTheBreak(hours) ==
    IF BreakCounts THEN hours["WORK"] ELSE Positive(hours["WORK"] - hours["BREAK"])

\* build_day_status: a span still open counts up to now.
DayStatus(events, now) ==
    LET read == Paired(events)
        upTo == [k \in Intervals |->
                    read.hours[k] + IF read.open[k] = None THEN 0 ELSE now - read.open[k]]
    IN [worked |-> LessTheBreak(upTo),
        state  |-> CASE events = {}                  -> "NOT_STARTED"
                     [] read.open["BREAK"] # None -> "ON_BREAK"
                     [] read.open["WORK"] # None  -> "WORKING"
                     [] OTHER                     -> "OFF"]

Screen(register, d, now) == DayStatus(PunchesOfTheWorkday(register, d), now)

\* MUTANT: the document is made from the days asked for and nothing around.
ReportEventsWithoutMargin(register, first, last, d) ==
    OfDay(Within(register, first * DayLength, (last + 1) * DayLength), d)

ReportEvents(register, first, last, d) ==
    LET around == MaxOpen + DayLength IN
    OfDay(Within(register, first * DayLength - around, (last + 1) * DayLength + around), d)

\* build_report, for one row: only closed spans count.
Reported(register, first, last, d) ==
    LessTheBreak(Paired(ReportEvents(register, first, last, d)).hours)

-----------------------------------------------------------------------------
(* The day against the roster, where `expected` is Shift.minutes *)

Overtime(status, expected) ==
    IF status.state # "OFF" \/ status.worked - expected <= Margin
    THEN 0
    ELSE status.worked - expected

\* pending_overtime reads whole days around those that have a shift.
QueueEvents(register, days, d) ==
    LET first == CHOOSE x \in days : \A y \in days : x <= y
        last  == CHOOSE x \in days : \A y \in days : y <= x
    IN OfDay(Within(register, (first - 1) * DayLength, (last + 2) * DayLength), d)
=============================================================================
