----------------------------- MODULE ShiftHours -----------------------------
(***************************************************************************)
(* The hours of a shift (shifts/models.py) and the one night on which the  *)
(* clocks go forward (common/dst.py).                                      *)
(*                                                                         *)
(* A shift is a set of spans, each with the hour of its day it starts at   *)
(* and the one it ends at.  Days have DayHours of them, counted on the     *)
(* wall clock from the first midnight.                                     *)
(***************************************************************************)
EXTENDS Integers, FiniteSets, FiniteSetsExt

CONSTANTS
    DayHours,
    ChangeAt,     \* the wall-clock hour at which the clocks go forward
    ChangeBy      \* by how much

ClockAssumption ==
    DayHours \in Nat \ {0} /\ ChangeAt \in Nat /\ ChangeBy \in Nat

LOCAL Larger(a, b)  == IF a > b THEN a ELSE b
LOCAL Smaller(a, b) == IF a < b THEN a ELSE b

\* An end that is not after the start is of the next day.
SpanHours(span) ==
    IF span.end > span.start THEN span.end - span.start
    ELSE span.end - span.start + DayHours

HoursOf(segments) == MapThenSumSet(SpanHours, segments)

FirstStart(segments) == Min({span.start : span \in segments})

StartsAt(day, segments) == day * DayHours + FirstStart(segments)

\* The end of the span that starts last.
EndsAt(day, segments) ==
    LET last == CHOOSE span \in segments : \A s \in segments : s.start <= span.start
    IN day * DayHours + last.start + SpanHours(last)

\* A range of the clock as ranges that do not wrap midnight.
Unroll(a, b) == IF b > a THEN {<<a, b>>} ELSE {<<a, DayHours>>, <<0, b>>}

Common(x, y) == Larger(0, Smaller(x[2], y[2]) - Larger(x[1], y[1]))

\* MUTANT: a span and a window that both wrap are compared as they are written.
NightHoursUnwrapped(segments, night) ==
    MapThenSumSet(
        LAMBDA span : Common(<<span.start, span.start + SpanHours(span)>>,
                             <<night.start, night.start + SpanHours(night)>>),
        segments)

\* night_minutes: every piece of the span against every piece of the window.
NightHours(segments, night) ==
    MapThenSumSet(
        LAMBDA span :
            MapThenSumSet(LAMBDA pair : Common(pair[1], pair[2]),
                          Unroll(span.start, span.end) \X Unroll(night.start, night.end)),
        segments)

OverlapsNight(segments, night) == NightHours(segments, night) > 0

\* MUTANT: subtracting wall clocks.
WallGap(from, to) == to - from

\* What really passes between two hours of the wall clock (real_gap).
RealGap(from, to) ==
    to - from - IF from < ChangeAt /\ ChangeAt <= to THEN ChangeBy ELSE 0
=============================================================================
