----------------------------- MODULE WorkedHours -----------------------------
(***************************************************************************)
(* The accounts that are made of what one person clocked over a period:    *)
(* the weekly totals of the roster review (shifts/services.py), the        *)
(* complementary hours of a part-time contract (punches/complementary.py), *)
(* the balance of an irregular year (irregular.py) and the rest owed for   *)
(* nights, holidays and shift changeovers (rest_debt.py).                  *)
(*                                                                         *)
(* Two loops pair entries and exits.  One remembers a single opening, the  *)
(* last; the other remembers one opening per interval, the first.  Events  *)
(* are in the order of their time.                                         *)
(***************************************************************************)
EXTENDS ShiftHours, Sequences, SequencesExt

CONSTANT NoOne     \* no opening

LOCAL Stretch(open, e) == [from |-> open.at, to |-> e.at, interval |-> open.interval]

\* The loop of _check_time_actually_worked, complementary_used and
\* _horas_trabajadas: an entry replaces the one before, whatever its interval.
LastOpening(acc, e) ==
    IF e.type = "IN" THEN [acc EXCEPT !.open = e]
    ELSE IF acc.open # NoOne
         THEN [open |-> NoOne, spans |-> acc.spans \cup {Stretch(acc.open, e)}]
         ELSE acc

\* The loop of _holiday_owed, _night_owed and _check_on_call_counts_as_work.
FirstOpeningOfEach(acc, e) ==
    LET mine == {o \in acc.open : o.interval = e.interval} IN
    CASE e.type = "IN" /\ mine = {} -> [acc EXCEPT !.open = @ \cup {e}]
      [] e.type = "OUT" /\ mine # {} ->
            [open  |-> acc.open \ mine,
             spans |-> acc.spans \cup {Stretch(o, e) : o \in mine}]
      [] OTHER -> acc

SpansByTheLast(events)  == FoldLeft(LastOpening, [open |-> NoOne, spans |-> {}], events).spans
SpansByInterval(events) == FoldLeft(FirstOpeningOfEach, [open |-> {}, spans |-> {}], events).spans

Total(spans)  == MapThenSumSet(LAMBDA s : RealGap(s.from, s.to), spans)
WorkOf(spans) == {s \in spans : s.interval = "WORK"}
DateOf(hour)   == hour \div DayHours

\* The punches of a period of days, both ends included.
InPeriod(events, first, last) ==
    SelectSeq(events, LAMBDA e : DateOf(e.at) \in first .. last)

-----------------------------------------------------------------------------

\* _check_time_actually_worked adds every span to the week it started in, the
\* breaks too.
WorkedInWeek(events, monday, sunday) ==
    Total({s \in SpansByTheLast(events) : DateOf(s.from) \in monday .. sunday})

\* Hours of effective work: _horas_trabajadas and the loop of complementary_used.
EffectiveHours(events) == Total(WorkOf(SpansByTheLast(events)))

\* complementary_used, for a contract of `agreed` hours in that period.
ComplementaryUsed(events, first, last, agreed) ==
    Max({0, EffectiveHours(InPeriod(events, first, last)) - agreed})

\* _holiday_owed before its multiplier: by the day the span opens.
HolidayHours(events, holidays) ==
    Total({s \in WorkOf(SpansByInterval(events)) : DateOf(s.from) \in holidays})

\* _horas_de_noche: the window of every day from the eve of the entry to the
\* morrow of the exit, on the wall clock.
NightHoursOf(span, night) ==
    MapThenSumSet(
        LAMBDA d : Common(<<span.from, span.to>>,
                          <<d * DayHours + night.start,
                            d * DayHours + night.start + SpanHours(night)>>),
        (DateOf(span.from) - 1) .. (DateOf(span.to) + 1))

NightHoursWorked(events, night) ==
    MapThenSumSet(LAMBDA s : NightHoursOf(s, night), WorkOf(SpansByInterval(events)))

\* How far two entries are, the short way round the clock (_cuanto_se_movio).
MovedBy(a, b) ==
    LET apart == IF a > b THEN a - b ELSE b - a IN Min({apart, DayHours - apart})

\* _changeover_owed, of somebody who rotates: what a rest between two spans
\* lacks of the ordinary one, when the entry moved.  Both ends are read in the
\* same zone, so their difference is the wall clock's.
ChangeoverOwed(events, ordinary, margin) ==
    LET spans     == WorkOf(SpansByInterval(events))
        Before(s) == {p \in spans : p.from < s.from}
        Eve(s)    == CHOOSE p \in Before(s) : \A q \in Before(s) : q.from <= p.from
        Gap(s)    == s.from - Eve(s).to
        relays    == {s \in spans :
                        /\ Before(s) # {}
                        /\ 0 < Gap(s) /\ Gap(s) < ordinary
                        /\ MovedBy(s.from % DayHours, Eve(s).from % DayHours) >= margin}
    IN MapThenSumSet(LAMBDA s : ordinary - Gap(s), relays)
=============================================================================
