---------------------------- MODULE RosterReview ----------------------------
(***************************************************************************)
(* The roster of one person and what the product says of it: the review    *)
(* (shifts/services.py, review_roster), the panel of who can cover a shift *)
(* (shifts/coverage.py) and the accounts of what was clocked afterwards.   *)
(*                                                                         *)
(* Days go from 0 to LastDate; weeks have DaysAWeek and day 0 is the       *)
(* weekday FirstWeekday.  A day of the roster is the set of the spans of   *)
(* its shift, empty when there is none.  The review is a function of the   *)
(* window it is asked about, from `f' to `l'; a finding has a day and a    *)
(* code.                                                                   *)
(***************************************************************************)
EXTENDS WorkedHours

CONSTANTS
    LastDate, DaysAWeek, FirstWeekday,
    FortnightDays,    \* the period the weekly rest is accumulated over
    DrawnDays,        \* the days that are ever given a shift
    Patterns,         \* the shifts they are given
    Profiles,         \* the contracts, leaves and habits of the person
    Rules,            \* what the company has configured
    Law               \* what the framework of its country says

VARIABLES
    person,
    roster,
    today,            \* the days before it were lived
    record            \* what the person clocked on them

reviewVars == <<person, roster, today, record>>

Dates == 0 .. LastDate

WeeksAssumption ==
    /\ LastDate \in Nat /\ DaysAWeek \in Nat \ {0, 1} /\ FirstWeekday \in 0 .. DaysAWeek - 1
    /\ DrawnDays \subseteq Dates
    /\ {} \notin Patterns

\* What shifts, contracts and reductions of them are.
ProfilesAssumption ==
    /\ \A p \in Patterns :
          /\ IsFiniteSet(p)
          /\ p \subseteq [start : 0 .. DayHours - 1, end : 0 .. DayHours - 1]
    /\ \A x \in Profiles :
          /\ x.agreed.hours \in Nat
          /\ x.reductions \subseteq [from : Int, to : Int, share : 0 .. 100]
          /\ \A r \in x.reductions : r.from <= r.to

Finding(day, code) == [day |-> day, code |-> code]

-----------------------------------------------------------------------------
(* What the review reads.                                                  *)

Weekday(d) == (FirstWeekday + d) % DaysAWeek
Monday(d)  == d - Weekday(d)
WeekOf(m)  == m .. m + DaysAWeek - 1

WithShift(days) == {d \in days \cap Dates : roster[d] # {}}

\* MUTANT: one day either side.
ReadOneDayAround(f, l) == (f - 1) .. (l + 1)

\* The weeks of both edges whole, and a day when the window starts or ends one.
Read(f, l) == (f - Max({1, Weekday(f)})) .. (l + Max({1, DaysAWeek - 1 - Weekday(l)}))

Loaded(f, l) == WithShift(Read(f, l))

Continuous(d) == Cardinality(roster[d]) = 1

Sum(days) == MapThenSumSet(LAMBDA d : HoursOf(roster[d]), days)

Rest(a, b) == RealGap(EndsAt(a, roster[a]), StartsAt(b, roster[b]))

Before(days, d) == {e \in days : e < d}
Eve(days, d)    == Max(Before(days, d))

IsMinorOn(d)   == d < person.adultFrom
IsEngagedOn(d) == d \in person.engaged

\* The hours agreed for a week: only a weekly figure can be compared.
AgreedForTheWeek == person.agreed.per = "week"

-----------------------------------------------------------------------------
(* The checks of the review.                                               *)

DailyRest(f, l) ==
    LET days     == Loaded(f, l)
        Short(d) == Before(days, d) # {} /\ Rest(Eve(days, d), d) < Rules.dailyRest
        Rotated(d) == /\ person.rotating
                      /\ FirstStart(roster[d]) # FirstStart(roster[Eve(days, d)])
        Code(d)  == IF Rotated(d) /\ Rest(Eve(days, d), d) >= Law.changeover
                    THEN "changeover_rest_owed" ELSE "short_daily_rest"
    IN {Finding(d, Code(d)) : d \in {e \in days \cap (f .. l) : Short(e)}}

\* The largest of the reductions that meet both the window and the week.
Reduction(f, l, m) ==
    LET meet(r, a, b) == r.from <= b /\ r.to >= a IN
    Max({0} \cup {r.share : r \in {x \in person.reductions :
            meet(x, f, l) /\ meet(x, m, m + DaysAWeek - 1)}})

\* What a week of so many hours is said to be, `planned' or worked.
OverTheWeek(f, l, m, hours, ceiling, contract) ==
    IF hours > Rules.weeklyHours THEN {Finding(m, ceiling)}
    ELSE IF AgreedForTheWeek /\ hours * 100 > person.agreed.hours * (100 - Reduction(f, l, m))
         THEN {Finding(m, contract)}
         ELSE {}

WeeklyHours(f, l) ==
    LET days  == Loaded(f, l)
        weeks == {m \in {Monday(d) : d \in days} : m + DaysAWeek - 1 >= f /\ m <= l}
    IN (UNION {OverTheWeek(f, l, m, Sum(days \cap WeekOf(m)),
                           "weekly_hours_exceeded", "over_contracted_hours") : m \in weeks})
       \cup (IF person.agreed.per = "none" /\ days # {}
             THEN {Finding(f, "no_agreed_weekly_hours")} ELSE {})

Breaks(f, l) ==
    {Finding(d, "break_owed") : d \in {e \in WithShift(f .. l) :
        Continuous(e) /\ HoursOf(roster[e]) > Rules.breakAfter}}

\* The longest stretch without work in a period that opens on a rostered day.
LongestRest(a, b, days) ==
    LET inner == {Rest(Eve(days, d), d) : d \in {e \in days : Before(days, e) # {}}}
        opens == RealGap(a * DayHours, StartsAt(Min(days), roster[Min(days)]))
        closes == RealGap(EndsAt(Max(days), roster[Max(days)]), (b + 1) * DayHours)
    IN Max(inner \cup {opens, closes})

WeeklyRest(f, l) ==
    LET minimum  == IF IsMinorOn(f) THEN Law.minorWeeklyRest ELSE Rules.weeklyRest
        length   == IF person.rotating THEN Law.accumulation ELSE FortnightDays
        Period(a) == Loaded(f, l) \cap (a .. a + length - 1)
        short    == {a \in Loaded(f, l) :
                        /\ f <= a /\ a + length - 1 <= l
                        /\ Cardinality(Period(a)) >= 2
                        /\ LongestRest(a, a + length - 1, Period(a)) < minimum}
    IN IF short = {} THEN {} ELSE {Finding(Min(short), "short_weekly_rest")}

IsNight(d) == NightHours(roster[d], Law.night) >= Law.qualifying

HoldsNightStatus(days) ==
    LET nights == Cardinality({d \in days : IsNight(d)}) IN
    \/ person.night = "YES"
    \/ /\ person.night = "AUTO"
       /\ nights >= Law.evidence /\ nights * 2 > Cardinality(days)

NightAverage(f, l) ==
    LET over == {a \in WithShift(f .. l) :
            /\ a + Law.averageDays - 1 <= l
            /\ Sum(WithShift(a .. a + Law.averageDays - 1)) > Law.average * Law.averageDays}
    IN IF over = {} THEN {} ELSE {Finding(Min(over), "night_worker_average")}

\* Weeks without a shift do not break a run of weeks at night.
NightWeeks(f, l) ==
    LET days   == WithShift(f .. l)
        weeks  == {Monday(d) : d \in days}
        Of(m) == days \cap WeekOf(m)
        AtNight(m) == Cardinality({d \in Of(m) : IsNight(d)}) * 2 > Cardinality(Of(m))
        Run(a, b) == {m \in weeks : a <= m /\ m <= b}
        runs   == {x \in weeks \X weeks :
                    /\ x[1] <= x[2]
                    /\ \A m \in Run(x[1], x[2]) : AtNight(m)
                    /\ Cardinality(Run(x[1], x[2])) = Law.nightWeeks + 1
                    /\ \A m \in weeks : AtNight(m) /\ m < x[1] =>
                         \E n \in weeks : m < n /\ n < x[1] /\ ~AtNight(n)}
    IN IF runs = {} THEN {}
       ELSE {Finding(Min(Of(Min({x[1] : x \in runs}))), "consecutive_night_weeks")}

NightWork(f, l) ==
    LET inside == WithShift(f .. l)
        holds  == HoldsNightStatus(Loaded(f, l))
    IN IF inside = {} THEN {}
       ELSE (IF holds /\ person.night = "AUTO"
             THEN {Finding(Min(inside), "looks_like_night_work")} ELSE {})
            \cup (IF holds THEN NightAverage(f, l) ELSE {})
            \cup (IF person.rotating /\ ~person.voluntary THEN NightWeeks(f, l) ELSE {})

UnderEighteen(f, l) ==
    LET days == {d \in WithShift(f .. l) : IsMinorOn(d)} IN
    {Finding(d, "minor_over_daily_limit") :
        d \in {e \in days : HoursOf(roster[e]) > Law.minorHours}}
    \cup {Finding(d, "minor_break_owed") :
        d \in {e \in days : Continuous(e) /\ HoursOf(roster[e]) > Law.minorBreakAfter}}
    \cup {Finding(d, "minor_night_work") :
        d \in {e \in days : OverlapsNight(roster[e], Rules.night)}}

LeaveClashes(f, l) ==
    {Finding(d, "rostered_on_leave") : d \in WithShift(f .. l) \cap person.leave}

OnAHoliday(f, l) ==
    {Finding(d, "rostered_on_a_holiday") : d \in WithShift(f .. l) \cap person.holidays}

\* This one speaks of every day it was given, outside the window too.
OutsideTheContract(f, l) ==
    {Finding(d, IF person.seasonal THEN "outside_the_season" ELSE "outside_the_contract") :
        d \in {e \in Loaded(f, l) : ~IsEngagedOn(e)}}

TimeActuallyWorked(f, l) ==
    UNION {OverTheWeek(f, l, m, WorkedInWeek(InPeriod(record, f, l), m, m + DaysAWeek - 1),
                       "worked_over_the_maximum", "worked_over_the_contract") :
           m \in {Monday(d) : d \in f .. l} \cap {x \in f .. l : x + DaysAWeek - 1 <= l}}

ReviewRoster(f, l) ==
    DailyRest(f, l) \cup WeeklyHours(f, l) \cup Breaks(f, l) \cup WeeklyRest(f, l)
      \cup NightWork(f, l) \cup UnderEighteen(f, l) \cup LeaveClashes(f, l)
      \cup OnAHoliday(f, l) \cup OutsideTheContract(f, l) \cup TimeActuallyWorked(f, l)

-----------------------------------------------------------------------------
(* Covering a shift.                                                       *)

\* The shifts nobody is going to work.
Uncovered(f, l) ==
    {d \in WithShift(f .. l) : ~IsEngagedOn(d) \/ d \in person.leave}

Blocked(d) == ~IsEngagedOn(d) \/ d \in person.leave \/ roster[d] # {}

\* MUTANT: only the shifts of that week are compared with the new one.
NeighboursOfTheWeek(d) == WithShift(WeekOf(Monday(d))) \ {d}

Neighbours(d) == WithShift((Monday(d) - 1) .. (Monday(d) + DaysAWeek)) \ {d}

\* The rest before and after, on the side where the two do not overlap.
TooClose(d, p) ==
    \E o \in Neighbours(d) :
        LET ends == EndsAt(o, roster[o]) starts == StartsAt(o, roster[o]) IN
        \/ /\ ends <= StartsAt(d, p)
           /\ RealGap(ends, StartsAt(d, p)) < Rules.dailyRest
        \/ /\ starts >= EndsAt(d, p)
           /\ RealGap(EndsAt(d, p), starts) < Rules.dailyRest

OverTheContract(d, p) ==
    AgreedForTheWeek /\ person.agreed.hours < Sum(WithShift(WeekOf(Monday(d)))) + HoursOf(p)

\* Offered first: nothing in the way, and nothing to warn of.
CanCover(d, p) == ~Blocked(d) /\ ~TooClose(d, p) /\ ~OverTheContract(d, p)

-----------------------------------------------------------------------------
(* The roster is drawn, covered and lived.                                 *)

ReviewInit ==
    /\ person \in Profiles
    /\ roster = [d \in Dates |-> {}]
    /\ today = 0
    /\ record = <<>>

\* assign_pattern, paint_cells and clear_shifts put a shift on a day, or none.
\* BOUND: nobody redraws a day that was already lived.
Draw(d, p) ==
    /\ d >= today /\ roster[d] # p
    /\ roster' = [roster EXCEPT ![d] = p]
    /\ UNCHANGED <<person, today, record>>

Cover(d, p) ==
    /\ d >= today /\ CanCover(d, p)
    /\ roster' = [roster EXCEPT ![d] = p]
    /\ UNCHANGED <<person, today, record>>

Punch(type, interval, at) == [type |-> type, interval |-> interval, at |-> at]

\* Who keeps the shift to the letter clocks both ends of every span, and the
\* break in the middle of the ones that are long enough when their habit is to
\* record it.
PunchesOf(d) ==
    LET spans  == SetToSortSeq(roster[d], LAMBDA a, b : a.start < b.start)
        In(s)  == d * DayHours + s.start
        Out(s) == In(s) + SpanHours(s)
        Clocked(s) ==
            IF person.pauses /\ SpanHours(s) > Rules.breakAfter
            THEN <<Punch("IN", "WORK", In(s)), Punch("IN", "BREAK", In(s) + 4),
                   Punch("OUT", "BREAK", In(s) + 5), Punch("OUT", "WORK", Out(s))>>
            ELSE <<Punch("IN", "WORK", In(s)), Punch("OUT", "WORK", Out(s))>>
    IN FlattenSeq([i \in DOMAIN spans |-> Clocked(spans[i])])

\* Nobody can begin a shift before leaving the one before.
LiveDay(d) ==
    /\ d = today
    /\ roster[d] # {} /\ record # <<>> => record[Len(record)].at <= StartsAt(d, roster[d])
    /\ record' = record \o PunchesOf(d)
    /\ today' = d + 1
    /\ UNCHANGED <<person, roster>>

ReviewNext ==
    \/ \E d \in DrawnDays, p \in Patterns \cup {{}} : Draw(d, p)
    \/ \E d \in DrawnDays, p \in Patterns : Cover(d, p)
    \/ \E d \in Dates : LiveDay(d)

ReviewSpec == ReviewInit /\ [][ReviewNext]_reviewVars

-----------------------------------------------------------------------------
(* Properties.                                                             *)

\* Two shifts with a whole day between them are a daily rest apart, so no shift
\* is so long, nor ends so late the morning after.
ADayOffIsARest ==
    \A p, q \in Patterns : \A d, e \in Dates :
        d + 1 < e => ~(RealGap(EndsAt(d, p), StartsAt(e, q)) < Rules.dailyRest)

\* The findings of a day or of a week; the others are of the window, or of a
\* period that has to fit in it.
OfADayOrAWeek(f, l) ==
    (DailyRest(f, l) \cup WeeklyHours(f, l) \cup Breaks(f, l) \cup UnderEighteen(f, l)
       \cup LeaveClashes(f, l) \cup OnAHoliday(f, l) \cup OutsideTheContract(f, l))
    \ {Finding(f, "no_agreed_weekly_hours")}

\* Every roster is drawn before any day of it is lived, and what follows speaks
\* of the roster alone: those with a shift that nobody has begun to live are
\* all there is to speak of.
JustDrawn == today = 0 /\ WithShift(Dates) # {}

\* Looking at the roster month by month says the same of every day and every
\* week as looking at the months together: nothing falls in the crack between
\* two windows, which is why review_roster reads beyond the one it is given.
MonthByMonthSaysTheSame ==
    JustDrawn =>
    LET said == [w \in Dates \X Dates |-> IF w[1] <= w[2] THEN OfADayOrAWeek(w[1], w[2]) ELSE {}]
    IN \A f \in Dates : \A l \in (f + 1) .. LastDate : \A m \in f .. (l - 1) :
        said[f, l] = said[f, m] \cup said[m + 1, l]

\* The hours that exist: the clocks jump over some.
RealHours(from, to) == {h \in from .. (to - 1) : h \notin ChangeAt .. (ChangeAt + ChangeBy - 1)}

\* The hours of a day the person is at work, span by span.
AtWork(d) ==
    UNION {LET from == d * DayHours + s.start
           IN RealHours(from, from + SpanHours(s)) : s \in roster[d]}

\* The real hours off between the last hour of work before a day and its first.
TimeOff(d) ==
    LET before == UNION {AtWork(e) : e \in WithShift(0 .. d - 1)} IN
    Cardinality(RealHours(Max(before) + 1, Min(AtWork(d))))

RestIsShort(d) ==
    /\ roster[d] # {} /\ WithShift(0 .. d - 1) # {}
    /\ TimeOff(d) < Rules.dailyRest

\* Some stretch of so many real hours without work fits in those days.
Rested(days, hours) ==
    LET busy == (UNION {AtWork(d) : d \in WithShift(days)}) \cap
                  (Min(days) * DayHours) .. ((Max(days) + 1) * DayHours - 1)
        edges == busy \cup {Min(days) * DayHours - 1}
    IN \E e \in edges :
         LET next == {b \in busy \cup {(Max(days) + 1) * DayHours} : b > e}
         IN Cardinality(RealHours(e + 1, Min(next))) >= hours

\* Most of the shifts of a week have hours to count as nights.
MostlyAtNight(m) ==
    LET nights == {d \in WithShift(WeekOf(m)) : IsNight(d)}
    IN Cardinality(nights) > Cardinality(WithShift(WeekOf(m)) \ nights)

TooManyNights(f, l) ==
    /\ person.rotating /\ ~person.voluntary
    /\ \E m \in f .. (l - (Law.nightWeeks + 1) * DaysAWeek + 1) :
          /\ Weekday(m) = 0
          /\ \A i \in 0 .. Law.nightWeeks : MostlyAtNight(m + i * DaysAWeek)

WholeWeeks(f, l) ==
    /\ Weekday(f) = 0 /\ Weekday(l + 1) = 0
    /\ \A m \in {Monday(d) : d \in f .. l} : WithShift(WeekOf(m)) # {}

PeriodWithoutRest(f, l) ==
    LET minimum == IF IsMinorOn(f) THEN Law.minorWeeklyRest ELSE Rules.weeklyRest
        length  == IF person.rotating THEN Law.accumulation ELSE FortnightDays
    IN \E a \in WithShift(f .. (l - length + 1)) : ~Rested(a .. (a + length - 1), minimum)

\* What is said of the rest is what the clock of the wall hides: a day is named
\* when, and only when, the hours that really pass since the last hour worked
\* before it are fewer than the daily rest, whatever the window, also across
\* the night the clocks go forward; and a period without its weekly rest is
\* named when there is one in the window.  Of whole weeks with shifts, too many
\* running at night are named; who exceeds the average of night workers was
\* told of being one; and who the panel of coverage finds missing is who the
\* review finds on leave or out of contract.
WarningsAreTrue ==
    JustDrawn =>
    \A f \in Dates : \A l \in f .. LastDate :
        LET review == ReviewRoster(f, l)
            Said(codes) == {x.day : x \in {y \in review : y.code \in codes}}
        IN
        /\ Said({"short_daily_rest", "changeover_rest_owed"}) = {d \in f .. l : RestIsShort(d)}
        /\ Said({"short_weekly_rest"}) # {} <=> PeriodWithoutRest(f, l)
        /\ Said({"rostered_on_leave", "outside_the_contract", "outside_the_season"}) \cap f .. l
             = Uncovered(f, l)
        /\ Said({"night_worker_average"}) # {} =>
             person.night = "YES" \/ Said({"looks_like_night_work"}) # {}
        /\ WholeWeeks(f, l) =>
             (Said({"consecutive_night_weeks"}) # {} <=> TooManyNights(f, l))

OverlapsAnother(d, p) ==
    \E o \in WithShift(Dates) \ {d} :
        StartsAt(o, roster[o]) < EndsAt(d, p) /\ StartsAt(d, p) < EndsAt(o, roster[o])

\* What a shift that is taken over must not bring about.
Grave ==
    (DailyRest(0, LastDate) \cup WeeklyHours(0, LastDate) \cup LeaveClashes(0, LastDate)
       \cup OutsideTheContract(0, LastDate))
    \ {Finding(0, "no_agreed_weekly_hours")}

\* Whoever the panel offers without a warning takes the shift without a warning
\* of the review: what who_can_cover looks at, one shift against a week, agrees
\* with what the review finds afterwards in the whole roster.  It does not for a
\* shift that overlaps another of theirs, for a week whose hours are reduced and
\* for a contract that has no weekly figure.
CoveringAddsNoWarning ==
    [][\A d \in DrawnDays :
         (/\ roster'[d] \in Patterns /\ roster'[d] # roster[d]
          /\ CanCover(d, roster'[d]) /\ ~OverlapsAnother(d, roster'[d])
          /\ AgreedForTheWeek /\ Reduction(0, LastDate, Monday(d)) = 0)
         => Grave' \subseteq Grave]_reviewVars

\* The weeks that were lived whole inside a window.
LivedWeeks(f, l) ==
    {m \in f .. l : Weekday(m) = 0 /\ m + DaysAWeek - 1 <= l /\ m + DaysAWeek <= today}

CrossesTheChange(d) ==
    roster[d] # {} /\ StartsAt(d, roster[d]) < ChangeAt /\ ChangeAt <= EndsAt(d, roster[d])

\* Days a team that rotates is moved with less than the ordinary rest.
Relays(days) ==
    {d \in days : /\ Before(days, d) # {}
                   /\ FirstStart(roster[d]) # FirstStart(roster[Eve(days, d)])
                   /\ Rest(Eve(days, d), d) < Rules.dailyRest}

\* Somebody who keeps the roster to the letter is told the same of what they
\* worked as of what was planned, of every whole week in any window; and what
\* they are owed for nights, holidays and changes of shift, and the hours over
\* a part-time contract, are those of the plan.  Not so for the night that is
\* an hour shorter, for a shift that ends after the window does and, among the
\* changes of shift, for the pause of a split one, which is taken for another.
PlanAndRecordAgree ==
    LET lived == WithShift(0 .. today - 1) IN
    /\ \A f \in Dates : \A l \in f .. LastDate : \A m \in LivedWeeks(f, l) :
         (\A d \in WithShift(WeekOf(m)) :
             ~CrossesTheChange(d) /\ EndsAt(d, roster[d]) < (l + 1) * DayHours)
         => \A pair \in {<<"worked_over_the_maximum", "weekly_hours_exceeded">>,
                         <<"worked_over_the_contract", "over_contracted_hours">>} :
                Finding(m, pair[1]) \in TimeActuallyWorked(f, l)
                  <=> Finding(m, pair[2]) \in WeeklyHours(f, l)
    /\ NightHoursWorked(record, Rules.night)
         = MapThenSumSet(LAMBDA d : NightHours(roster[d], Rules.night), lived)
    /\ (\A d \in lived : ~CrossesTheChange(d)) =>
         /\ HolidayHours(record, person.holidays) = Sum(lived \cap person.holidays)
         /\ ComplementaryUsed(record, 0, LastDate + 1, 0) = Sum(lived)
         /\ (\A d \in lived : Continuous(d)) =>
              ChangeoverOwed(record, Rules.dailyRest, Law.margin)
                = MapThenSumSet(LAMBDA d : Rules.dailyRest - Rest(Eve(lived, d), d), Relays(lived))

\* The hours somebody was at work in a week, without the breaks they recorded.
HoursAtWork(m) ==
    LET spans  == UNION {roster[d] \X {d} : d \in WithShift(WeekOf(m))}
        breaks == {s \in spans : person.pauses /\ SpanHours(s[1]) > Rules.breakAfter}
    IN Cardinality(UNION {AtWork(d) : d \in WithShift(WeekOf(m))}) - Cardinality(breaks)

\* `A company that rosters forty and works fifty is over the maximum, and art.
\* 34.1 ET is about hours actually worked, not hours intended' (services.py,
\* 2032-2034): whoever was at work longer than the maximum in a week that was
\* looked at whole is named, also when they recorded their breaks.
WorkIsWatched ==
    \A f \in Dates : \A l \in f .. LastDate : \A m \in LivedWeeks(f, l) :
        HoursAtWork(m) > Rules.weeklyHours =>
            Finding(m, "worked_over_the_maximum") \in ReviewRoster(f, l)
=============================================================================
