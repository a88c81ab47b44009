---------------------------- MODULE LeaveBalance ----------------------------
(***************************************************************************)
(* What leave costs one person and what they have left: the holiday        *)
(* balance and its settlement (absences/services.py), the limits of the    *)
(* other permits (usage.py), the holiday a sick leave gives back           *)
(* (recovery.py) and the rest owed for overtime (punches/rest_debt.py).    *)
(*                                                                         *)
(* Every figure is counted when it is asked for, from rows that go on      *)
(* changing: the roster, the public holidays, the contract and the leave   *)
(* itself.  Only the days a sick leave ate are counted once and kept.      *)
(* How requests overlap in time is module Absences; here each one is a     *)
(* single step.                                                            *)
(***************************************************************************)
EXTENDS Integers, FiniteSets, FiniteSetsExt

CONSTANTS
    CalendarEnd,   \* BOUND: the last day there is
    YearDays, MonthDays, WeekDays,
    YearStart,     \* leave_year_start_month: the first day of a leave year
    WorkDays,      \* the days of the week of somebody with no roster
    FullYear,      \* annual_leave_days
    WorkingUnit,   \* leave_days_are_working_days
    ShiftHours,    \* Shift.minutes
    AgreedDay,     \* the hours of a day that has no shift
    Catalogue,     \* the catalogue of the company
    Askable,       \* what may be asked for
    Contract,      \* [from, to]; Open where there is no date
    Rosters, Offs, \* the days that may come to have a shift, and to be public holidays
    RestMarked,    \* day -> the hours of that day marked to be given back in rest
    RestTerm,      \* overtime_rest_days
    Rows,          \* Absence
    AskedOn,       \* BOUND: everything is asked on one day
    Open, Unlimited,
    Unset          \* no row, no figure, not shown yet

Calendar == 0 .. CalendarEnd
Units == {"DAYS_CALENDAR", "DAYS_WORKING", "HOURS", "WEEKS"}
Terms == {"EVENT", "DAY", "WEEK", "MONTH", "YEAR"}
Families == {"VACATION", "SICK_LEAVE", "PAID_LEAVE", "UNPAID_LEAVE", "SUSPENSION"}

\* amount: what it grants, Unlimited for the time it takes; extra: when travelling;
\* rest: the permit with which rest is given back.
LeaveType == [family : Families, amount : Nat \cup {Unlimited}, unit : Units, period : Terms,
              extra : Nat, recovers : BOOLEAN, rest : BOOLEAN]
Form == [type : Catalogue, from : Calendar, to : Calendar, hours : Nat]
Filed == [form : Askable, status : {"PENDING", "APPROVED", "CLOSED"}]
RecoveredHoliday == [holiday : Rows, leave : Rows, first : Calendar, last : Calendar, days : Nat,
                     status : {"PENDING", "CONFIRMED", "DISMISSED"}]

CalendarAssumption ==
    /\ {CalendarEnd, FullYear, ShiftHours, AgreedDay, RestTerm} \subseteq Nat
    /\ {YearDays, MonthDays, WeekDays, ShiftHours, AgreedDay} \subseteq Nat \ {0}
    /\ YearStart \in 0 .. YearDays - 1 /\ WorkDays \subseteq 0 .. WeekDays - 1
    /\ Rosters \cup Offs \subseteq Calendar /\ DOMAIN RestMarked \subseteq Calendar /\ AskedOn \in Calendar
    /\ Catalogue \subseteq LeaveType /\ Askable \subseteq Form
    /\ \A form \in Askable : form.from <= form.to
    /\ IsFiniteSet(Rows) /\ Unset \notin Filed \cup BOOLEAN

VARIABLES
    shifts,    \* Shift: the days that have one
    off,       \* PublicHoliday: of that person's workplace
    row,       \* Absence: what each row asks for and how it stands
    kept,      \* RecoveredHoliday: the days a sick leave ate, and how they stand
    shown      \* the warning each row carried in the queue, last time it was read

balanceVars == <<shifts, off, row, kept, shown>>

-----------------------------------------------------------------------------
(* Periods *)

Window(d, length, start) == LET first == d - ((d - start) % length) IN first .. first + length - 1

\* leave_period_for.
LeaveYear(d) == Window(d, YearDays, YearStart)
LeaveYears == {LeaveYear(d) : d \in Calendar}

\* period_for: the natural ones, whatever the leave year of the company.
PeriodFor(type, d) ==
    CASE type.period = "YEAR"  -> Window(d, YearDays, 0)
      [] type.period = "MONTH" -> Window(d, MonthDays, 0)
      [] type.period = "WEEK"  -> Window(d, WeekDays, 0)
      [] type.period = "DAY"   -> {d}
      [] OTHER                 -> Calendar

-----------------------------------------------------------------------------
(* Counting days *)

Standing == {"PENDING", "APPROVED"}
There(r) == row[r] # Unset
Those(statuses) == {r \in Rows : There(r) /\ row[r].status \in statuses}
Partial(form) == form.hours > 0
Span(form) == form.from .. form.to

\* Past the last day ever rostered, the ordinary week answers.
Horizon == Max(shifts \cup {-1})
WorkingDay(d) ==
    /\ d \notin off
    /\ IF d <= Horizon THEN d \in shifts ELSE d % WeekDays \in WorkDays

Counted(days, working) == {d \in days : working => WorkingDay(d)}

\* MUTANT: the whole leave, whatever part of it is in the period.
WholeLeave(form, period, working) == Cardinality(Counted(Span(form), working))

\* _days_within.
DaysWithin(form, period, working) == Cardinality(Counted(Span(form) \cap period, working))

Meets(form, period) == Span(form) \cap period # {}

-----------------------------------------------------------------------------
(* The holiday balance *)

Holidays(statuses, period) ==
    {r \in Those(statuses) : row[r].form.type.family = "VACATION"
                             /\ ~Partial(row[r].form) /\ Meets(row[r].form, period)}

Cost(statuses, period) ==
    SumFunction([r \in Holidays(statuses, period) |-> DaysWithin(row[r].form, period, WorkingUnit)])

\* recovered_days: the rows that touch the period, with all their days.
Recovered(period) ==
    SumFunction([k \in {x \in kept : x.status = "CONFIRMED" /\ (x.first .. x.last) \cap period # {}}
                    |-> k.days])

Taken(period) == Max({0, Cost({"APPROVED"}, period) - Recovered(period)})

Ceil(n, m) == (n + m - 1) \div m

\* MUTANT: rounded down.
AccruedDown(signed, period) ==
    LET worked == {d \in period : (signed.from = Open \/ d >= signed.from) /\ (signed.to = Open \/ d <= signed.to)}
    IN (FullYear * Cardinality(worked)) \div Cardinality(period)

\* _accrued.
Accrued(signed, period) ==
    LET worked == {d \in period : (signed.from = Open \/ d >= signed.from)
                                  /\ (signed.to = Open \/ d <= signed.to)}
    IN Ceil(FullYear * Cardinality(worked), Cardinality(period))

\* leave_settlement: the balance of the leave year in which the contract ends.
Settlement(until) ==
    LET period == LeaveYear(until)
    IN Accrued([Contract EXCEPT !.to = until], period) - Taken(period)

-----------------------------------------------------------------------------
(* The limits of the other permits *)

\* Shift.minutes of the day it starts, or what that person agreed.
WholeDayHours(form) == IF form.from \in shifts THEN ShiftHours ELSE AgreedDay

\* In hundredths of the unit of the permit.
Amount(form, type, period) ==
    IF type.unit = "HOURS"
    THEN 100 * (IF Partial(form) THEN form.hours ELSE WholeDayHours(form))
    ELSE IF Partial(form) THEN (100 * form.hours) \div WholeDayHours(form)
    ELSE 100 * DaysWithin(form, period, type.unit = "DAYS_WORKING")

\* MUTANT: what is only asked for does not count.
UsageGranted(type, d) ==
    LET period == PeriodFor(type, d)
        rows   == {r \in Those({"APPROVED"}) : row[r].form.type = type /\ Meets(row[r].form, period)}
    IN SumFunction([r \in rows |-> Amount(row[r].form, type, period)])

\* leave_usage.
Usage(type, d) ==
    LET period == PeriodFor(type, d)
        rows   == {r \in Those(Standing) : row[r].form.type = type /\ Meets(row[r].form, period)}
    IN SumFunction([r \in rows |-> Amount(row[r].form, type, period)])

\* event_request_amount: Unset where there is nothing to compare.
Asked(form, type) ==
    CASE type.unit = "HOURS" -> IF Partial(form) THEN 100 * form.hours ELSE Unset
      [] type.unit # "HOURS" /\ Partial(form) -> Unset
      [] type.unit = "WEEKS" /\ ~Partial(form) -> (100 * Cardinality(Span(form))) \div WeekDays
      [] OTHER -> 100 * DaysWithin(form, Span(form), type.unit = "DAYS_WORKING")

\* leave_over_the_limit.
OverTheLimit(r) ==
    LET form == row[r].form
        type == form.type
    IN /\ type.amount # Unlimited
       /\ IF type.period # "EVENT"
          THEN Usage(type, form.from) > 100 * type.amount
          ELSE Asked(form, type) # Unset /\ Asked(form, type) > 100 * (type.amount + type.extra)

-----------------------------------------------------------------------------
(* Rest owed for overtime *)

\* _overtime_owed: what is still in its term.
Owed == SumFunctionOnSet(RestMarked, {d \in DOMAIN RestMarked : d <= AskedOn /\ d >= AskedOn - RestTerm})

GivenBack == {r \in Those({"APPROVED"}) : row[r].form.type.rest}

\* _horas_del_cuadrante, and the days of it that have no shift.
RosteredHours(form) == ShiftHours * Cardinality(Span(form) \cap shifts)
Unconverted(form) == Cardinality(Span(form) \ shifts)
RestHours(form) == IF Partial(form) THEN form.hours ELSE RosteredHours(form)

\* _descanso_disfrutado: granted, and already begun.  A year back is all of them.
Enjoyed == SumFunction([r \in {x \in GivenBack : row[x].form.from <= AskedOn} |-> RestHours(row[r].form)])

RestLeft == Max({0, Owed - Enjoyed})

\* rest_debt_over_the_balance.
RestOverTheBalance(r) ==
    LET form == row[r].form IN
    /\ form.type.rest
    /\ RestHours(form) > RestLeft \/ (~Partial(form) /\ Unconverted(form) > 0)

\* AbsenceSerializer.get_over_the_limit, of the rows of the queue.
Warning(r) == RestOverTheBalance(r) \/ OverTheLimit(r)

-----------------------------------------------------------------------------
BalanceInit ==
    /\ shifts = {} /\ off = {}
    /\ row = [r \in Rows |-> Unset]
    /\ kept = {} /\ shown = [r \in Rows |-> Unset]

\* The roster is painted and cleared, under leave as well.
Paint(d) ==
    /\ d \in Rosters
    /\ shifts' = IF d \in shifts THEN shifts \ {d} ELSE shifts \cup {d}
    /\ UNCHANGED <<off, row, kept, shown>>

Declare(d) ==
    /\ d \in Offs
    /\ off' = IF d \in off THEN off \ {d} ELSE off \cup {d}
    /\ UNCHANGED <<shifts, row, kept, shown>>

OnThoseDays(form, statuses) == {r \in Those(statuses) : Span(row[r].form) \cap Span(form) # {}}

\* _overlapping, asked with the hours: those of two part-days do not cross.
Clashes(form) ==
    {r \in OnThoseDays(form, Standing) : ~(Partial(row[r].form) /\ Partial(form))}

\* ordering = ["-start_date"]: any of those that start last may be the first.
FirstOf(found) == {r \in found : \A s \in found : row[s].form.from <= row[r].form.from}

\* _may_overlap_holiday.
MayTread(form, r) == form.type.recovers /\ row[r].form.type.family = "VACATION"

\* request_absence: it looks at the first clash and at no other.
Request(r, form) ==
    /\ ~There(r)
    /\ Clashes(form) = {} \/ \E c \in FirstOf(Clashes(form)) : MayTread(form, c)
    /\ row' = [row EXCEPT ![r] = [form |-> form, status |-> "PENDING"]]
    /\ UNCHANGED <<shifts, off, kept, shown>>

\* The queue, with the warning each row carries.
ReadQueue ==
    /\ Those({"PENDING"}) # {}
    /\ shown' = [r \in Rows |-> IF r \in Those({"PENDING"}) THEN Warning(r) ELSE shown[r]]
    /\ UNCHANGED <<shifts, off, row, kept>>

EatenDays(r, h) == Span(row[r].form) \cap Span(row[h].form)

\* detect_recoveries: once for each pair, with the days it costs now.
Detected(r) ==
    {[holiday |-> h, leave |-> r, first |-> Min(EatenDays(r, h)), last |-> Max(EatenDays(r, h)),
      days |-> Cardinality(Counted(EatenDays(r, h), WorkingUnit)), status |-> "PENDING"] :
        h \in {x \in Those({"APPROVED"}) : row[x].form.type.family = "VACATION"
                 /\ ~Partial(row[x].form) /\ EatenDays(r, x) # {}
                 /\ Counted(EatenDays(r, x), WorkingUnit) # {}}}

\* approve_absence, from the queue: it looks at every leave granted, and the days
\* of any of them are taken whole.
Grant(r) ==
    /\ There(r) /\ row[r].status = "PENDING" /\ shown[r] # Unset
    /\ \A c \in OnThoseDays(row[r].form, {"APPROVED"}) : MayTread(row[r].form, c)
    /\ row' = [row EXCEPT ![r].status = "APPROVED"]
    /\ kept' = IF row[r].form.type.recovers THEN kept \cup Detected(r) ELSE kept
    /\ UNCHANGED <<shifts, off, shown>>

\* reject_absence and cancel_absence.
Close(r) ==
    /\ There(r) /\ row[r].status = "PENDING"
    /\ row' = [row EXCEPT ![r].status = "CLOSED"]
    /\ UNCHANGED <<shifts, off, kept, shown>>

\* confirm_recovery.
Decide(k, answer) ==
    /\ k.status = "PENDING"
    /\ kept' = (kept \ {k}) \cup {[k EXCEPT !.status = answer]}
    /\ UNCHANGED <<shifts, off, row, shown>>

BalanceNext ==
    \/ ReadQueue
    \/ \E d \in Calendar : Paint(d) \/ Declare(d)
    \/ \E r \in Rows : \/ \E form \in Askable : Request(r, form)
                       \/ Grant(r) \/ Close(r)
    \/ \E k \in kept, answer \in {"CONFIRMED", "DISMISSED"} : Decide(k, answer)

BalanceSpec == BalanceInit /\ [][BalanceNext]_balanceVars

-----------------------------------------------------------------------------

BalanceTypeOK ==
    /\ shifts \subseteq Calendar /\ off \subseteq Calendar
    /\ row \in [Rows -> Filed \cup {Unset}]
    /\ shown \in [Rows -> BOOLEAN \cup {Unset}]
    /\ kept \subseteq RecoveredHoliday

Confirmed(period) == {k \in kept : k.status = "CONFIRMED" /\ (k.first .. k.last) \cap period # {}}
StillCostsTheSame(k) == k.days = Cardinality(Counted(k.first .. k.last, WorkingUnit))

\* What the catalogues of the law have: no holiday gives holiday back.
HolidayGivesNothingBack ==
    \A form \in Askable : form.type.recovers => form.type.family # "VACATION"

\* The holiday a year is charged for is the one enjoyed in it: granted, of days
\* that count, and not eaten by a leave that gives it back (art. 38.3), however
\* many leaves tread on it and whenever they are granted and confirmed.  Days
\* that straddle two years, or that have come to cost something else since they
\* were noted, are left out: see EatenDaysComeBackOnce.
HolidayChargedIsHolidayEnjoyed ==
    \A period \in LeaveYears :
        LET granted == UNION {Span(row[r].form) : r \in Holidays({"APPROVED"}, period)}
            eaten   == UNION {k.first .. k.last : k \in Confirmed(period)}
        IN (\A k \in Confirmed(period) : k.first .. k.last \subseteq period /\ StillCostsTheSame(k))
              => Taken(period) = Cardinality(Counted((granted \ eaten) \cap period, WorkingUnit))

\* Requests granted in any order by whoever reads the queue before deciding do
\* not pass the grant of their period unless one of them carried the warning
\* (leave_over_the_limit), as long as the unit does not depend on the roster.
\* A leave over the edge of two periods is only measured against the first.
NobodyOverrunsUnwarned ==
    \A type \in Catalogue, d \in Calendar :
        LET period == PeriodFor(type, d)
            inside == {r \in Those({"APPROVED"}) : row[r].form.type = type /\ Span(row[r].form) \subseteq period}
        IN (/\ type.amount # Unlimited /\ type.period # "EVENT"
            /\ type.unit = "DAYS_CALENDAR" /\ \A r \in inside : ~Partial(row[r].form)
            /\ SumFunction([r \in inside |-> Amount(row[r].form, type, period)]) > 100 * type.amount)
              => \E r \in inside : shown[r]

\* Whoever leaves and is taken on again the next day has, between the settlement
\* of the first contract and what the second earns, what one unbroken contract
\* would have left, or a day more: never less (_accrued rounds up).
BrokenContractsLoseNothing ==
    Contract.to = Open =>
        \A until \in Calendar :
            LET period  == LeaveYear(until)
                second  == Accrued([from |-> until + 1, to |-> Open], period)
                unbroken == Accrued(Contract, period) - Taken(period)
            IN Contract.from # Open /\ until >= Contract.from
                 => Settlement(until) + second \in {unbroken, unbroken + 1}

\* `They are days of that year' (recovery.py:206-208): what a leave ate comes
\* back to one of them.
EatenDaysComeBackOnce ==
    SumFunction([period \in LeaveYears |-> Recovered(period)])
        <= SumFunction([k \in {x \in kept : x.status = "CONFIRMED"} |-> k.days])

\* `The days earned and not enjoyed are paid' (absences/services.py:196-198).
SettlementPaysWhatWasNotEnjoyed ==
    \A until \in Calendar :
        LET enjoyed == {r \in Those({"APPROVED"}) : row[r].form.type.family = "VACATION" /\ row[r].form.to <= until}
            period  == LeaveYear(until)
        IN (kept = {}) => Settlement(until) >=
             Accrued([Contract EXCEPT !.to = until], period)
               - SumFunction([r \in enjoyed |-> DaysWithin(row[r].form, period, WorkingUnit)])

\* `More rest asked for than is owed' (absences/services.py:634-643) is told to
\* whoever decides.
RestBeyondTheDebtIsSaid ==
    SumFunction([r \in GivenBack |-> RestHours(row[r].form)]) > SumFunction(RestMarked)
      => \E r \in GivenBack : shown[r]
=============================================================================
