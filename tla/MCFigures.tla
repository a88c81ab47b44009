----------------------------- MODULE MCFigures -----------------------------
(***************************************************************************)
(* The figures a company works to, and those read from its records: the    *)
(* rules with the days they apply from, the hours of a day, the review of  *)
(* a roster and the balance of somebody's leave.  They share no state that *)
(* moves, so TLC visits each while the others rest: any behaviour of them  *)
(* is one of each, seen apart.                                             *)
(***************************************************************************)
EXTENDS DatedRules, LeaveBalance, Hours, RosterReview, TLC

CONSTANTS ruler, l1, l2, l3, e1, e2

-----------------------------------------------------------------------------
(* The rules, with a cap and a rest of a few values and a floor at the top   *)

NoChange == [breaks |-> Same, cap |-> Same, rest |-> Same]

MCWishes == {[NoChange EXCEPT !.breaks = TRUE, !.rest = 2],
             [NoChange EXCEPT !.breaks = FALSE, !.cap = 2, !.rest = 1]}
MCFiles  == {[NoChange EXCEPT !.breaks = TRUE, !.rest = 2]}

ASSUME RulesAssumption

-----------------------------------------------------------------------------
(* Days of six ticks, one of which may stay open four: it runs over midnight *)

Morning == [from |-> 1, to |-> 2]
MCShifts == {Morning}
MCFirstRoster == [d \in 0 .. 1 |-> IF d = 0 THEN Morning ELSE Nil]

ASSUME ReadingAssumption /\ HoursAssumption /\ RosterAssumption

-----------------------------------------------------------------------------
(* Weeks of three days; the shifts and the law with the hours they have      *)

Clock(from, to) == [start |-> from, end |-> to]
Day   == {Clock(10, 18)}
Night == {Clock(22, 6)}
Split == {Clock(5, 11), Clock(14, 22)}

MCRules == [dailyRest |-> 12, weeklyRest |-> 36, weeklyHours |-> 16, breakAfter |-> 6,
            night |-> Clock(22, 6)]
MCLaw == [changeover |-> 7, accumulation |-> 5, minorWeeklyRest |-> 48, night |-> Clock(22, 6),
        qualifying |-> 3, average |-> 5, averageDays |-> 3, evidence |-> 2, nightWeeks |-> 1,
        minorHours |-> 8, margin |-> 2, minorBreakAfter |-> 4]

Weekly(n) == [hours |-> n, per |-> "week"]

FullTime ==
    [rotating |-> FALSE, voluntary |-> FALSE, night |-> "AUTO", adultFrom |-> 0,
     engaged |-> -10 .. 20, seasonal |-> FALSE, agreed |-> Weekly(16), reductions |-> {},
     leave |-> {}, holidays |-> {}, pauses |-> FALSE]
Rotating == [FullTime EXCEPT !.rotating = TRUE]
PartTime == [FullTime EXCEPT !.agreed = Weekly(10), !.leave = {4}, !.holidays = {2},
                             !.reductions = {[from |-> 4, to |-> 9, share |-> 50]}]
Minor    == [FullTime EXCEPT !.adultFrom = 3, !.agreed = [hours |-> 0, per |-> "none"], !.engaged = 1 .. 4]
Seasonal == [FullTime EXCEPT !.seasonal = TRUE, !.night = "YES", !.engaged = 2 .. 20, !.agreed = Weekly(12)]

MCPatterns == {Day, Night, Split}
MCProfiles == {FullTime, Rotating, PartTime, Minor, Seasonal}
MCDrawn    == {1, 2, 4, 5}

ASSUME ClockAssumption /\ WeeksAssumption /\ ProfilesAssumption /\ ADayOffIsARest

-----------------------------------------------------------------------------
(* Two leave years of four days, from the second day of the natural one      *)

Holiday == [family |-> "VACATION", amount |-> Unlimited, unit |-> "DAYS_CALENDAR", period |-> "EVENT",
            extra |-> 0, recovers |-> FALSE, rest |-> FALSE]
Sick    == [Holiday EXCEPT !.family = "SICK_LEAVE", !.recovers = TRUE]
Family  == [Holiday EXCEPT !.family = "PAID_LEAVE", !.amount = 2, !.period = "YEAR"]
Bridge  == [Holiday EXCEPT !.family = "PAID_LEAVE", !.rest = TRUE]

Whole(type, from, to) == [type |-> type, from |-> from, to |-> to, hours |-> 0]

MCTypes == {Holiday, Sick, Family, Bridge}
MCAskable ==
    {Whole(Holiday, 2, 5), Whole(Holiday, 1, 2), Whole(Sick, 2, 4), Whole(Sick, 4, 5),
     Whole(Family, 0, 1), Whole(Family, 2, 2), Whole(Family, 3, 4), Whole(Bridge, 5, 5),
     [Whole(Bridge, 6, 6) EXCEPT !.hours = 2]}
MCContract == [from |-> 2, to |-> Open]
MCOvertime == 0 :> 3

ASSUME CalendarAssumption

-----------------------------------------------------------------------------

MCInit == RulesInit /\ HoursInit /\ ReviewInit /\ BalanceInit

\* Whom the review looks at is chosen in the first state.
ReviewAtRest == ReviewInit /\ person = FullTime

OnlyRules   == HoursInit /\ ReviewAtRest /\ BalanceInit
OnlyHours   == RulesInit /\ ReviewAtRest /\ BalanceInit
OnlyReview  == RulesInit /\ HoursInit /\ BalanceInit
OnlyBalance == RulesInit /\ HoursInit /\ ReviewAtRest

MCNext ==
    \/ OnlyRules /\ RulesNext /\ UNCHANGED <<hoursVars, reviewVars, balanceVars>>
    \/ OnlyHours /\ HoursNext /\ UNCHANGED <<rulesVars, reviewVars, balanceVars>>
    \/ OnlyReview /\ ReviewNext /\ UNCHANGED <<rulesVars, hoursVars, balanceVars>>
    \/ OnlyBalance /\ BalanceNext /\ UNCHANGED <<rulesVars, hoursVars, reviewVars>>

MCSymmetry == Permutations({l1, l2, l3}) \cup Permutations({e1, e2})
=============================================================================
