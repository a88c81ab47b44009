---------------------------- MODULE MCAbsences -----------------------------
(***************************************************************************)
(* Small calendars for TLC: one worker, the manager who decides, and the   *)
(* leave that may meet on four days.                                       *)
(***************************************************************************)
EXTENDS Absences, TLC

CONSTANTS eva, marta, a1, a2, a3

MCReach == [p \in People |-> {eva}]

Plain == [who |-> eva, family |-> "PERMIT", typed |-> TRUE, recovers |-> FALSE,
          company |-> FALSE, reduces |-> FALSE, from |-> 1, to |-> 1,
          hours |-> Nothing, paper |-> FALSE]

Holiday(x, y)  == [Plain EXCEPT !.family = "VACATION", !.typed = FALSE, !.from = x, !.to = y]
Sick(x, y)     == [Plain EXCEPT !.family = "SICK_LEAVE", !.recovers = TRUE, !.from = x, !.to = y]
Permit(x, y)   == [Plain EXCEPT !.from = x, !.to = y, !.paper = TRUE]
Reduced(x, y)  == [Plain EXCEPT !.family = "SUSPENSION", !.company = TRUE, !.reduces = TRUE,
                                !.from = x, !.to = y]

\* Holiday that starts before the sick leaves that tread on it, and a permit
\* with its paper, and a reduction the company records, on the same dates.
MCForms == {Holiday(1, 3), Sick(2, 3), Sick(3, 4), Permit(2, 2), Reduced(2, 3)}
MCFormsOf == [a \in Absences |->
    CASE a = a1 -> {Holiday(1, 3)}
      [] a = a2 -> {Sick(2, 3), Permit(2, 2)}
      [] OTHER  -> {Sick(3, 4), Reduced(2, 3)}]

\* The leave of this calendar is leave of which the theorems speak.
ASSUME MCCalendarAssumption == NothingHidesBehindHoliday /\ RecoveringTakesWholeDays

MCSymmetry == Permutations(Requests)
=============================================================================
