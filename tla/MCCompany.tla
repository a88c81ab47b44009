----------------------------- MODULE MCCompany -----------------------------
(***************************************************************************)
(* A company's people: where everybody belongs, with its history, and the  *)
(* papers of each with the review that reads them.  The two share no state *)
(* that moves, so TLC visits each while the other rests: any behaviour of  *)
(* the two is one of each, seen apart.                                     *)
(***************************************************************************)
EXTENDS Placements, Situations, TLC

CONSTANTS ana, ben, c1, c2, q1, p1, p2, h1, h2, north, south

-----------------------------------------------------------------------------
(* Two managers, two departments and two workplaces over four days           *)

Between(first, last) == [first |-> first, last |-> last]

MCHolidays == {<<north, 0>>, <<south, 1>>, <<north, 2>>}
MCReports  == {Between(0, 0), Between(1, 2), Between(0, 3)}

ASSUME PlacementsAssumption

-----------------------------------------------------------------------------
(* Weeks of two days, months of two weeks, years of two months               *)

Full == [regime |-> "FULL_TIME", hours |-> Blank, period |-> "WEEK", start |-> 0, end |-> Open,
         seasonal |-> TRUE, representative |-> FALSE, workplace |-> Blank]
Part == [Full EXCEPT !.regime = "PART_TIME", !.hours = 2]
MCContracts == {Full, Part, [Part EXCEPT !.period = "MONTH"],
    [Part EXCEPT !.hours = 3, !.period = "YEAR", !.start = Open, !.workplace = 1],
    [Full EXCEPT !.regime = "TRAINING_ALT", !.hours = 3, !.representative = TRUE, !.end = 5],
    [Full EXCEPT !.regime = "TRAINING", !.hours = 3, !.workplace = 1]}

Retires == [who |-> ana, right |-> "PARTIAL_RETIREMENT", share |-> 600, from |-> 0, to |-> 3]
MCCuts == {Retires, [Retires EXCEPT !.share = 250, !.from = 4, !.to = 6],
         [Retires EXCEPT !.right = "CHILDCARE", !.who = ben]}

NoWish == [asked |-> Untouched, status |-> Untouched, answered |-> Untouched, reason |-> Untouched]
MCPetitionWishes == {[NoWish EXCEPT !.asked = 2], [NoWish EXCEPT !.reason = FALSE],
    [NoWish EXCEPT !.reason = TRUE], [NoWish EXCEPT !.status = "WITHDRAWN"],
    [NoWish EXCEPT !.status = "REFUSED", !.answered = 1],
    [NoWish EXCEPT !.status = "ACCEPTED", !.answered = 3],
    [NoWish EXCEPT !.status = "PENDING", !.answered = Blank]}

Agreement == [who |-> ana, kind |-> "REMOTE", written |-> 2, from |-> 1, to |-> Open]
Season    == [Agreement EXCEPT !.kind = "SEASON", !.written = Blank, !.to = 2]
MCPaperForms == {Agreement, [Agreement EXCEPT !.written = 0, !.to = 3],
               [Agreement EXCEPT !.from = 5], Season,
               [Agreement EXCEPT !.kind = "SEASON", !.from = 3]}

Worked(kind, hours) == [kind |-> kind, hours |-> hours]

MCWindows == {Between(0, 3), Between(4, 7), Between(2, 5), Between(8, 11)}
MCSpans   == {Worked("WORK", 3), Worked("REMOTE", 4), Worked("STANDBY", 6)}
MCScale   == [upto |-> 1, few |-> 1, many |-> 2]

ASSUME SituationsAssumption

-----------------------------------------------------------------------------
MCInit == Init /\ SituationsInit

MCNext ==
    \/ SituationsInit /\ Next /\ UNCHANGED situationsVars
    \/ Init /\ SituationsNext /\ UNCHANGED vars

MCSymmetry == Permutations({c1, c2}) \cup Permutations({p1, p2}) \cup Permutations({h1, h2})
=============================================================================
