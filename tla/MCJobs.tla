------------------------------- MODULE MCJobs -------------------------------
(***************************************************************************)
(* The two families of scheduled jobs: the purges, over years, and the     *)
(* reminders, over three days.  They share no state that moves - the purge *)
(* reads events of years ago, the reminders those of today - so TLC visits *)
(* each while the other rests: any behaviour of the two is one of each,    *)
(* seen apart.                                                             *)
(***************************************************************************)
EXTENDS Retention, TLC, Sequences

CONSTANTS new, old, older, r1, r2

VARIABLES record, clock, wants, row, run, told

-----------------------------------------------------------------------------
(* Years of retention.  Of the events on paper, one has the first version of *)
(* the seal and one the third, written on the clock of another workplace     *)

MCOnPaper == old :> [day |-> 0, version |-> 1, zone |-> "Madrid"]
               @@ older :> [day |-> 0, version |-> 3, zone |-> "Canary"]

ASSUME RetentionAssumption

-----------------------------------------------------------------------------
(* A shift of the first day, and one of the second that runs over midnight   *)

Roster == 0 :> [from |-> 1, to |-> 2] @@ 1 :> [from |-> 3, to |-> 5]

Reminders == INSTANCE Reminders WITH
    DayLength <- 4, MaxOpen <- 3, Margin <- 0, BreakCounts <- FALSE, LookBack <- 2,
    EntryMargin <- 0, QuietFrom <- 3, QuietUntil <- 1, Runs <- {r1, r2},
    MaxTime <- 9, MaxEvents <- 3

ASSUME Reminders!ReadingAssumption /\ Reminders!RemindersAssumption

-----------------------------------------------------------------------------
reminders == <<record, clock, wants, row, run, told>>

MCInit == Init /\ Reminders!Init

MCNext ==
    \/ Reminders!Init /\ Next /\ UNCHANGED reminders
    \/ Init /\ Reminders!Next /\ UNCHANGED vars

\* What the reminders promise, told in their own module.
NudgesAreTrue == Reminders!NudgesAreTrue
=============================================================================
