--------------------------- MODULE RosterTelling ---------------------------
(***************************************************************************)
(* What the shift notices promise, said without requests, queues or locks. *)
(* The roster changes; sooner or later the person is told what a day was,  *)
(* when they last knew, and what it is now.  Only a day that is over, or   *)
(* of somebody who has left, changes with nobody to tell.                  *)
(***************************************************************************)
EXTENDS Sequences

CONSTANTS
    Cells,      \* a person and a day
    Contents    \* what a day of the roster may hold

VARIABLES
    roster,
    told,       \* what each person was last told of each day
    excused,    \* the days nobody needs to be told of
    log         \* the notices

vars == <<roster, told, excused, log>>

Init ==
    /\ roster \in [Cells -> Contents]
    /\ told = roster
    /\ excused \in SUBSET Cells
    /\ log = <<>>

Edit ==
    /\ roster' \in [Cells -> Contents]
    /\ \E quietly \in SUBSET excused :
          told' = [c \in Cells |-> IF c \in quietly THEN roster'[c] ELSE told[c]]
    /\ UNCHANGED <<excused, log>>

\* One notice to one person: what they were last told of each day, and what
\* the roster says now, which is something else.
Tell(p, says) ==
    /\ \A c \in DOMAIN says : c[1] = p
    /\ \A c \in DOMAIN says \ excused :
          told[c] # roster[c] /\ says[c] = <<told[c], roster[c]>>
    /\ told' = [c \in Cells |-> IF c \in DOMAIN says THEN says[c][2] ELSE told[c]]
    /\ log' = Append(log, [who |-> p, says |-> says])
    /\ UNCHANGED <<roster, excused>>

\* A day goes by, or somebody leaves.
Excuse ==
    /\ excused \subseteq excused' /\ excused' \subseteq Cells
    /\ UNCHANGED <<roster, told, log>>

Next ==
    \/ Edit
    \/ \E S \in SUBSET Cells : \E c \in S : \E says \in [S -> Contents \X Contents] :
          Tell(c[1], says)
    \/ Excuse

Spec == Init /\ [][Next]_vars
=============================================================================
