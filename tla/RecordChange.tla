---------------------------- MODULE RecordChange ----------------------------
(***************************************************************************)
(* What art. 4.b promises about changes to the working-time record, said   *)
(* without requests, locks, staff or rows.  A change asked for by the      *)
(* person is settled by the company.  A change proposed by the company is  *)
(* applied with the person's agreement, or imposed once they have objected *)
(* or had their time to answer, or taken back.  Nothing settled moves.     *)
(***************************************************************************)
CONSTANT Changes

VARIABLES
    phase,    \* how far each change has gone
    voice,    \* what the person has said about it
    overdue   \* the changes whose time to answer is over

vars == <<phase, voice, overdue>>

TypeOK ==
    /\ phase \in [Changes -> {"none", "asked", "proposed", "applied", "imposed", "closed"}]
    /\ voice \in [Changes -> {"silent", "agreed", "objected"}]
    /\ overdue \subseteq Changes

Init ==
    /\ phase = [c \in Changes |-> "none"]
    /\ voice = [c \in Changes |-> "silent"]
    /\ overdue = {}

\* With a window of zero days the time to answer is over at once.
Raise(c, to) ==
    /\ phase[c] = "none"
    /\ phase' = [phase EXCEPT ![c] = to]
    /\ overdue' \in {overdue, overdue \cup {c}}
    /\ UNCHANGED voice

Decide(c, to) ==
    /\ phase[c] = "asked"
    /\ phase' = [phase EXCEPT ![c] = to]
    /\ UNCHANGED <<voice, overdue>>

Agree(c) ==
    /\ phase[c] = "proposed"
    /\ phase' = [phase EXCEPT ![c] = "applied"]
    /\ voice' = [voice EXCEPT ![c] = "agreed"]
    /\ UNCHANGED overdue

Object(c) ==
    /\ phase[c] = "proposed"
    /\ voice' = [voice EXCEPT ![c] = "objected"]
    /\ UNCHANGED <<phase, overdue>>

Impose(c) ==
    /\ phase[c] = "proposed"
    /\ voice[c] = "objected" \/ c \in overdue
    /\ phase' = [phase EXCEPT ![c] = "imposed"]
    /\ UNCHANGED <<voice, overdue>>

TakeBack(c) ==
    /\ phase[c] = "proposed"
    /\ phase' = [phase EXCEPT ![c] = "closed"]
    /\ UNCHANGED <<voice, overdue>>

TimePasses ==
    /\ overdue' \in {late \in SUBSET Changes : overdue \subseteq late}
    /\ UNCHANGED <<phase, voice>>

Next ==
    \/ \E c \in Changes, to \in {"asked", "proposed"} : Raise(c, to)
    \/ \E c \in Changes, to \in {"applied", "closed"} : Decide(c, to)
    \/ \E c \in Changes : Agree(c) \/ Object(c) \/ Impose(c) \/ TakeBack(c)
    \/ TimePasses

Spec == Init /\ [][Next]_vars
=============================================================================
