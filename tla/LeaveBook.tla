----------------------------- MODULE LeaveBook -----------------------------
(***************************************************************************)
(* What the leave procedure promises, said without requests, locks, dates  *)
(* or files.  A leave is asked for, then granted, refused or taken back,   *)
(* once.  Granting a leave that treads on holiday already granted notes    *)
(* the days it ate, and each note is settled once, one way or the other.   *)
(***************************************************************************)
CONSTANTS
    Leaves,
    Treads,    \* the pairs <<holiday, leave>> that may meet
    Deciders

VARIABLES
    book,    \* how far each leave has gone
    judge,   \* who settled it
    credit   \* the holiday days each leave ate

vars == <<book, judge, credit>>

Final == {"granted", "refused", "withdrawn"}

Init ==
    /\ book = [a \in Leaves |-> "none"]
    /\ judge = [a \in Leaves |-> {}]
    /\ credit = [t \in Treads |-> "none"]

Ask(a) ==
    /\ book[a] = "none"
    /\ book' = [book EXCEPT ![a] = "asked"]
    /\ UNCHANGED <<judge, credit>>

\* The notes made with a grant are about the leave granted and holiday granted
\* before it.
Grant(a, p) ==
    /\ book[a] \in {"none", "asked"}
    /\ book' = [book EXCEPT ![a] = "granted"]
    /\ judge' = [judge EXCEPT ![a] = {p}]
    /\ \E noted \in SUBSET {t \in Treads : t[2] = a /\ book[t[1]] = "granted"} :
          credit' = [t \in Treads |-> IF t \in noted THEN "noted" ELSE credit[t]]

TurnDown(a, p, how) ==
    /\ book[a] = "asked"
    /\ book' = [book EXCEPT ![a] = how]
    /\ judge' = [judge EXCEPT ![a] = {p}]
    /\ UNCHANGED credit

SettleNote(t, how) ==
    /\ credit[t] = "noted"
    /\ credit' = [credit EXCEPT ![t] = how]
    /\ UNCHANGED <<book, judge>>

Next ==
    \/ \E a \in Leaves : Ask(a)
    \/ \E a \in Leaves, p \in Deciders : Grant(a, p)
    \/ \E a \in Leaves, p \in Deciders, how \in {"refused", "withdrawn"} : TurnDown(a, p, how)
    \/ \E t \in Treads, how \in {"given back", "dismissed"} : SettleNote(t, how)

Spec == Init /\ [][Next]_vars
=============================================================================
