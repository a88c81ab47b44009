---------------------------- MODULE PunchRecord ----------------------------
(***************************************************************************)
(* What clocking in and out promises about one person's record: a tap      *)
(* leaves at most one event, written in one go, never changed, whose type  *)
(* follows from the record as it stood.  No requests, retries or locks.    *)
(***************************************************************************)
EXTENDS Naturals

CONSTANTS Taps, Nothing, MaxOpen

VARIABLES
    event,  \* the event each tap has left, if any
    clock

vars == <<event, clock>>

Events == {event[t] : t \in Taps} \ {Nothing}

\* The events that may still belong to the day in course at a moment.
Recent(interval, now) ==
    {e \in Events : e.interval = interval /\ e.at + MaxOpen >= now}

Last(interval, now) ==
    {e \in Recent(interval, now) : \A f \in Recent(interval, now) : f.at <= e.at}

\* An event closes what the last one opened, and opens otherwise.
Follows(type, interval, now) ==
    IF Last(interval, now) = {}
    THEN type = "IN"
    ELSE \E e \in Last(interval, now) : e.type # type

Init ==
    /\ event = [t \in Taps |-> Nothing]
    /\ clock = 0

\* The type is settled at a moment after which nothing is written until the
\* event itself is; the time it counts by is not later than its arrival.
Record(t) ==
    /\ event[t] = Nothing
    /\ \E type \in {"IN", "OUT"}, interval \in {"WORK", "BREAK"}, at \in 0 .. clock :
          /\ event' = [event EXCEPT ![t] = [tap |-> t, interval |-> interval,
                          type |-> type, at |-> at, recv |-> clock]]
          /\ \E settled \in 0 .. clock :
                /\ \A e \in Events : e.recv <= settled
                /\ Follows(type, interval, settled)
                /\ interval = "BREAK" /\ type = "IN" => Follows("OUT", "WORK", settled)
    /\ UNCHANGED clock

TimePasses ==
    /\ clock' = clock + 1
    /\ UNCHANGED event

Next == (\E t \in Taps : Record(t)) \/ TimePasses

Spec == Init /\ [][Next]_vars
=============================================================================
