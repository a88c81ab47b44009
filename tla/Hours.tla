-------------------------------- MODULE Hours --------------------------------
(***************************************************************************)
(* What is made of one person's register while it grows and is corrected:  *)
(* the screen, the document, the overtime queue and the rulings on it         *)
(* (punches/overtime.py, overtime_views.py).  WorkingDay has the readers.  *)
(*                                                                         *)
(* A ruling is a request that computes the figure of the day, checks who   *)
(* decides, and then writes the row; taps, applied corrections and roster  *)
(* changes run between those two moments.                                  *)
(***************************************************************************)
EXTENDS WorkingDay

CONSTANTS
    Shifts,       \* what a shift may be: the ticks of its day it spans
    FirstRoster,  \* the roster at the beginning
    Rulers,       \* requests that rule on overtime
    Amendments,   \* the corrections that may be applied: "ADD", "MODIFY", "VOID"
    Nil,
    MaxTime, MaxEvents,
    MaxChanges    \* corrections applied and shifts redrawn

HoursAssumption ==
    /\ \A s \in Shifts : s.from \in Nat /\ s.to \in Nat /\ s.from < s.to
    /\ Nil \notin Shifts
    /\ Amendments \subseteq {"ADD", "MODIFY", "VOID"}
    /\ MaxTime \in Nat /\ MaxEvents \in Nat /\ MaxChanges \in Nat

RosterDays == 0 .. DayOf(MaxTime)

RosterAssumption == FirstRoster \in [RosterDays -> Shifts \cup {Nil}]

VARIABLES
    register,  \* Punch: the live events
    now,
    shift,     \* Shift: the row of each day that has one
    ruling,    \* OvertimeDecision: the minutes ruled on, of the days that have one
    request,   \* the day and the figure a ruling request has read
    changes

recordVars  == <<register, now, shift, changes>>
rulingVars == <<ruling, request>>
hoursVars  == <<recordVars, rulingVars>>

HoursTypeOK ==
    /\ register \subseteq Event(MaxTime)
    /\ now \in 0 .. MaxTime
    /\ shift \in [RosterDays -> Shifts \cup {Nil}]
    /\ ruling \in [RosterDays -> 1 .. MaxTime \cup {Nil}]
    /\ request \in [Rulers -> [day : RosterDays, minutes : 0 .. MaxTime] \cup {Nil}]
    /\ changes \in 0 .. MaxChanges

\* A request that has ended.
Answered == [day |-> 0, minutes |-> 0]

HoursInit ==
    /\ register = {}
    /\ now = 0
    /\ shift = FirstRoster
    /\ ruling = [d \in RosterDays |-> Nil]
    /\ request = [r \in Rulers |-> Nil]
    /\ changes = 0

-----------------------------------------------------------------------------
(* Readings of the moment *)

Status(d)  == Screen(register, d, now)
Rostered   == {d \in RosterDays : shift[d] # Nil}
Expected(d) == shift[d].to - shift[d].from

\* day_reconciliation: without a shift all that was worked is over the plan.
OvertimeOf(d, status) ==
    IF d \in Rostered THEN Overtime(status, Expected(d)) ELSE status.worked

Excess(d) == OvertimeOf(d, DayStatus(QueueEvents(register, Rostered, d), now))

\* MUTANT: a day ruled on once does not come back.
QueuedUnlessRuled ==
    {row \in {<<d, Excess(d)>> : d \in Rostered} :
        row[2] > 0 /\ ruling[row[1]] = Nil}

\* pending_overtime: a day comes back when its figure is not the one ruled on.
Queue ==
    {row \in {<<d, Excess(d)>> : d \in Rostered} :
        row[2] > 0 /\ ruling[row[1]] # row[2]}

-----------------------------------------------------------------------------
(* The register *)

Moments == {e.at : e \in register}

Tick ==
    /\ now < MaxTime
    /\ now' = now + 1
    /\ UNCHANGED <<register, shift, changes, rulingVars>>

Record(interval) ==
    LET type == InferredType(register, interval, now) IN
    /\ interval = "BREAK" /\ type = "IN" => IsOpen(register, "WORK", now)
    /\ register' = register \cup {[at |-> now, interval |-> interval, type |-> type]}

\* register_punch, serialised by the lock on the person.
Tap(ask) ==
    /\ now \notin Moments
    /\ Cardinality(register) < MaxEvents
    /\ Record(IF ask # "tap" THEN ask
              ELSE IF IsOpen(register, "BREAK", now) THEN "BREAK" ELSE "WORK")
    /\ UNCHANGED <<now, shift, changes, rulingVars>>

Another == changes < MaxChanges /\ changes' = changes + 1

\* A correction applied: an event added, moved, or annulled.
Amend ==
    /\ Another
    /\ \/ /\ "ADD" \in Amendments /\ Cardinality(register) < MaxEvents
          /\ \E t \in (0 .. now) \ Moments, type \in Types :
                register' = register \cup {[at |-> t, interval |-> "WORK", type |-> type]}
       \/ /\ "MODIFY" \in Amendments
          /\ \E e \in register, t \in (0 .. now) \ Moments :
                register' = (register \ {e}) \cup {[e EXCEPT !.at = t]}
       \/ /\ "VOID" \in Amendments
          /\ \E e \in register : register' = register \ {e}
    /\ UNCHANGED <<now, shift, rulingVars>>

Redraw(d, s) ==
    /\ Another
    /\ shift[d] # s
    /\ shift' = [shift EXCEPT ![d] = s]
    /\ UNCHANGED <<register, now, rulingVars>>

-----------------------------------------------------------------------------
(* Ruling on overtime: decide_overtime *)

Figure(d) == OvertimeOf(d, Status(d))

ReadFigure(r, d) ==
    /\ request[r] = Nil
    /\ Figure(d) > 0
    /\ request' = [request EXCEPT ![r] = [day |-> d, minutes |-> Figure(d)]]
    /\ UNCHANGED <<recordVars, ruling>>

Reading(r) == request[r] \notin {Nil, Answered}

\* update_or_create: one row per day, the last ruling wins.
Rule(r) ==
    /\ Reading(r)
    /\ ruling' = [ruling EXCEPT ![request[r].day] = request[r].minutes]
    /\ request' = [request EXCEPT ![r] = Answered]
    /\ UNCHANGED recordVars

\* Refused by four eyes, or the connection drops.
GiveUp(r) ==
    /\ Reading(r)
    /\ request' = [request EXCEPT ![r] = Answered]
    /\ UNCHANGED <<recordVars, ruling>>

-----------------------------------------------------------------------------
HoursNext ==
    \/ Tick
    \/ \E ask \in Intervals \cup {"tap"} : Tap(ask)
    \/ Amend
    \/ \E d \in RosterDays, s \in Shifts \cup {Nil} : Redraw(d, s)
    \/ \E r \in Rulers :
          \/ \E d \in RosterDays : ReadFigure(r, d)
          \/ Rule(r)
          \/ GiveUp(r)

HoursSpec == HoursInit /\ [][HoursNext]_hoursVars

-----------------------------------------------------------------------------
(* Safety *)

\* Two entries with no exit between them, the second while the first could
\* still be closed.  Taps never leave it ("two openings in a row should not
\* happen"); a correction can.
TwoEntriesInARow ==
    \E e, f \in {x \in register : x.interval = "WORK" /\ x.type = "IN"} :
        /\ e.at < f.at /\ f.at - e.at <= MaxOpen
        /\ ~\E x \in register : x.interval = "WORK" /\ x.type = "OUT"
                                /\ e.at < x.at /\ x.at < f.at

\* Every event is of one working day, and of the same one for everybody who
\* reads the register through a window: the screen, which looks MaxOpen around
\* the day, the document, whatever period it is asked for, and the overtime
\* queue, which reads the days that have a shift and one more on each side
\* ("de cada fichaje, el dia de la jornada a la que pertenece").
EventBelongsToOneDay ==
    TwoEntriesInARow \/
    \A d \in RosterDays :
        LET own == OfDay(register, d) IN
        /\ PunchesOfTheWorkday(register, d) = own
        /\ d \in Rostered => QueueEvents(register, Rostered, d) = own
        /\ \A first \in 0 .. d : ReportEvents(register, first, d, d) = own

\* The hours of a day that is over are the same on the screen and in the
\* document ("the figure on screen and the figure in the document are the same
\* day"), whatever period the document covers.
ReportAgreesWithScreen ==
    TwoEntriesInARow \/
    \A d \in RosterDays :
        LET status == Status(d) IN
        status.state = "OFF" =>
            \A last \in {x \in RosterDays : d <= x} : Reported(register, d, last, d) = status.worked

\* No excess over the roster goes unseen: it waits in the queue with the very
\* figure a ruling would record, or it has been ruled on for that figure.
NoExcessIsSilent ==
    TwoEntriesInARow \/
    Queue = {row \in {<<d, Figure(d)>> : d \in Rostered} :
                row[2] > 0 /\ ruling[row[1]] # row[2]}

\* Whoever is working sees the day they are working, also past midnight, and
\* what the screen calls working without being so is a forgotten exit the
\* person is told of.
ScreenFollowsTheWork ==
    TwoEntriesInARow \/
    /\ IsOpen(register, "WORK", now) =>
          Status(CurrentWorkday(register, now)).state \in {"WORKING", "ON_BREAK"}
    /\ \A d \in RosterDays :
          Status(d).state = "WORKING" /\ ~IsOpen(register, "WORK", now)
          /\ DayOf(now) - d < LookBack =>
              UnclosedClockIn(register, now) # None
=============================================================================
