------------------------------ MODULE Reminders ------------------------------
(***************************************************************************)
(* The job that nudges somebody to make a punch they forgot                *)
(* (punches/reminders.py, send_punch_reminders), over the register and the *)
(* roster of one person.  It runs every few minutes from a crontab, so two *)
(* runs may overlap; nothing of it happens inside a request, so each       *)
(* statement commits on its own.                                           *)
(*                                                                         *)
(* A run reads everything it owes first (Look), and then goes through it:  *)
(* the row of PunchReminder (Claim), and the push and the mail (Deliver).  *)
(***************************************************************************)
EXTENDS WorkingDay

CONSTANTS
    Roster,     \* the shift of each day that has one: the ticks of its day
    EntryMargin,
    QuietFrom, QuietUntil,  \* ticks of the day
    Runs,       \* runs of the job
    MaxTime, MaxEvents,
    Nothing

RemindersAssumption ==
    /\ DOMAIN Roster \subseteq Nat
    /\ \A d \in DOMAIN Roster : Roster[d].from \in Nat /\ Roster[d].to \in Nat
    /\ EntryMargin \in Nat /\ MaxTime \in Nat /\ MaxEvents \in Nat
    /\ QuietFrom \in 0 .. DayLength - 1 /\ QuietUntil \in 0 .. DayLength - 1
    /\ Nothing \notin Nat

VARIABLES
    record,   \* Punch: the live events
    clock,
    wants,    \* is_active and wants_punch_reminders
    row,      \* PunchReminder: the days and kinds that have one
    run,      \* what each run owes, and since when; and the one it has claimed
    told      \* ghost: how many times each was delivered

vars == <<record, clock, wants, row, run, told>>

Kinds == {"CLOCK_IN", "CLOCK_OUT"}
Item  == [day : DOMAIN Roster, kind : Kinds]

PlannedStart(d) == d * DayLength + Roster[d].from
PlannedEnd(d)   == d * DayLength + Roster[d].to

\* _asleep: a window that runs over midnight, or not, or none at all.
Asleep(when) ==
    CASE QuietFrom = QuietUntil -> FALSE
      [] QuietFrom < QuietUntil -> QuietFrom <= when /\ when < QuietUntil
      [] OTHER                  -> when >= QuietFrom \/ when < QuietUntil

\* MUTANT: yesterday's are the events of its date.
ReconciledByDate(d) ==
    LET state == DayStatus(PunchesOfTheDate(record, d), clock).state IN
    CASE PunchesOfTheDate(record, d) = {}       -> "MISSING"
      [] state \in {"WORKING", "ON_BREAK"} -> "OPEN"
      [] OTHER                             -> "CLOSED"

\* day_reconciliation, as far as a reminder reads it.
Reconciled(d) ==
    LET state == Screen(record, d, clock).state IN
    CASE PunchesOfTheWorkday(record, d) = {}    -> "MISSING"
      [] state \in {"WORKING", "ON_BREAK"} -> "OPEN"
      [] OTHER                             -> "CLOSED"

AlreadySent(item) == item \in row

Today == DayOf(clock)

MissingEntry(d) ==
    /\ d = Today /\ Reconciled(d) = "MISSING"
    /\ PlannedStart(d) + EntryMargin <= clock /\ clock <= PlannedEnd(d)

OpenDay(d) == Reconciled(d) = "OPEN" /\ clock >= PlannedEnd(d) + Margin

\* reminders_due: today and yesterday, the second because a day opened last
\* night is over by then.
Due ==
    IF ~wants \/ Asleep(clock % DayLength) THEN {}
    ELSE {item \in [day : {Today, Today - 1} \cap DOMAIN Roster, kind : Kinds] :
            /\ IF item.kind = "CLOCK_IN" THEN MissingEntry(item.day) ELSE OpenDay(item.day)
            /\ ~AlreadySent(item)}

Init ==
    /\ record = {} /\ clock = 0 /\ wants = TRUE
    /\ row = {} /\ told = [item \in Item |-> 0]
    /\ run = [r \in Runs |-> Nothing]

Tick ==
    /\ clock < MaxTime
    /\ clock' = clock + 1
    /\ UNCHANGED <<record, wants, row, run, told>>

\* A punch of the working day or of a break, as register_punch records it.
Punch(interval) ==
    LET type == InferredType(record, interval, clock) IN
    /\ Cardinality(record) < MaxEvents
    /\ \A e \in record : e.at # clock
    /\ interval = "BREAK" /\ type = "IN" => IsOpen(record, "WORK", clock)
    /\ record' = record \cup {[at |-> clock, interval |-> interval, type |-> type]}
    /\ UNCHANGED <<clock, wants, row, run, told>>

\* They turn reminders off, or leave.
Switch ==
    /\ wants /\ wants' = FALSE
    /\ UNCHANGED <<record, clock, row, run, told>>

Look(r) ==
    /\ run[r] = Nothing /\ Due # {}
    /\ run' = [run EXCEPT ![r] = [owes |-> Due, at |-> clock, holds |-> Nothing]]
    /\ UNCHANGED <<record, clock, wants, row, told>>

Left(r, item) == [run[r] EXCEPT !.owes = @ \ {item}]

\* MUTANT: the row is created after looking whether it is there.
ClaimByLooking(r, item) ==
    /\ run[r] # Nothing /\ run[r].holds = Nothing /\ item \in run[r].owes
    /\ row' = row \cup {item}
    /\ run' = [run EXCEPT ![r] = [Left(r, item) EXCEPT !.holds = item]]
    /\ UNCHANGED <<record, clock, wants, told>>

\* get_or_create: the row is there already, or it is created by this run.
Claim(r, item) ==
    /\ run[r] # Nothing /\ run[r].holds = Nothing /\ item \in run[r].owes
    /\ row' = row \cup {item}
    /\ run' = [run EXCEPT ![r] = IF item \in row THEN Left(r, item)
                                 ELSE [Left(r, item) EXCEPT !.holds = item]]
    /\ UNCHANGED <<record, clock, wants, told>>

\* Push and mail; either of them, or both, may fail without a word.
Deliver(r) ==
    /\ run[r] # Nothing /\ run[r].holds # Nothing
    /\ told' = [told EXCEPT ![run[r].holds] = @ + 1]
    /\ run' = [run EXCEPT ![r].holds = Nothing]
    /\ UNCHANGED <<record, clock, wants, row>>

\* The run is over, or its process dies, with what it had claimed undelivered.
End(r) ==
    /\ run[r] # Nothing
    /\ run' = [run EXCEPT ![r] = Nothing]
    /\ UNCHANGED <<record, clock, wants, row, told>>

Next ==
    \/ Tick \/ Switch
    \/ \E interval \in Intervals : Punch(interval)
    \/ \E r \in Runs :
         \/ Look(r) \/ Deliver(r) \/ End(r)
         \/ \E item \in Item : Claim(r, item)

Spec == Init /\ [][Next]_vars

-----------------------------------------------------------------------------

TypeOK ==
    /\ record \subseteq Event(MaxTime) /\ clock \in 0 .. MaxTime /\ wants \in BOOLEAN
    /\ row \subseteq Item
    /\ \A r \in Runs : run[r] # Nothing =>
         /\ run[r].owes \subseteq Item /\ run[r].at \in 0 .. MaxTime
         /\ run[r].holds \in Item \cup {Nothing}
    /\ told \in [Item -> Nat]

\* The same nudge never goes out twice, however the runs overlap or die: what
\* PunchReminder is for (punches/models.py:558-565).
RemindedOnce == \A item \in Item : told[item] <= 1

\* The quiet window read the long way: `when` comes before it ends, walking from
\* where it begins.
Quiet(when) ==
    \E n \in 0 .. DayLength - 1 :
        /\ (QuietFrom + n) % DayLength = when % DayLength
        /\ \A k \in 0 .. n : (QuietFrom + k) % DayLength # QuietUntil

\* What the register held of a day when it went up to t.
DayUpTo(d, t) ==
    LET known == {e \in record : e.at <= t}
    IN {e \in known : <<e, d>> \in Assigned(known).day}

TrueOf(nudge, day) ==
    LET open == Paired(day).open IN
    IF nudge.kind = "CLOCK_IN" THEN day = {} ELSE open["WORK"] # None \/ open["BREAK"] # None

\* A nudge is true of the register as it was when the run looked, before or after
\* the punch of that same moment: nobody is told to clock in who had begun that
\* day, nor that a day is open whose last exit was recorded, whether or not it
\* began the date before; and nobody's night is disturbed (art. 88 LOPDGDD).
NudgesAreTrue ==
    [][\A r \in Runs : Deliver(r) =>
         /\ ~Quiet(run[r].at)
         /\ \E t \in {run[r].at - 1, run[r].at} :
              TrueOf(run[r].holds, DayUpTo(run[r].holds.day, t))]_vars
=============================================================================
