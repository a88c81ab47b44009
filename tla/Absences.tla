----------------------------- MODULE Absences ------------------------------
(***************************************************************************)
(* Leave: absences/services.py and recovery.py behind absences/views.py.   *)
(*                                                                         *)
(* A person asks for leave, or the company records it; a second person     *)
(* grants or refuses it; its owner may take it back while it is open.      *)
(* Granting sick leave over holiday notes the days that were not enjoyed,  *)
(* and somebody confirms or dismisses each note.  Each of these is one     *)
(* HTTP request and one transaction (READ COMMITTED): filing holds the     *)
(* person's row, deciding holds the row decided on, and everything else is *)
(* read unlocked while other requests commit.                              *)
(***************************************************************************)
EXTENDS Naturals, FiniteSets

CONSTANTS
    People, Admins, Managers,
    Reach,        \* whose records each manager reads
    Absences,     \* rows of Absence
    Forms,        \* what may be asked for
    FormsOf,      \* the forms each row may come to hold
    Days, Hours,  \* the calendar, and the hours of a day
    CountedDays,  \* the days that count as leave days
    Requests,
    Nothing

ASSUME CompanyAssumption ==
    /\ Admins \cup Managers \subseteq People
    /\ Reach \in [People -> SUBSET People]
    /\ FormsOf \in [Absences -> SUBSET Forms]
    /\ CountedDays \subseteq Days
    /\ Nothing \notin Forms \cup People \cup Requests

\* hours is Nothing for whole days; share is what a reduction leaves unworked.
FormShape == [who : People, family : {"VACATION", "SICK_LEAVE", "PERMIT", "SUSPENSION"},
              typed : BOOLEAN, recovers : BOOLEAN, company : BOOLEAN, reduces : BOOLEAN,
              from : Days, to : Days, hours : (Hours \X Hours) \cup {Nothing},
              paper : BOOLEAN]
ASSUME FormsAssumption == Forms \subseteq FormShape /\ Days \subseteq Nat /\ Hours \subseteq Nat

VARIABLES
    leave,    \* what each row asks for
    status,   \* Absence.status
    judge,    \* Absence.approved_by: who resolved it
    back,     \* RecoveredHoliday: the holiday days a leave ate
    paper,    \* the rows that point at a supporting document
    store,    \* the documents in the file store
    lock,     \* the row locks
    req       \* the requests and how far each transaction has gone

rows == <<leave, status, judge, back>>
vars == <<leave, status, judge, back, paper, store, lock, req>>

-----------------------------------------------------------------------------
(* Types *)

Treads   == {t \in Absences \X Absences : t[1] # t[2]}
Lockable == People \cup Absences \cup Treads
Live     == {"PENDING", "APPROVED"}
Statuses == {"UNFILED", "REJECTED", "CANCELLED"} \cup Live
Ops      == {"file", "approve", "reject", "cancel", "confirm", "dismiss"}
\* A request that is over leaves its place to another one; "clashed" remembers
\* that it was an approval refused for what had been granted since.
Over     == {"idle", "clashed"}
Stages   == Over \cup {"sent", "held", "checked", "cleared", "sweeping"}

NotSent == [pc |-> "idle", op |-> "none", on |-> Nothing, form |-> Nothing,
            who |-> Nothing, grant |-> FALSE]

TypeOK ==
    /\ leave \in [Absences -> Forms \cup {Nothing}]
    /\ status \in [Absences -> Statuses]
    /\ judge \in [Absences -> People \cup {Nothing}]
    /\ back \in [Treads -> {"none", "PENDING", "CONFIRMED", "DISMISSED"}]
    /\ paper \subseteq Absences /\ store \subseteq Absences
    /\ lock \in [Lockable -> Requests \cup {Nothing}]
    /\ req \in [Requests -> [pc : Stages, op : Ops \cup {"none"}, on : Absences \cup Treads \cup {Nothing},
                             form : Forms \cup {Nothing}, who : People \cup {Nothing},
                             grant : BOOLEAN]]

-----------------------------------------------------------------------------
(* What may be asked for, and what clashes with what *)

WellFormed(f) ==
    /\ f.from <= f.to
    /\ f.family = "SICK_LEAVE" => ~f.paper
    /\ f.family = "SUSPENSION" => f.typed
    /\ f.reduces => f.hours = Nothing /\ f.family = "SUSPENSION"
    /\ f.hours # Nothing =>
          f.family # "VACATION" /\ f.hours[1] < f.hours[2] /\ f.from = f.to

DatesMeet(f, g) == f.from <= g.to /\ g.from <= f.to

HoursMeet(f, g) ==
    f.hours = Nothing \/ g.hours = Nothing
    \/ (f.hours[1] < g.hours[2] /\ g.hours[1] < f.hours[2])

\* A reduction of the day runs in a lane of its own.
Clash(f, g) ==
    /\ f.who = g.who
    /\ DatesMeet(f, g)
    /\ f.reduces = g.reduces
    /\ f.reduces \/ HoursMeet(f, g)

Overlapping(f, among) == {b \in among : Clash(f, leave[b])}

\* MUTANT: anything may be trodden on by a leave that gives holiday back.
MayTreadAnything(f, g) == f.recovers

MayOverlapHoliday(f, g) == g.family = "VACATION" /\ f.recovers

OnRecord(a) == status[a] \in Live
Granted  == {b \in Absences : status[b] = "APPROVED"}

-----------------------------------------------------------------------------
(* The company *)

CanManage(p) == p \in Admins \cup Managers
CanSee(p, q) == p = q \/ p \in Admins \/ (p \in Managers /\ q \in Reach[p])

SomeoneElseCouldDecide(p, q) ==
    \E other \in People \ {p} : CanManage(other) /\ CanSee(other, q)

MustLeaveIt(p, q) == p = q /\ SomeoneElseCouldDecide(p, q)

-----------------------------------------------------------------------------
Init ==
    /\ leave = [a \in Absences |-> Nothing]
    /\ status = [a \in Absences |-> "UNFILED"]
    /\ judge = [a \in Absences |-> Nothing]
    /\ back = [t \in Treads |-> "none"]
    /\ paper = {} /\ store = {}
    /\ lock = [x \in Lockable |-> Nothing]
    /\ req = [r \in Requests |-> NotSent]

-----------------------------------------------------------------------------
(* Locks and transactions *)

Take(r, x, to) ==
    /\ lock[x] = Nothing
    /\ lock' = [lock EXCEPT ![x] = r]
    /\ req' = [req EXCEPT ![r].pc = to]

Released(r) == [x \in Lockable |-> IF lock[x] = r THEN Nothing ELSE lock[x]]

Leave(r, how) ==
    /\ req' = [req EXCEPT ![r] = [NotSent EXCEPT !.pc = how]]
    /\ lock' = Released(r)

At(r, op, stage) == req[r].op = op /\ req[r].pc = stage

-----------------------------------------------------------------------------
(* Filing *)

\* About oneself, or by whoever manages and reads that person; what only the
\* company records is not asked for.
StartFiling(r, a, who, f) ==
    /\ req[r].pc \in Over
    /\ status[a] = "UNFILED" /\ f \in FormsOf[a]
    /\ \A q \in Requests : ~(req[q].op = "file" /\ req[q].on = a)
    /\ f.who = who \/ (CanManage(who) /\ CanSee(who, f.who))
    /\ f.company => CanManage(who)
    /\ WellFormed(f)
    /\ req' = [req EXCEPT ![r] = [pc |-> "sent", op |-> "file", on |-> a, form |-> f,
                                  who |-> who, grant |-> FALSE]]
    /\ UNCHANGED <<rows, paper, store, lock>>

\* MUTANT: the queue is read without holding the person.
HoldNobody(r) ==
    /\ At(r, "file", "sent")
    /\ req' = [req EXCEPT ![r].pc = "held"]
    /\ UNCHANGED <<rows, paper, store, lock>>

HoldPerson(r) ==
    /\ At(r, "file", "sent")
    /\ Take(r, req[r].form.who, "held")
    /\ UNCHANGED <<rows, paper, store>>

InTheWay == {b \in Absences : OnRecord(b)}

\* Only the first clash is looked at, and the rows come latest start first.
LatestOf(found) == {b \in found : \A c \in found : leave[c].from <= leave[b].from}

CheckClash(r) ==
    LET found == Overlapping(req[r].form, InTheWay) IN
    /\ At(r, "file", "held")
    /\ \/ /\ found = {}
          /\ req' = [req EXCEPT ![r].pc = "checked"] /\ UNCHANGED lock
       \/ \E b \in LatestOf(found) :
             IF MayOverlapHoliday(req[r].form, leave[b])
             THEN req' = [req EXCEPT ![r].pc = "checked"] /\ UNCHANGED lock
             ELSE Leave(r, "idle")
    /\ UNCHANGED <<rows, paper, store>>

\* The document is stored with the insert, before the transaction ends.
StoreDocument(r) ==
    /\ At(r, "file", "checked")
    /\ req[r].form.paper /\ req[r].on \notin store
    /\ store' = store \cup {req[r].on}
    /\ UNCHANGED <<rows, paper, lock, req>>

DocumentStored(r) == req[r].form.paper => req[r].on \in store

-----------------------------------------------------------------------------
(* Granting *)

WholeDay(f) == [f EXCEPT !.hours = Nothing, !.reduces = FALSE]

\* What has been granted since for those dates: the row is read again as if it
\* took whole days, whatever its hours or its share.
GrantedSince(a, f) == Overlapping(WholeDay(f), Granted \ {a})

NobodyElseGranted(a, f) == \A b \in GrantedSince(a, f) : MayOverlapHoliday(f, leave[b])

\* What the company records it grants in the same breath, unless that refuses.
RecordedByCompany(r) ==
    LET f == req[r].form IN
    /\ At(r, "file", "checked")
    /\ f.company /\ DocumentStored(r)
    /\ req' = [req EXCEPT ![r].pc = "cleared",
                          ![r].grant = /\ ~MustLeaveIt(req[r].who, f.who)
                                       /\ NobodyElseGranted(req[r].on, f)]
    /\ UNCHANGED <<rows, paper, store, lock>>

LastShared(f, g) == IF f.to < g.to THEN f.to ELSE g.to
FirstShared(f, g) == IF f.from > g.from THEN f.from ELSE g.from
SharedDays(f, g) == {d \in Days : FirstShared(f, g) <= d /\ d <= LastShared(f, g)}

\* detect_recoveries: the granted holiday this leave treads on, where the days
\* they share would have been leave days.
Eaten(a, f) ==
    {t \in Treads :
        /\ t[2] = a /\ f.recovers
        /\ t[1] \in Granted
        /\ leave[t[1]].who = f.who /\ leave[t[1]].family = "VACATION"
        /\ leave[t[1]].hours = Nothing
        /\ SharedDays(f, leave[t[1]]) \cap CountedDays # {}}

\* MUTANT: the note is born with the status of the leave it is about.
NoteAsGranted(a, f) ==
    back' = [t \in Treads |-> IF t \in Eaten(a, f) /\ back[t] = "none" THEN status'[a] ELSE back[t]]

\* get_or_create: a note that exists is left as it is.
Note(a, f) ==
    back' = [t \in Treads |-> IF t \in Eaten(a, f) /\ back[t] = "none" THEN "PENDING" ELSE back[t]]

File(r) ==
    LET a == req[r].on  f == req[r].form IN
    /\ req[r].op = "file"
    /\ req[r].pc = IF f.company THEN "cleared" ELSE "checked"
    /\ DocumentStored(r)
    /\ leave' = [leave EXCEPT ![a] = f]
    /\ paper' = IF f.paper THEN paper \cup {a} ELSE paper
    /\ IF req[r].grant
       THEN /\ status' = [status EXCEPT ![a] = "APPROVED"]
            /\ judge' = [judge EXCEPT ![a] = req[r].who]
            /\ Note(a, f)
       ELSE /\ status' = [status EXCEPT ![a] = "PENDING"]
            /\ UNCHANGED <<judge, back>>
    /\ Leave(r, "idle")
    /\ UNCHANGED store

-----------------------------------------------------------------------------
(* Deciding: the row is found through the caller's scope, then claimed.       *)

Start(r, op, a, who) ==
    /\ req[r].pc \in Over
    /\ op \in {"approve", "reject", "cancel"}
    /\ status[a] # "UNFILED"
    /\ CanSee(who, leave[a].who)
    /\ op # "cancel" => CanManage(who)
    /\ req' = [req EXCEPT ![r] = [NotSent EXCEPT !.pc = "sent", !.op = op, !.on = a,
                                                 !.who = who]]
    /\ UNCHANGED <<rows, paper, store, lock>>

StartSettling(r, op, t, who) ==
    /\ req[r].pc \in Over
    /\ op \in {"confirm", "dismiss"}
    /\ back[t] # "none"
    /\ CanManage(who) /\ CanSee(who, leave[t[1]].who)
    /\ req' = [req EXCEPT ![r] = [NotSent EXCEPT !.pc = "sent", !.op = op, !.on = t,
                                                 !.who = who]]
    /\ UNCHANGED <<rows, paper, store, lock>>

Settling(r) == req[r].op \in {"confirm", "dismiss"}

StillOpen(r) ==
    IF Settling(r) THEN back[req[r].on] = "PENDING" ELSE status[req[r].on] = "PENDING"

\* MUTANT: the row is not waited for.
ClaimUnlocked(r) ==
    /\ req[r].pc = "sent" /\ req[r].op # "file"
    /\ StillOpen(r)
    /\ req' = [req EXCEPT ![r].pc = "held"]
    /\ UNCHANGED <<rows, paper, store, lock>>

\* SELECT ... FOR UPDATE waits for the row and then reads it afresh.
Claim(r) ==
    /\ req[r].pc = "sent" /\ req[r].op # "file"
    /\ lock[req[r].on] = Nothing
    /\ IF StillOpen(r) THEN Take(r, req[r].on, "held") ELSE Leave(r, "idle")
    /\ UNCHANGED <<rows, paper, store>>

SubjectOf(r) == IF Settling(r) THEN leave[req[r].on[1]].who ELSE leave[req[r].on].who

\* Four eyes, then the other leave of that person, read without a lock.
CheckGrant(r) ==
    LET a == req[r].on IN
    /\ At(r, "approve", "held")
    /\ CASE MustLeaveIt(req[r].who, SubjectOf(r)) -> Leave(r, "idle")
         [] ~MustLeaveIt(req[r].who, SubjectOf(r)) /\ ~NobodyElseGranted(a, leave[a]) ->
                Leave(r, "clashed")
         [] OTHER -> req' = [req EXCEPT ![r].pc = "cleared"] /\ UNCHANGED lock
    /\ UNCHANGED <<rows, paper, store>>

Approve(r) ==
    LET a == req[r].on IN
    /\ At(r, "approve", "cleared")
    /\ status' = [status EXCEPT ![a] = "APPROVED"]
    /\ judge' = [judge EXCEPT ![a] = req[r].who]
    /\ Note(a, leave[a])
    /\ Leave(r, "idle")
    /\ UNCHANGED <<leave, paper, store>>

Reject(r) ==
    LET a == req[r].on IN
    /\ At(r, "reject", "held")
    /\ IF MustLeaveIt(req[r].who, SubjectOf(r))
       THEN Leave(r, "idle") /\ UNCHANGED <<status, judge>>
       ELSE /\ status' = [status EXCEPT ![a] = "REJECTED"]
            /\ judge' = [judge EXCEPT ![a] = req[r].who]
            /\ Leave(r, "idle")
    /\ UNCHANGED <<leave, back, paper, store>>

\* MUTANT: the document is removed while the transaction is still open.
CancelDroppingFirst(r) ==
    /\ At(r, "cancel", "held")
    /\ req[r].on \in store
    /\ store' = store \ {req[r].on}
    /\ UNCHANGED <<rows, paper, lock, req>>

\* The row stays and lets go of its document, which goes once this commits.
Cancel(r) ==
    LET a == req[r].on IN
    /\ At(r, "cancel", "held")
    /\ IF leave[a].who = req[r].who \/ CanManage(req[r].who)
       THEN /\ status' = [status EXCEPT ![a] = "CANCELLED"]
            /\ judge' = [judge EXCEPT ![a] = req[r].who]
            /\ paper' = paper \ {a}
            /\ IF a \in paper
               THEN /\ req' = [req EXCEPT ![r].pc = "sweeping"]
                    /\ lock' = Released(r)
               ELSE Leave(r, "idle")
       ELSE Leave(r, "idle") /\ UNCHANGED <<status, judge, paper>>
    /\ UNCHANGED <<leave, back, store>>

\* on_commit: a store that is down is logged and the document stays behind.
Sweep(r) ==
    /\ req[r].pc = "sweeping"
    /\ store' \in {store, store \ {req[r].on}}
    /\ Leave(r, "idle")
    /\ UNCHANGED <<rows, paper>>

\* confirm_recovery: the claim and four eyes, then the answer.
SettleRecovery(r) ==
    /\ Settling(r) /\ req[r].pc = "held"
    /\ IF MustLeaveIt(req[r].who, SubjectOf(r))
       THEN Leave(r, "idle") /\ UNCHANGED back
       ELSE /\ back' = [back EXCEPT ![req[r].on] =
                           IF req[r].op = "confirm" THEN "CONFIRMED" ELSE "DISMISSED"]
            /\ Leave(r, "idle")
    /\ UNCHANGED <<leave, status, judge, paper, store>>

\* A worker dies, or anything later in the request fails: the rows roll back,
\* and what was put in the store is still there.
Crash(r) ==
    /\ req[r].pc \in {"sent", "held", "checked", "cleared", "sweeping"}
    /\ Leave(r, "idle")
    /\ UNCHANGED <<rows, paper, store>>

Step(r) ==
    \/ HoldPerson(r) \/ CheckClash(r) \/ StoreDocument(r) \/ RecordedByCompany(r) \/ File(r)
    \/ Claim(r) \/ CheckGrant(r) \/ Approve(r) \/ Reject(r) \/ Cancel(r) \/ Sweep(r)
    \/ SettleRecovery(r) \/ Crash(r)

Next ==
    \/ \E r \in Requests, a \in Absences, who \in People, f \in Forms : StartFiling(r, a, who, f)
    \/ \E r \in Requests, op \in Ops, a \in Absences, who \in People : Start(r, op, a, who)
    \/ \E r \in Requests, op \in Ops, t \in Treads, who \in People : StartSettling(r, op, t, who)
    \/ \E r \in Requests : Step(r)

Spec == Init /\ [][Next]_vars

-----------------------------------------------------------------------------
(* What must hold *)

\* Nobody is away twice: two leaves of one person that are granted or waiting
\* never claim the same time, unless one is holiday and the other a leave that
\* gives holiday back (the two requests at once that request_absence's comment
\* tells of, and _may_overlap_holiday).
LiveLeavesDoNotClash ==
    \A a, b \in InTheWay :
        a # b /\ Clash(leave[a], leave[b]) =>
            \/ MayOverlapHoliday(leave[a], leave[b])
            \/ MayOverlapHoliday(leave[b], leave[a])

\* A day of holiday is given back once, however many leaves trod on it
\* (recovered_days adds up every confirmed row).
HolidayDaysReturnOnce ==
    \A h \in Absences : \A s, z \in Absences \ {h} :
        /\ back[<<h, s>>] = "CONFIRMED" /\ back[<<h, z>>] = "CONFIRMED"
        /\ s # z
        => SharedDays(leave[h], leave[s]) \cap SharedDays(leave[h], leave[z]) = {}

\* The calendars for which the two above hold.  Only the first leave in the way
\* is judged, so whatever starts no later than a holiday that a recovering leave
\* may tread on is granted along with it, unless it could stand beside both; and
\* a note gives back whole days, so leave of some hours of a day, or of a share
\* of it, would give one day back twice (the kinds that recover holiday in
\* legal/es.py are sick leave and the suspensions for birth, care and risk, none
\* of which may reduce the day).
MayStand(f, g) == Clash(f, g) => MayOverlapHoliday(f, g) \/ MayOverlapHoliday(g, f)

NothingHidesBehindHoliday ==
    \A f, g, h \in Forms :
        /\ MayOverlapHoliday(f, g) /\ Clash(f, g)
        /\ h.from <= g.from /\ MayStand(g, h)
        => MayStand(f, h)

RecoveringTakesWholeDays ==
    \A f \in Forms : f.recovers => f.hours = Nothing /\ ~f.reduces /\ f.family # "VACATION"

\* A row never points at a document that is no longer there, whatever fails
\* between dropping it and committing (descartar_justificante and on_commit).
NoRowWithoutItsDocument == paper \subseteq store

-----------------------------------------------------------------------------
(* What the procedure implements *)

BookOf(a) ==
    CASE status[a] = "UNFILED"   -> "none"
      [] status[a] = "PENDING"   -> "asked"
      [] status[a] = "APPROVED"  -> "granted"
      [] status[a] = "REJECTED"  -> "refused"
      [] status[a] = "CANCELLED" -> "withdrawn"

CreditOf(t) ==
    CASE back[t] = "none"      -> "none"
      [] back[t] = "PENDING"   -> "noted"
      [] back[t] = "CONFIRMED" -> "given back"
      [] back[t] = "DISMISSED" -> "dismissed"

Promise == INSTANCE LeaveBook WITH
    Leaves   <- Absences,
    Treads   <- Treads,
    Deciders <- People,
    book     <- [a \in Absences |-> BookOf(a)],
    judge    <- [a \in Absences |-> IF judge[a] = Nothing THEN {} ELSE {judge[a]}],
    credit   <- [t \in Treads |-> CreditOf(t)]

\* Requests that overlap, wait, read stale rows and die settle each leave once
\* and each note once, and note only holiday that had been granted.
ImplementsLeaveBook == Promise!Spec
=============================================================================
