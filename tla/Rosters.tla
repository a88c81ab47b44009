------------------------------ MODULE Rosters ------------------------------
(***************************************************************************)
(* The roster and its notices: shifts/views.py, shifts/services.py,        *)
(* shifts/notices.py and notice_views.py.                                  *)
(*                                                                         *)
(* Editors change days of the roster, each request one transaction that    *)
(* photographs the days it is about, writes, photographs again and queues  *)
(* what differs.  A job turns the queue into notices once a person's days  *)
(* have been still for a while; the person who opens their notices does    *)
(* not wait.  A notice is mailed and pushed after the commit, arrives when *)
(* an application shows it, and is read when the person says so.           *)
(* Shifts are written without locking anything first (READ COMMITTED).     *)
(***************************************************************************)
EXTENDS Naturals, Sequences, FiniteSets

CONSTANTS
    People, Days,
    Shifts,       \* what a shift may be: its spans
    Start,        \* the roster at the beginning
    Strokes,      \* what may be drawn in one request: days and what they become
    Editors,      \* requests that change the roster
    Jobs,         \* runs of send_shift_notices
    Pages,        \* requests of people who open their notices
    Followed,     \* the notices whose later life is followed
    Channels,     \* those of "emailed", "pushed" that the person has
    Wait,         \* SHIFT_NOTICE_WAIT_MINUTES
    DayLength,
    MaxTime, MaxEdits,
    MaxMishaps,   \* runs that die, and people who leave
    Nothing

Cells == People \X Days

ASSUME RosterAssumption ==
    /\ Wait \in Nat /\ DayLength \in Nat \ {0} /\ MaxTime \in Nat
    /\ MaxEdits \in Nat /\ MaxMishaps \in Nat
    /\ Days \subseteq Nat
    /\ Start \in [Cells -> Shifts \cup {Nothing}]
    /\ \A want \in Strokes : \E S \in SUBSET Cells : want \in [S -> Shifts \cup {Nothing}]
    /\ Followed \subseteq Nat \ {0}
    /\ Channels \subseteq {"emailed", "pushed"}
    /\ IsFiniteSet(People) /\ IsFiniteSet(Days) /\ IsFiniteSet(Editors)
    /\ IsFiniteSet(Jobs) /\ IsFiniteSet(Pages)
    /\ Editors \cap (Jobs \cup Pages) = {}
    /\ Nothing \notin Shifts \cup People \cup Editors \cup Jobs \cup Pages

Publishers == Jobs \cup Pages

VARIABLES
    shift,     \* Shift: the row of each day that has one
    pending,   \* PendingShiftChange
    notices,   \* ShiftNotice
    active,    \* who is on the staff
    told,      \* history: what each person was last told, or needed not be told
    left,      \* history: who has ever been deactivated
    held,      \* who holds each shift row (or its unique key)
    queued,    \* who holds each pending row (or its unique key)
    edit,      \* the editing requests
    pub,       \* the publishing runs
    edits, mishaps, now

rows  == <<shift, pending, notices>>
clock == <<edits, mishaps, now>>
vars  == <<shift, pending, notices, active, told, left, held, queued, edit, pub, edits, mishaps, now>>

-----------------------------------------------------------------------------
(* Types *)

Contents == Shifts \cup {Nothing}
Some(T)  == UNION {[S -> T] : S \in SUBSET Cells}   \* of some of the days
Time == 0 .. MaxTime
\* A row keeps its identity when it moves: it is named by the day it was first
\* written on, and a number no request under way knows.
Numbers == 0 .. Cardinality(Cells) * Cardinality(Editors \cup {Nothing}) + Cardinality(Publishers)
Ids     == Cells \X Numbers
Row     == [what : Shifts, id : Ids]
Draft   == [what : Shifts, id : Ids \cup {Nothing}]
Waiter  == [original : Contents, at : Time, born : Numbers]
Media   == {"emailed", "pushed", "delivered", "read"}
Notice  == [who : People, says : Some(Contents \X Contents), marks : [Media -> Time \cup {Nothing}]]
ASSUME RowsAssumption == Nothing \notin Row \cup Draft \cup Ids \cup Waiter \cup Time

Photo(c)    == IF shift[c] = Nothing THEN Nothing ELSE shift[c].what
Where(id)   == {c \in Cells : shift[c] # Nothing /\ shift[c].id = id}
Today       == now \div DayLength
StillAhead(c) == c[2] >= Today

Ops == {"replace", "add", "change", "remove", "move"}

EditRow == [pc : {"idle", "sent", "photographed", "aimed", "written", "looked", "noted"},
            op : Ops \cup {"none"}, want : Some(Contents), id : Ids \cup {Nothing},
            before : Some(Contents), seen : SUBSET Ids, draft : Some(Draft \cup {Nothing}),
            found : Some(Numbers), noted : SUBSET Cells, at : Time]
RunRow  == [pc : {"idle", "loaded", "locked", "photographed"}, of : People \cup {Nothing},
            todo : SUBSET (Cells \X Numbers), rows : Some(Contents),
            news : Some(Contents \X Contents), sends : SUBSET Nat]

NoEdit == [pc |-> "idle", op |-> "none", want |-> <<>>, id |-> Nothing,
           before |-> <<>>, seen |-> {}, draft |-> <<>>, found |-> <<>>, noted |-> {}, at |-> 0]

NoRun == [pc |-> "idle", of |-> Nothing, todo |-> {}, rows |-> <<>>, news |-> <<>>, sends |-> {}]

TypeOK ==
    /\ shift \in [Cells -> Row \cup {Nothing}]
    /\ pending \in [Cells -> Waiter \cup {Nothing}]
    /\ notices \in Seq(Notice)
    /\ active \subseteq People /\ left \subseteq People
    /\ told \in [Cells -> Contents]
    /\ held \in [Cells -> Editors \cup {Nothing}]
    /\ queued \in [Cells -> Editors \cup Publishers \cup {Nothing}]
    /\ edit \in [Editors -> EditRow]
    /\ pub \in [Publishers -> RunRow]
    /\ edits \in 0 .. MaxEdits /\ mishaps \in 0 .. MaxMishaps /\ now \in Time

-----------------------------------------------------------------------------
Init ==
    /\ shift = [c \in Cells |-> IF Start[c] = Nothing THEN Nothing
                                ELSE [what |-> Start[c], id |-> <<c, 0>>]]
    /\ pending = [c \in Cells |-> Nothing]
    /\ notices = <<>>
    /\ active = People
    /\ told = Start
    /\ left = {}
    /\ held = [c \in Cells |-> Nothing]
    /\ queued = [c \in Cells |-> Nothing]
    /\ edit = [e \in Editors |-> NoEdit]
    /\ pub = [b \in Publishers |-> NoRun]
    /\ edits = 0 /\ mishaps = 0 /\ now = 0

-----------------------------------------------------------------------------
(* Editing *)

Free(lock, x, c) == lock[c] \in {x, Nothing}
Released(lock, x) == [c \in Cells |-> IF lock[c] = x THEN Nothing ELSE lock[c]]

\* The request is over, refused or rolled back.
Abort(e) ==
    /\ edit' = [edit EXCEPT ![e] = NoEdit]
    /\ held' = Released(held, e)
    /\ queued' = Released(queued, e)

Begin(e, op, want, id) ==
    /\ edit[e].pc = "idle" /\ edits < MaxEdits /\ now + Wait < MaxTime
    /\ edits' = edits + 1
    /\ edit' = [edit EXCEPT ![e] = [NoEdit EXCEPT !.pc = "sent", !.op = op, !.want = want, !.id = id]]
    /\ UNCHANGED <<rows, active, told, left, held, queued, pub, mishaps, now>>

\* assign, paint and clear: these days become this, whatever they held.
Redraw(e, want) == Begin(e, "replace", want, Nothing)

\* create: one day gets a shift.
Add(e, c, what) == Begin(e, "add", [x \in {c} |-> what], Nothing)

\* update and destroy: of a row that was found.
Change(e, c, to, what) ==
    /\ shift[c] # Nothing
    /\ Begin(e, "change", [x \in {c, to} |-> IF x = to THEN what ELSE Nothing], shift[c].id)

Remove(e, c) ==
    /\ shift[c] # Nothing
    /\ Begin(e, "remove", [x \in {c} |-> Nothing], shift[c].id)

\* reassign: to somebody on the staff who has nothing that day.
Reassign(e, c, p) ==
    LET to == <<p, c[2]>> IN
    /\ shift[c] # Nothing /\ p \in active /\ shift[to] = Nothing
    /\ Begin(e, "move", [x \in {c, to} |-> IF x = to THEN shift[c].what ELSE Nothing], shift[c].id)

\* avisando: the photograph before.
Photograph(e) ==
    /\ edit[e].pc = "sent"
    /\ edit' = [edit EXCEPT ![e].pc = IF edit[e].op = "replace" THEN "photographed" ELSE "aimed",
                            ![e].before = [c \in DOMAIN edit[e].want |-> Photo(c)]]
    /\ UNCHANGED <<rows, active, told, left, held, queued, pub, clock>>

\* A DELETE reaches the rows it saw when it began.
Aim(e) ==
    /\ edit[e].pc = "photographed"
    /\ edit' = [edit EXCEPT ![e].pc = "aimed",
           ![e].seen = {shift[c].id : c \in {x \in DOMAIN edit[e].want : shift[x] # Nothing}}]
    /\ UNCHANGED <<rows, active, told, left, held, queued, pub, clock>>

Occupied(c, mine) == shift[c] # Nothing /\ shift[c].id \notin mine

\* Where the row the request loaded is now, and where it is to go.
Here(e)  == Where(edit[e].id)
Going(e) == {c \in DOMAIN edit[e].want : edit[e].want[c] # Nothing}
Target(e) == IF edit[e].op = "move"
             THEN {<<to[1], c[2]>> : to \in Going(e), c \in Here(e)}
             ELSE Going(e)

\* The rows it writes or inserts.
Touched(e) ==
    CASE edit[e].op = "replace" ->
            {c \in DOMAIN edit[e].want : edit[e].want[c] # Nothing
                                         \/ (shift[c] # Nothing /\ shift[c].id \in edit[e].seen)}
      [] edit[e].op = "add" -> Going(e)
      [] edit[e].op \in {"change", "move"} -> Here(e) \cup Target(e)
      [] OTHER -> Here(e)

\* The unique key (employee, day) refuses a second row, and saving one field
\* of a row that is gone fails; saving all of them inserts it again.
Refused(e) ==
    CASE edit[e].op = "replace" -> \E c \in Going(e) : Occupied(c, edit[e].seen)
      [] edit[e].op = "add"     -> \E c \in Going(e) : Occupied(c, {})
      [] edit[e].op = "change"  -> \E c \in Target(e) : Occupied(c, {edit[e].id})
      [] edit[e].op = "move"    -> Here(e) = {} \/ \E c \in Target(e) : Occupied(c, {edit[e].id})
      [] OTHER -> FALSE

Written(e, c) ==
    CASE edit[e].op \in {"replace", "add"} ->
            IF edit[e].want[c] = Nothing THEN Nothing
            ELSE [what |-> edit[e].want[c], id |-> Nothing]
      [] edit[e].op = "change" ->
            IF c \in Target(e) THEN [what |-> edit[e].want[c], id |-> edit[e].id] ELSE Nothing
      [] edit[e].op = "move" ->
            IF c \in Target(e) THEN shift[CHOOSE h \in Here(e) : TRUE] ELSE Nothing
      [] OTHER -> Nothing

Write(e) ==
    /\ edit[e].pc = "aimed"
    /\ \A c \in Touched(e) : Free(held, e, c)
    /\ IF Refused(e)
       THEN Abort(e)
       ELSE /\ edit' = [edit EXCEPT ![e] =
                   [NoEdit EXCEPT !.pc = "written", !.before = edit[e].before,
                                  !.draft = [c \in Touched(e) |-> Written(e, c)]]]
            /\ held' = [c \in Cells |-> IF c \in Touched(e) THEN e ELSE held[c]]
            /\ UNCHANGED queued
    /\ UNCHANGED <<rows, active, told, left, pub, clock>>

\* The photograph after sees this request's own writes.
PhotoOf(e, c) ==
    IF c \in DOMAIN edit[e].draft
    THEN (IF edit[e].draft[c] = Nothing THEN Nothing ELSE edit[e].draft[c].what)
    ELSE Photo(c)

Differs(e) == {c \in DOMAIN edit[e].before : edit[e].before[c] # PhotoOf(e, c)}

ToTell(e) == {c \in Differs(e) : c[1] \in active /\ StillAhead(c)}

\* anotar: get_or_create looks for the row of each day first.
LookUp(e) ==
    /\ edit[e].pc = "written"
    /\ edit' = [edit EXCEPT ![e].pc = IF ToTell(e) = {} THEN "noted" ELSE "looked",
           ![e].noted = ToTell(e),
           ![e].found = [c \in {x \in ToTell(e) : pending[x] # Nothing} |-> pending[c].born]]
    /\ UNCHANGED <<rows, active, told, left, held, queued, pub, clock>>

\* A row that was found is saved by its key, and saving one that has been
\* published meanwhile fails; one that was not found is inserted, or found
\* after all if somebody else has just inserted it.
Gone(e) == \E c \in DOMAIN edit[e].found :
              pending[c] = Nothing \/ pending[c].born # edit[e].found[c]

Note(e) ==
    /\ edit[e].pc = "looked"
    /\ \A c \in edit[e].noted : Free(queued, e, c)
    /\ IF Gone(e)
       THEN Abort(e)
       ELSE /\ edit' = [edit EXCEPT ![e].pc = "noted", ![e].at = now, ![e].found = <<>>]
            /\ queued' = [c \in Cells |-> IF c \in edit[e].noted THEN e ELSE queued[c]]
            /\ UNCHANGED held
    /\ UNCHANGED <<rows, active, told, left, pub, clock>>

\* Keys are new (uuid): no request under way has seen them.
KnownRows(e) ==
    (UNION {edit[x].seen \cup {edit[x].id} : x \in Editors \ {e}})
    \cup {shift[c].id : c \in {x \in Cells : shift[x] # Nothing /\ x \notin DOMAIN edit[e].draft}}

KnownNotes(c) ==
    {edit[x].found[c] : x \in {y \in Editors : c \in DOMAIN edit[y].found}}
    \cup {t[2] : t \in {u \in UNION {pub[b].todo : b \in Publishers} : u[1] = c}}

NewNote(c) == CHOOSE k \in Numbers : k \notin KnownNotes(c)

\* MUTANT: the row is left without its key.
Keyless(e, c, row) == row

Keyed(e, c, row) ==
    IF row # Nothing /\ row.id = Nothing
    THEN [row EXCEPT !.id = <<c, CHOOSE k \in Numbers : <<c, k>> \notin KnownRows(e)>>]
    ELSE row

\* MUTANT: what was there before the last change takes the place of what was
\* there before the first.
QueueAfresh(e, c) ==
    [original |-> edit[e].before[c],
     at |-> edit[e].at,
     born |-> IF pending[c] = Nothing THEN NewNote(c) ELSE pending[c].born]

\* What had been there before the first change stays; the time moves.
Queue(e, c) ==
    [original |-> IF pending[c] = Nothing THEN edit[e].before[c] ELSE pending[c].original,
     at |-> edit[e].at,
     born |-> IF pending[c] = Nothing THEN NewNote(c) ELSE pending[c].born]

Commit(e) ==
    /\ edit[e].pc = "noted"
    /\ shift' = [c \in Cells |-> IF c \in DOMAIN edit[e].draft
                                 THEN Keyed(e, c, edit[e].draft[c]) ELSE shift[c]]
    /\ pending' = [c \in Cells |-> IF c \in edit[e].noted THEN Queue(e, c) ELSE pending[c]]
    /\ told' = [c \in Cells |-> IF c \in Differs(e) \ edit[e].noted /\ pending[c] = Nothing
                                THEN PhotoOf(e, c) ELSE told[c]]
    /\ Abort(e)
    /\ UNCHANGED <<notices, active, left, pub, clock>>

-----------------------------------------------------------------------------
(* Publishing *)

QueuedOf(p) == {c \in Cells : c[1] = p /\ pending[c] # Nothing}
Still(p, wait) == \A c \in QueuedOf(p) : pending[c].at + wait <= now

Waiting(of, wait) ==
    {<<c, pending[c].born>> :
        c \in {x \in Cells : pending[x] # Nothing /\ of \in {Nothing, x[1]} /\ Still(x[1], wait)}}

\* publicar, first part: what waits, read without locking, of those who have
\* been left alone for long enough.
Load(b, of, wait) ==
    /\ pub[b].pc = "idle" /\ pub[b].sends = {}
    /\ Waiting(of, wait) # {}
    /\ pub' = [pub EXCEPT ![b].pc = "loaded", ![b].of = of, ![b].todo = Waiting(of, wait)]
    /\ UNCHANGED <<rows, active, told, left, held, queued, edit, clock>>

NoMarks == [m \in Media |-> Nothing]

\* MUTANT: the latest time is kept.
MarkedAgain(n, m) == [n EXCEPT !.marks[m] = now]

\* A time that is already there is not moved.
Marked(n, m) == [n EXCEPT !.marks[m] = IF @ = Nothing THEN now ELSE @]

\* _entregar: what the person is shown has arrived.
Shown(log, p) == [i \in DOMAIN log |-> IF log[i].who = p /\ i \in Followed THEN Marked(log[i], "delivered") ELSE log[i]]

RunJob(b) == b \in Jobs /\ Load(b, Nothing, Wait)
OpenPage(b, p) == b \in Pages /\ p \in active /\ Load(b, p, 0)

\* The page of somebody with nothing waiting only shows what there is.
ShowPage(p) ==
    /\ p \in active /\ Waiting(p, 0) = {}
    /\ notices' = Shown(notices, p)
    /\ UNCHANGED <<shift, pending, active, told, left, held, queued, edit, pub, clock>>

StillThere(t) == pending[t[1]] # Nothing /\ pending[t[1]].born = t[2]

\* MUTANT: the rows are read again without FOR UPDATE.
ReadRows(b, there) == UNCHANGED queued

TakeRows(b, there) ==
    /\ \A t \in there : Free(queued, b, t[1])
    /\ queued' = [c \in Cells |-> IF \E t \in there : t[1] = c THEN b ELSE queued[c]]

\* One person after another: their rows, locked, those that are still there.
LockRows(b, p) ==
    LET theirs == {t \in pub[b].todo : t[1][1] = p}
        there  == {t \in theirs : StillThere(t)} IN
    /\ pub[b].pc = "loaded" /\ pub[b].sends = {} /\ theirs # {}
    /\ TakeRows(b, there)
    /\ IF there = {}
       THEN pub' = [pub EXCEPT ![b].todo = @ \ theirs]
       ELSE pub' = [pub EXCEPT ![b].todo = @ \ theirs, ![b].pc = "locked",
                                   ![b].rows = [c \in {t[1] : t \in there} |-> pending[c].original]]
    /\ UNCHANGED <<rows, active, told, left, held, edit, clock>>

\* What really changed, of the days that are not over.
PhotographNow(b) ==
    LET old  == pub[b].rows
        news == {c \in DOMAIN old : StillAhead(c) /\ old[c] # Photo(c)} IN
    /\ pub[b].pc = "locked"
    /\ pub' = [pub EXCEPT ![b].pc = "photographed",
                          ![b].news = [c \in news |-> <<old[c], Photo(c)>>]]
    /\ UNCHANGED <<rows, active, told, left, held, queued, edit, clock>>

\* MUTANT: only what gave news is taken out of the queue.
ForgetNews(b) == DOMAIN pub[b].news

Forgotten(b) == DOMAIN pub[b].rows

\* The queue forgets the rows and the notice says what they said, or nothing
\* if they said nothing.  A job commits here; a page shows its person what
\* there is, and then commits.
Publish(b) ==
    LET who == (CHOOSE c \in DOMAIN pub[b].rows : TRUE)[1]
        log == IF pub[b].news = <<>> THEN notices
               ELSE Append(notices, [who |-> who, says |-> pub[b].news, marks |-> NoMarks]) IN
    /\ pub[b].pc = "photographed"
    /\ pending' = [c \in Cells |-> IF c \in Forgotten(b) THEN Nothing ELSE pending[c]]
    /\ notices' = IF b \in Pages THEN Shown(log, pub[b].of) ELSE log
    /\ told' = [c \in Cells |-> IF c \in DOMAIN pub[b].news THEN pub[b].news[c][2] ELSE told[c]]
    /\ pub' = [pub EXCEPT ![b] =
                  [NoRun EXCEPT !.pc = IF pub[b].todo = {} THEN "idle" ELSE "loaded",
                                !.of = IF pub[b].todo = {} THEN Nothing ELSE pub[b].of, !.todo = pub[b].todo,
                                !.sends = IF pub[b].news = <<>> THEN {} ELSE {Len(log)} \cap Followed]]
    /\ queued' = Released(queued, b)
    /\ UNCHANGED <<shift, active, left, held, edit, clock>>

\* Another run had published it all.
Finish(b) ==
    /\ pub[b].pc = "loaded" /\ pub[b].sends = {} /\ pub[b].todo = {}
    /\ notices' = IF b \in Pages THEN Shown(notices, pub[b].of) ELSE notices
    /\ pub' = [pub EXCEPT ![b] = NoRun]
    /\ UNCHANGED <<shift, pending, active, told, left, held, queued, edit, clock>>

\* enviar, after the commit: each channel that takes it is noted, and one that
\* does not leaves its time empty.
Send(b, i) ==
    /\ i \in pub[b].sends
    /\ \E through \in SUBSET Channels :
          notices' = [notices EXCEPT ![i].marks =
                         [m \in DOMAIN @ |-> IF m \in through /\ @[m] = Nothing THEN now ELSE @[m]]]
    /\ pub' = [pub EXCEPT ![b].sends = @ \ {i}]
    /\ UNCHANGED <<shift, pending, active, told, left, held, queued, edit, clock>>

\* leido: it had arrived by then, if it had not before.
Read(p, i) ==
    /\ i \in DOMAIN notices \cap Followed /\ notices[i].who = p
    /\ notices[i].marks["read"] = Nothing
    /\ notices' = [notices EXCEPT ![i] = Marked(Marked(@, "delivered"), "read")]
    /\ UNCHANGED <<shift, pending, active, told, left, held, queued, edit, pub, clock>>

-----------------------------------------------------------------------------
(* The staff, the clock and what goes wrong *)

Deactivate(p) ==
    /\ p \in active /\ mishaps < MaxMishaps
    /\ active' = active \ {p} /\ left' = left \cup {p}
    /\ mishaps' = mishaps + 1
    /\ UNCHANGED <<rows, told, held, queued, edit, pub, edits, now>>

Reactivate(p) ==
    /\ p \notin active
    /\ active' = active \cup {p}
    /\ UNCHANGED <<rows, told, left, held, queued, edit, pub, clock>>

CrashEdit(e) ==
    /\ edit[e].pc # "idle"
    /\ Abort(e)
    /\ UNCHANGED <<rows, active, told, left, pub, clock>>

\* What had been committed stays, and what was to be mailed is not.
CrashRun(b) ==
    /\ pub[b].pc # "idle"
    /\ mishaps < MaxMishaps /\ mishaps' = mishaps + 1
    /\ pub' = [pub EXCEPT ![b] = NoRun]
    /\ queued' = Released(queued, b)
    /\ UNCHANGED <<rows, active, told, left, held, edit, edits, now>>

\* Bounds: an edit does not outlast the time left for its notice, and a mail
\* does not take a unit of time.
Tick ==
    /\ now < MaxTime
    /\ now + Wait < MaxTime \/ \A e \in Editors : edit[e].pc = "idle"
    /\ \A b \in Publishers : pub[b].sends = {}
    /\ now' = now + 1
    /\ UNCHANGED <<rows, active, told, left, held, queued, edit, pub, edits, mishaps>>

-----------------------------------------------------------------------------
Editing(e) ==
    \/ Photograph(e) \/ Aim(e) \/ Write(e) \/ LookUp(e) \/ Note(e) \/ Commit(e)

Publishing(b) ==
    \/ \E p \in People : LockRows(b, p)
    \/ PhotographNow(b) \/ Publish(b) \/ Finish(b)
    \/ \E i \in DOMAIN notices : Send(b, i)

Next ==
    \/ \E e \in Editors :
          \/ \E want \in Strokes :
                \/ Redraw(e, want)
                \/ \E to \in DOMAIN want :
                      /\ want[to] # Nothing
                      /\ Add(e, to, want[to]) \/ \E c \in Cells : Change(e, c, to, want[to])
          \/ \E c \in Cells : Remove(e, c)
          \/ \E c \in Cells, p \in People : Reassign(e, c, p)
          \/ Editing(e)
          \/ CrashEdit(e)
    \/ \E b \in Publishers :
          \/ RunJob(b)
          \/ \E p \in People : OpenPage(b, p)
          \/ Publishing(b)
          \/ CrashRun(b)
    \/ \E p \in People, i \in DOMAIN notices : Read(p, i)
    \/ \E p \in People : ShowPage(p) \/ Deactivate(p) \/ Reactivate(p)
    \/ Tick

\* The job runs every few minutes (cron or celery-beat), requests end and the
\* clock goes on.
Fairness ==
    /\ WF_vars(Tick)
    /\ \A e \in Editors : WF_vars(Editing(e))
    /\ \A b \in Jobs : WF_vars(RunJob(b))
    /\ \A b \in Publishers : WF_vars(Publishing(b))

Spec == Init /\ [][Next]_vars /\ Fairness

-----------------------------------------------------------------------------
(* What must hold *)

\* Whoever's day is not as they were last told of it is waiting to be told: no
\* way of changing the roster goes without its notice (notices.py, opening
\* comment), as long as the day is not over and the person has never left.
NobodyIsLeftUntold ==
    \A c \in Cells :
        StillAhead(c) /\ c[1] \notin left /\ Photo(c) # told[c] => pending[c] # Nothing

\* The edits of which it is so: no two under way are about the same day, which
\* nothing in the code sees to (a photograph locks nothing).
About(e)   == DOMAIN edit[e].want \cup DOMAIN edit[e].before
EditsApart == \A d, e \in Editors : d # e => About(d) \cap About(e) = {}

\* What proves that somebody knew is written once, and nothing is read before
\* it arrives: whichever of the job, the page and another application comes
\* first, none moves a time another one set (migration 0004).
ProofStands ==
    [][\A i \in DOMAIN notices :
          /\ notices'[i].says = notices[i].says
          /\ \A m \in DOMAIN notices[i].marks :
                notices[i].marks[m] # Nothing => notices'[i].marks[m] = notices[i].marks[m]
          /\ notices'[i].marks["read"] # Nothing =>
                /\ notices'[i].marks["delivered"] # Nothing
                /\ notices'[i].marks["delivered"] <= notices'[i].marks["read"]]_vars

\* Once the roster is left alone the queue empties: each change becomes a
\* notice, or turns out to be no change, or its day goes by.
EveryChangeIsSettled ==
    (\E c \in Cells : pending[c] # Nothing) ~> (\A c \in Cells : pending[c] = Nothing)

-----------------------------------------------------------------------------
(* What the queue and the notices implement *)

Promise == INSTANCE RosterTelling WITH
    Cells    <- Cells,
    Contents <- Contents,
    roster   <- [c \in Cells |-> Photo(c)],
    told     <- told,
    excused  <- {c \in Cells : ~StillAhead(c) \/ c[1] \in left},
    log      <- [i \in DOMAIN notices |-> [who |-> notices[i].who, says |-> notices[i].says]]

\* Every notice says what its person had been told before and what holds now,
\* one notice per person, and nothing else changes what they have been told.
ImplementsTelling == Promise!Spec
=============================================================================
