----------------------------- MODULE Placements -----------------------------
(***************************************************************************)
(* Where each person belongs - a department, a workplace - with the        *)
(* history kept beside the current one, and who may read whose record.     *)
(*                                                                         *)
(* The current unit is a column of the person.  A signal writes the        *)
(* history in the same transaction, after the row of the person has been   *)
(* updated and so locked: edits cross, but a save and what it remembers    *)
(* are one step.  "was" is what nobody stores: the unit of each person at  *)
(* the end of each day.  One clock is kept for everybody.                  *)
(***************************************************************************)
EXTENDS Dated, FiniteSets

CONSTANTS
    People, Managers,  \* Role.MANAGER among them; the rest are employees
    Departments, Workplaces,
    Undated,    \* those with a unit from before there was any history of it
    LocalHolidays,   \* <<workplace, day>>: PublicHoliday
    Reports,    \* the windows somebody asks a report for: [first, last]
    Hands,
    Changes     \* BOUND: the edits of a behaviour

Axes == {"department", "workplace"}
Units == [a \in Axes |-> IF a = "department" THEN Departments ELSE Workplaces]
\* from: Nothing while it is not on record since when; to: Nothing in the current one.
Span == [unit : Departments \cup Workplaces,
         from : Days \cup {Nothing}, to : Days \cup {-1, Nothing}]

\* A file somebody has read, with their edit.
File == [who : People, active : BOOLEAN,
         unit : {at \in [Axes -> Departments \cup Workplaces \cup {Nothing}] :
                    \A a \in Axes : at[a] \in Units[a] \cup {Nothing}}]

PlacementsAssumption ==
    /\ Managers \subseteq People /\ Undated \subseteq People
    /\ {LastDay, Changes} \subseteq Nat /\ Departments \cap Workplaces = {}
    /\ Departments # {} /\ Workplaces # {}
    /\ {Nothing, Same} \cap (Departments \cup Workplaces) = {}
    /\ Nothing \notin Days \cup {-1}
    /\ LocalHolidays \subseteq Workplaces \X Days
    /\ \A w \in Reports : w.first \in Days /\ w.last \in w.first .. LastDay

VARIABLES
    today,
    exists,    \* the departments and workplaces there are
    unit,      \* unit[a][p]: User.department and User.workplace
    spans,     \* spans[a][p]: the history of assignments
    active,
    runs,      \* runs[d]: Department.managers
    whole,     \* Tenant.managers_see_whole_company
    held,      \* the file each hand has read, with its edit, not saved yet
    was,       \* was[a][p][d]: where they were when that day ended
    bare,      \* those who were ever left without a workplace
    left

vars == <<today, exists, unit, spans, active, runs, whole, held, was, bare, left>>

-----------------------------------------------------------------------------
(* The history *)

Current(kept) == {s \in kept : s.to = Nothing}

\* The day before everything, for a span of which it is not known since when.
Since(s) == IF s.from = Nothing THEN -1 ELSE s.from

\* Of several open, the one with no date comes first.
LastOpen(kept) ==
    CHOOSE s \in Current(kept) :
        \A x \in Current(kept) : s.from = Nothing \/ Since(s) >= Since(x)

Close(kept, day) == IF Current(kept) = {} THEN kept
                    ELSE (kept \ {LastOpen(kept)}) \cup {[LastOpen(kept) EXCEPT !.to = day - 1]}

\* The first of a history has no date: nobody knows since when.
Begin(kept, u, day) ==
    IF u = Nothing THEN {}
    ELSE {[unit |-> u, from |-> IF Current(kept) = {} THEN Nothing ELSE day, to |-> Nothing]}

AlreadyThere(kept, u) == Current(kept) # {} /\ LastOpen(kept).unit = u

\* MUTANT: nothing is remembered when there is nowhere to go.
RememberArrivals(kept, u, day) ==
    IF u = Nothing \/ AlreadyThere(kept, u) THEN kept
    ELSE Close(kept, day) \cup Begin(kept, u, day)

\* remember_department, remember_workplace: close the current one the day
\* before, and open another if there is where to.
Remember(kept, u, day) ==
    IF AlreadyThere(kept, u) THEN kept
    ELSE Close(kept, day) \cup Begin(kept, u, day)

\* DepartmentAssignment.covers, WorkplaceAssignment.covers.
Covers(s, first, last) == Since(s) <= last /\ (s.to # Nothing => s.to >= first)

\* MUTANT: the people who are there today.
PeopleNow(a, u, first, last) == {p \in People : unit[a][p] = u}

\* people_in_department, people_in_workplace.
PeopleIn(a, u, first, last) ==
    {p \in People : IF spans[a][p] # {}
                    THEN \E s \in spans[a][p] : s.unit = u /\ Covers(s, first, last)
                    ELSE unit[a][p] = u}

\* workplace_on: the latest that covers the day, or else the oldest; spans that
\* begin together come in any order.
WorkplacesOn(p, d) ==
    LET kept == spans["workplace"][p]
        covering == {s \in kept : Covers(s, d, d)}
        latest == {s \in covering : \A x \in covering : Since(s) >= Since(x)}
        oldest == {s \in kept : \A x \in kept : Since(s) <= Since(x)}
    IN  IF kept = {} THEN {unit["workplace"][p]}
        ELSE {s.unit : s \in IF covering # {} THEN latest ELSE oldest}

\* MUTANT: the holidays of the workplace of today.
HolidaysOfToday(p, days) == {d \in days : <<unit["workplace"][p], d>> \in LocalHolidays}

\* holidays_for: the holidays of the workplace of each day.
HolidaysFor(p, days) == {d \in days : \E w \in WorkplacesOn(p, d) : <<w, d>> \in LocalHolidays}

-----------------------------------------------------------------------------
(* Who reads whom *)

\* department_scoping_in_use.
ScopingInUse == \E d \in Departments : runs[d] # {}

ManagedBy(p) == {d \in Departments : p \in runs[d]}

InDepartmentOf(p) == {q \in People : unit["department"][q] \in ManagedBy(p)} \cup {p}

\* MUTANT: who answers for no department reads everybody.
VisibleWithoutScoping(p) ==
    IF p \notin Managers THEN {p}
    ELSE IF whole \/ ManagedBy(p) = {} THEN People
    ELSE InDepartmentOf(p)

\* visible_people, of an employee or a manager.
VisiblePeople(p) ==
    IF p \notin Managers THEN {p}
    ELSE IF whole THEN People
    ELSE IF ManagedBy(p) # {} THEN InDepartmentOf(p)
    ELSE IF ScopingInUse THEN {p}
    ELSE People

-----------------------------------------------------------------------------
(* Behaviour *)

\* At first each is somewhere, and what is on record has no date.
Init ==
    /\ today = 0
    /\ exists = Departments \cup Workplaces
    /\ unit = [a \in Axes |-> [p \in People |-> CHOOSE u \in Units[a] : TRUE]]
    /\ spans = [a \in Axes |-> [p \in People |->
                   IF p \in Undated THEN {}
                   ELSE {[unit |-> unit[a][p], from |-> Nothing, to |-> Nothing]}]]
    /\ active = [p \in People |-> TRUE]
    /\ runs = [d \in Departments |-> {}]
    /\ whole = FALSE
    /\ held = [h \in Hands |-> Nothing]
    /\ was = [a \in Axes |-> [p \in People |-> [d \in Days |-> Nothing]]]
    /\ bare = {}
    /\ left = Changes

Placeless == {p \in People : unit["workplace"][p] = Nothing}

Change == left > 0 /\ left' = left - 1

\* A PATCH of a file reads the row...
ReadFile(h, p, wish) ==
    /\ Change /\ held[h] = Nothing
    /\ \A a \in Axes : wish[a] \in exists \cup {Nothing, Same}
    /\ held' = [held EXCEPT ![h] = [who |-> p,
                   unit |-> [a \in Axes |-> IF wish[a] = Same THEN unit[a][p] ELSE wish[a]],
                   active |-> IF wish.active = Same THEN active[p] ELSE wish.active]]
    /\ UNCHANGED <<today, exists, unit, spans, active, runs, whole, was, bare>>

\* ...and saves every column of it, which fails if it points to a unit now gone.
SaveFile(h) ==
    /\ held[h] # Nothing
    /\ LET row == held[h] IN
       IF \A a \in Axes : row.unit[a] \in exists \cup {Nothing}
       THEN /\ unit' = [a \in Axes |-> [unit[a] EXCEPT ![row.who] = row.unit[a]]]
            /\ spans' = [a \in Axes |-> [spans[a] EXCEPT ![row.who] =
                                            Remember(@, row.unit[a], today)]]
            /\ active' = [active EXCEPT ![row.who] = row.active]
       ELSE UNCHANGED <<unit, spans, active>>
    /\ held' = [held EXCEPT ![h] = Nothing]
    /\ bare' = bare \cup Placeless'
    /\ UNCHANGED <<today, exists, runs, whole, was, left>>

\* DepartmentSerializer._set_members: exactly those, who saves only that column.
SetMembers(d, members) ==
    LET a == "department"
        goes == [p \in People |-> IF p \in members THEN d
                                  ELSE IF unit[a][p] = d THEN Nothing ELSE unit[a][p]]
    IN  /\ Change /\ d \in exists
        /\ unit' = [unit EXCEPT ![a] = goes]
        /\ spans' = [spans EXCEPT ![a] = [p \in People |->
                        IF goes[p] # unit[a][p] THEN Remember(spans[a][p], goes[p], today)
                        ELSE spans[a][p]]]
        /\ UNCHANGED <<today, exists, active, runs, whole, held, was, bare>>

\* validate_managers: only somebody who can manage.
SetManagers(d, managers) ==
    /\ Change /\ d \in exists /\ managers \subseteq Managers /\ managers # runs[d]
    /\ runs' = [runs EXCEPT ![d] = managers]
    /\ UNCHANGED <<today, exists, unit, spans, active, whole, held, was, bare>>

\* SET_NULL in the people, by the database and with no signal; CASCADE in the history.
Delete(a, u) ==
    /\ Change /\ u \in exists
    /\ exists' = exists \ {u}
    /\ unit' = [unit EXCEPT ![a] = [p \in People |-> IF @[p] = u THEN Nothing ELSE @[p]]]
    /\ spans' = [spans EXCEPT ![a] = [p \in People |-> {s \in @[p] : s.unit # u}]]

DeleteDepartment(d) ==
    /\ ~\E p \in runs[d] : active[p]
    /\ Delete("department", d)
    /\ runs' = [runs EXCEPT ![d] = {}]
    /\ UNCHANGED <<today, active, whole, held, was, bare>>

DeleteWorkplace(w) ==
    /\ ~\E p \in People : active[p] /\ unit["workplace"][p] = w
    /\ Delete("workplace", w)
    /\ bare' = bare \cup Placeless'
    /\ UNCHANGED <<today, active, runs, whole, held, was>>

\* backfill_department_history.
Backfill ==
    /\ Change
    /\ spans' = [spans EXCEPT !["department"] = [p \in People |->
                    IF @[p] = {} /\ unit["department"][p] # Nothing
                    THEN {[unit |-> unit["department"][p], from |-> Nothing, to |-> Nothing]}
                    ELSE @[p]]]
    /\ spans' # spans
    /\ UNCHANGED <<today, exists, unit, active, runs, whole, held, was, bare>>

SeeTheWholeCompany ==
    /\ Change
    /\ whole' = ~whole
    /\ UNCHANGED <<today, exists, unit, spans, active, runs, held, was, bare>>

NextDay ==
    /\ today < LastDay
    /\ today' = today + 1
    /\ was' = [a \in Axes |-> [p \in People |-> [was[a][p] EXCEPT ![today] = unit[a][p]]]]
    /\ UNCHANGED <<exists, unit, spans, active, runs, whole, held, bare, left>>

Wishes == [department : Departments \cup {Nothing, Same},
           workplace : Workplaces \cup {Nothing, Same}, active : BOOLEAN \cup {Same}]

\* A PATCH that touches one thing: those of two are two of these.
OneThing(wish) == Cardinality({f \in DOMAIN wish : wish[f] # Same}) = 1

Next ==
    \/ \E h \in Hands, p \in People, wish \in {w \in Wishes : OneThing(w)} : ReadFile(h, p, wish)
    \/ \E h \in Hands : SaveFile(h)
    \/ \E d \in Departments, members \in SUBSET People : SetMembers(d, members)
    \/ \E d \in Departments, managers \in SUBSET Managers : SetManagers(d, managers)
    \/ \E d \in Departments : DeleteDepartment(d)
    \/ \E w \in Workplaces : DeleteWorkplace(w)
    \/ Backfill
    \/ SeeTheWholeCompany
    \/ NextDay

Spec == Init /\ [][Next]_vars

-----------------------------------------------------------------------------
(* Properties *)

TypeOK ==
    /\ today \in Days /\ exists \subseteq Departments \cup Workplaces
    /\ unit \in [Axes -> [People -> Departments \cup Workplaces \cup {Nothing}]]
    /\ \A a \in Axes, p \in People : unit[a][p] \in Units[a] \cup {Nothing}
    /\ spans \in [Axes -> [People -> SUBSET Span]]
    /\ active \in [People -> BOOLEAN]
    /\ runs \in [Departments -> SUBSET Managers]
    /\ held \in [Hands -> File \cup {Nothing}]
    /\ was \in [Axes -> [People -> [Days -> Departments \cup Workplaces \cup {Nothing}]]]
    /\ bare \subseteq People

\* Whatever edits cross, the one open span of the history of somebody is the
\* unit their file says, and there is none when it says none.
HistoryFollowsTheFile ==
    \A a \in Axes, p \in People : spans[a][p] # {} =>
        {s.unit : s \in Current(spans[a][p])} = {unit[a][p]} \ {Nothing}

\* A report asked by department, for any window, has everybody who ended a day
\* of it there, wherever they are now.  Not those of before there was any
\* history: their first move is all that is kept of them.
NobodyIsMissingFromTheReport ==
    \A p \in People \ Undated, w \in Reports, d \in Days :
        LET there == was["department"][p][d] IN
        d \in w.first .. w.last /\ there \in exists
            => p \in PeopleIn("department", there, w.first, w.last)

\* The local holidays of a day that is over stay those of the workplace of that
\* day, for whoever has a history and was never left without one.
ClosedDaysKeepTheirHolidays ==
    \A p \in People \ Undated : \A d \in 0 .. today - 1 :
        LET there == was["workplace"][p][d] IN
        p \notin bare /\ there \in exists
            => (d \in HolidaysFor(p, 0 .. today - 1) <=> <<there, d>> \in LocalHolidays)

\* Somebody who is taken off a department does not read more for it, while
\* anybody still answers for one.
TakenOff(p) == \E d \in Departments : p \in runs[d] \ runs'[d]

LosingADepartmentNarrows ==
    [][\A p \in Managers : (TakenOff(p) /\ ScopingInUse') => VisiblePeople(p)' \subseteq VisiblePeople(p)]_vars

\* The same whoever is left.
UnassigningNeverWidens ==
    [][\A p \in Managers : TakenOff(p) => VisiblePeople(p)' \subseteq VisiblePeople(p)]_vars

\* Nobody is in two units of a kind on one day.
NobodyIsInTwoPlaces ==
    \A a \in Axes, p \in People, d \in Days :
        \A s, t \in spans[a][p] : Covers(s, d, d) /\ Covers(t, d, d) => s.unit = t.unit
=============================================================================
