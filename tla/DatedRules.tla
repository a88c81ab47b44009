----------------------------- MODULE DatedRules -----------------------------
(***************************************************************************)
(* The figures a company works to (tenants/rules.py), changed from the     *)
(* settings (shifts/views.py, WorkingTimeRulesView) or by the file of an   *)
(* agreement (tenants/agreements.py).                                      *)
(*                                                                         *)
(* Two of them decide what the register says - whether the break counts    *)
(* and how long a day may stay open - and are kept with the day they apply *)
(* from.  The others only decide whether it complies; one stands for all   *)
(* of them here, with the floor an article gives it.                       *)
(*                                                                         *)
(* An edit reads the row without a lock and writes the whole of it; the    *)
(* write takes the row until the commit, so what follows it in the request *)
(* sees the edits committed before.                                        *)
(***************************************************************************)
EXTENDS Dated, FiniteSets, FiniteSetsExt

CONSTANTS
    Edits,         \* requests
    Today,         \* the day the screen looks at; nothing here depends on it
    Caps,          \* max_open_hours
    Rests,         \* daily_rest_hours
    Floor,         \* Citation.floor of that one
    DefaultCap,
    Wanted,        \* what an edit may ask of each figure
    Files          \* what the files of agreements fix

Asks == [breaks : BOOLEAN \cup {Same}, cap : Caps \cup {Same}, rest : Rests \cup {Same}]

\* A row of figures, and what a request holds of one.
Row     == [breaks : BOOLEAN, cap : Caps, rest : Rests]
Counts  == [breaks : BOOLEAN, cap : Caps]
Figures == {"breaks", "cap", "rest"}
EditRow == [copy : Row, from_agreement : SUBSET Figures, asks : Asks,
            from : Days \cup {Nothing}]

\* date.min: how time was counted before any change was declared.
Always == -1

RulesAssumption ==
    /\ LastDay \in Nat /\ Today \in Days /\ Caps \subseteq Nat /\ Rests \subseteq Nat /\ Floor \in Nat
    /\ DefaultCap \in Caps /\ Floor \in Rests
    /\ Wanted \cup Files \subseteq Asks
    /\ Same \notin Caps \cup Rests /\ Same \notin BOOLEAN
    /\ Nothing \notin Days \cup EditRow

VARIABLES
    rules,      \* WorkingTimeRules: [breaks, cap, rest]
    source,     \* its from_agreement: the figures whose article is an agreement's
    change,     \* ComputationRuleChange: day -> [breaks, cap], where there is one
    edit,       \* each request: the copy it read, what it asks, from which day
    said,       \* AuditLog: figures outside the law that were told, ever
    filed       \* history: a file has been applied

rulesVars == <<rules, source, change, edit, said, filed>>

Computation(row) == [breaks |-> row.breaks, cap |-> row.cap]

\* ComputationRuleChange.in_force_on: the last change by that day, or today's rules.
InForce(d) ==
    LET by == {x \in DOMAIN change : x <= d}
    IN IF by = {} THEN Computation(rules) ELSE change[Max(by)]

Set(function, x, value) ==
    [y \in DOMAIN function \cup {x} |-> IF y = x THEN value ELSE function[y]]

Named(asks) == {f \in Figures : asks[f] # Same}
Edited(row, asks) == [f \in Figures |-> IF f \in Named(asks) THEN asks[f] ELSE row[f]]

\* What moves, as the request sees it: against the copy it read.
Moved(e) == {f \in Named(edit[e].asks) : edit[e].asks[f] # edit[e].copy[f]}
MovesTheCount(e) == Moved(e) \cap {"breaks", "cap"} # {}

\* _outside_the_law.
OutsideTheLaw(rest) == rest < Floor

-----------------------------------------------------------------------------

\* for_company creates the row from the framework of the country.
RulesInit ==
    /\ rules = [breaks |-> FALSE, cap |-> DefaultCap, rest |-> Floor]
    /\ source = {} /\ filed = FALSE
    /\ change = [d \in {} |-> rules]
    /\ said = {}
    /\ edit = [e \in Edits |-> Nothing]

\* The screen sends a day with the two that need it.
Load(e, asks, from) ==
    /\ edit[e] = Nothing
    /\ from # Nothing => Named(asks) # {"rest"}
    /\ edit' = [edit EXCEPT ![e] = [copy |-> rules, from_agreement |-> source,
                                    asks |-> asks, from |-> from]]
    /\ UNCHANGED <<rules, source, change, said, filed>>

\* Answered 400, or the connection died before the commit.
Refuse(e) ==
    /\ edit[e] # Nothing
    /\ edit' = [edit EXCEPT ![e] = Nothing]
    /\ UNCHANGED <<rules, source, change, said, filed>>

\* MUTANT: the past is not anchored.
UnanchoredBy(e, row) == Set(change, edit[e].from, Computation(row))

\* The anchor of the past, if nothing was declared before that day, and the change.
DeclaredBy(e, row) ==
    LET since == edit[e].from
        anchored == IF \E d \in DOMAIN change : d < since THEN change
                    ELSE Set(change, Always, Computation(edit[e].copy))
    IN Set(anchored, since, Computation(row))

\* MUTANT: nothing is told of a figure that was outside the law already.
TellsOnlyNews(e, row) ==
    IF "rest" \in Moved(e) /\ OutsideTheLaw(row.rest) /\ ~OutsideTheLaw(edit[e].copy.rest)
    THEN said \cup {row.rest} ELSE said

\* The warnings of the answer, which the trail keeps.
Tells(e, row) ==
    IF "rest" \in Moved(e) /\ OutsideTheLaw(row.rest) THEN said \cup {row.rest} ELSE said

\* serializer.save() writes every column of the copy.
Save(e) ==
    /\ edit[e] # Nothing
    /\ MovesTheCount(e) => edit[e].from # Nothing
    /\ LET row == Edited(edit[e].copy, edit[e].asks) IN
       /\ rules' = row
       /\ source' = edit[e].from_agreement
       /\ change' = IF MovesTheCount(e) THEN DeclaredBy(e, row) ELSE change
       /\ said' = Tells(e, row)
    /\ edit' = [edit EXCEPT ![e] = Nothing]
    /\ UNCHANGED filed

\* apply_to_rules: the columns that move, and whose figure each is.
\* BOUND: one file.
ApplyFile(fixes) ==
    /\ ~filed
    /\ rules' = Edited(rules, fixes)
    /\ source' = source \cup Named(fixes)
    /\ filed' = TRUE
    /\ UNCHANGED <<change, edit, said>>

RulesNext ==
    \/ \E e \in Edits :
         \/ \E asks \in Wanted, from \in Days \cup {Nothing} : Load(e, asks, from)
         \/ Save(e) \/ Refuse(e)
    \/ \E fixes \in Files : ApplyFile(fixes)

RulesSpec == RulesInit /\ [][RulesNext]_rulesVars

-----------------------------------------------------------------------------

RulesTypeOK ==
    /\ rules \in Row
    /\ source \subseteq Figures /\ said \subseteq Rests /\ filed \in BOOLEAN
    /\ DOMAIN change \subseteq Days \cup {Always}
    /\ \A d \in DOMAIN change : change[d] \in Counts
    /\ edit \in [Edits -> EditRow \cup {Nothing}]

\* How a day is counted moves only by a change declared from that day or from an
\* earlier one, in whatever order changes are declared and edits overlap
\* (ComputationRuleChange).  A file of an agreement, which declares no day, is
\* the exception, until the first change is declared.
ClosedDaysStand ==
    [][\A d \in Days : InForce(d)' # InForce(d) =>
         \/ \E e \in Edits : Save(e) /\ MovesTheCount(e) /\ edit[e].from <= d
         \/ DOMAIN change = {} /\ (filed \/ filed')]_rulesVars

\* Whoever puts a figure on the wrong side of an article is told, and the trail
\* says it: also of a figure brought back by an edit that had read the row
\* before another moved it.  The figures of an agreement are told by its article.
OutsideTheLawIsSaid ==
    OutsideTheLaw(rules.rest) => rules.rest \in said \/ "rest" \in source

\* `The figure on screen and the figure in the document are the same day'
\* (reports/services.py:386-389): the screen counts today by the row, the
\* document by what was in force.
ScreenCountsAsTheDocument == InForce(Today) = Computation(rules)
=============================================================================
