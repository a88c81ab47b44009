--------------------------- MODULE CompanyProofs ----------------------------
(***************************************************************************)
(* What is promised of the people of a company and of its figures, for     *)
(* every company, calendar and number of edits that cross: the changes of  *)
(* the figures (DatedRules), where everybody belonged (Placements) and     *)
(* what the review says of their papers (Situations).                      *)
(*                                                                         *)
(* Of the figures: the first change declared anchors the past, so from     *)
(* then on every day finds a change to be counted by, and a later one      *)
(* leaves the last change of an earlier day where it was.  Before it, a    *)
(* copy of the row counts like the row, unless a file has moved it.        *)
(*                                                                         *)
(* Of the people, one on one axis at a time: a step leaves their unit and  *)
(* its history alone, remembers a move, loses a unit that is deleted, or   *)
(* gives a first span to who had none (Placed); the lemmas about Remember  *)
(* say what of the days gone by a move may disturb: nothing that was       *)
(* covered, and nothing new while a span was open.                         *)
(*                                                                         *)
(* Of the review, one check at a time: what is said of a person when       *)
(* everybody is reviewed is said when that person asks alone.  And each    *)
(* month of a period reads the record of the whole period, so a cap that   *)
(* is passed is seen from any month in which something was worked; a       *)
(* part-time contract has hours to pass because nobody may write one       *)
(* without them.                                                           *)
(***************************************************************************)
EXTENDS DatedRules, Placements, Situations, TLAPS, FiniteSetTheorems

-----------------------------------------------------------------------------
(* The figures of a company                                                *)

Loaded(e) == edit[e] # Nothing

\* The past is anchored as soon as anything is declared.
PastIsAnchored == DOMAIN change # {} => Always \in DOMAIN change

\* Until then, and until a file is applied, every copy counts time as the row.
CopiesCountAlike ==
    DOMAIN change = {} /\ ~filed =>
        \A e \in Edits : Loaded(e) => Computation(edit[e].copy) = Computation(rules)

CountInv == RulesTypeOK /\ PastIsAnchored /\ CopiesCountAlike

\* The figure outside the law that a request read had been told, or is the
\* figure of an agreement in what it will write back.
CopiesWereTold ==
    \A e \in Edits : Loaded(e) /\ OutsideTheLaw(edit[e].copy.rest) =>
        edit[e].copy.rest \in said \/ "rest" \in edit[e].from_agreement

ToldInv == RulesTypeOK /\ CopiesWereTold /\ OutsideTheLawIsSaid

-----------------------------------------------------------------------------
(* The last of some days.  The least-number principle by the finite sets    *)
(* below each number, which strict inclusion orders well.                   *)

LEMMA LeastNatural ==
  ASSUME NEW T \in SUBSET Nat, T # {}
  PROVE  \E x \in T : \A y \in T : x <= y
<1> DEFINE Below == {0 .. x : x \in T}
<1>1. Below \subseteq FiniteSubsetsOf(Nat)
  <2>1. \A x \in Nat : 0 .. x \subseteq Nat /\ IsFiniteSet(0 .. x)
    BY FS_Interval
  <2> QED
    BY <2>1 DEF FiniteSubsetsOf
<1>2. PICK s \in Below : \A u \in Below : <<u, s>> \notin StrictSubsetOrdering(Nat)
  <2>1. Below # {}
    OBVIOUS
  <2> HIDE DEF Below
  <2> QED
    BY <1>1, <2>1, WFMin, FS_StrictSubsetOrderingWellFounded
<1>3. PICK x \in T : s = 0 .. x
  OBVIOUS
<1> SUFFICES ASSUME NEW y \in T, y < x PROVE FALSE
  BY <1>3
<1>4. 0 .. y \subseteq 0 .. x /\ 0 .. y # 0 .. x
  OBVIOUS
<1>5. 0 .. y \in Below /\ 0 .. y \in SUBSET Nat /\ 0 .. x \in SUBSET Nat
  OBVIOUS
<1>6. <<0 .. y, 0 .. x>> \in StrictSubsetOrdering(Nat)
  BY <1>4, <1>5 DEF StrictSubsetOrdering
<1> QED
  BY <1>2, <1>3, <1>5, <1>6

LEMMA MaxOfDays ==
  ASSUME NEW n \in Nat, NEW S, S \subseteq -1 .. n, S # {}
  PROVE  Max(S) \in S /\ \A y \in S : Max(S) >= y
<1> DEFINE T == {n - x : x \in S}
<1>1. T \in SUBSET Nat /\ T # {}
  <2>1. \A x \in -1 .. n : n - x \in Nat
    OBVIOUS
  <2> QED
    BY <2>1
<1>2. PICK t \in T : \A u \in T : t <= u
  BY <1>1, LeastNatural
<1>3. PICK x \in S : t = n - x
  OBVIOUS
<1>4. \A y \in S : x >= y
  BY <1>2, <1>3
<1> QED
  BY <1>3, <1>4 DEF Max

-----------------------------------------------------------------------------
(* Types                                                                   *)

LEMMA Constants ==
  ASSUME RulesAssumption
  PROVE  /\ LastDay \in Nat /\ Floor \in Rests /\ DefaultCap \in Caps /\ Floor \in Nat
         /\ Wanted \subseteq Asks /\ Files \subseteq Asks /\ Rests \subseteq Nat
         /\ Same \notin Caps /\ Same \notin Rests /\ Same \notin BOOLEAN
         /\ Nothing \notin Days /\ Nothing \notin EditRow
  BY DEF RulesAssumption

\* A row edited is a row; what is not named stays, and what is named and does
\* not move stays too.
LEMMA EditedRow ==
  ASSUME RulesAssumption, NEW row \in Row, NEW asks \in Asks
  PROVE  /\ Edited(row, asks) \in Row
         /\ \A f \in Figures : Edited(row, asks)[f] = IF asks[f] # Same THEN asks[f] ELSE row[f]
<1>1. \A f \in Figures : Edited(row, asks)[f] = IF asks[f] # Same THEN asks[f] ELSE row[f]
  BY DEF Edited, Named
<1>2. /\ Edited(row, asks).breaks \in BOOLEAN /\ Edited(row, asks).cap \in Caps
      /\ Edited(row, asks).rest \in Rests
  BY <1>1 DEF Row, Asks, Figures
<1>3. Edited(row, asks) = [breaks |-> Edited(row, asks).breaks, cap |-> Edited(row, asks).cap,
                           rest |-> Edited(row, asks).rest]
  BY DEF Edited, Figures
<1> QED
  BY <1>1, <1>2, <1>3 DEF Row

LEMMA CountOfRow == ASSUME NEW row \in Row PROVE Computation(row) \in Counts
  BY DEF Row, Counts, Computation

LEMMA EditFields ==
  ASSUME RulesTypeOK, NEW e \in Edits, Loaded(e)
  PROVE  /\ edit[e] \in EditRow /\ edit[e].copy \in Row /\ edit[e].asks \in Asks
         /\ edit[e].from_agreement \subseteq Figures /\ edit[e].from \in Days \cup {Nothing}
  BY DEF RulesTypeOK, Loaded, EditRow

\* What a change declared leaves.
LEMMA Declaring ==
  ASSUME RulesAssumption, RulesTypeOK, NEW e \in Edits, Loaded(e), edit[e].from \in Days,
         NEW row \in Row
  PROVE  LET since == edit[e].from
             after == DeclaredBy(e, row)
             early == \E d \in DOMAIN change : d < since
         IN /\ DOMAIN after = DOMAIN change \cup {since} \cup (IF early THEN {} ELSE {Always})
            /\ \A d \in DOMAIN after : after[d] \in Counts
            /\ after[since] = Computation(row)
            /\ \A d \in DOMAIN change : d # since /\ (early \/ d # Always) => after[d] = change[d]
            /\ ~early => after[Always] = Computation(edit[e].copy)
<1> DEFINE since == edit[e].from
           early == \E d \in DOMAIN change : d < since
           anchored == IF early THEN change ELSE Set(change, Always, Computation(edit[e].copy))
           after == DeclaredBy(e, row)
<1>1. after = Set(anchored, since, Computation(row))
  BY DEF DeclaredBy
<1>2. since # Always
  BY DEF Days, Always
<1>3. Computation(row) \in Counts /\ Computation(edit[e].copy) \in Counts
  BY CountOfRow, EditFields
<1>4. \A d \in DOMAIN change : change[d] \in Counts
  BY DEF RulesTypeOK
<1>5. CASE early
  <2>1. anchored = change
    BY <1>5
  <2> HIDE DEF since, early, anchored, after
  <2>2. DOMAIN after = DOMAIN change \cup {since} /\ after[since] = Computation(row)
        /\ \A d \in DOMAIN change : d # since => after[d] = change[d]
    BY <1>1, <2>1 DEF Set
  <2>3. \A d \in DOMAIN after : after[d] \in Counts
    BY <1>3, <1>4, <2>2
  <2> QED
    BY <1>5, <2>2, <2>3 DEF since, early, after
<1>6. CASE ~early
  <2>1. anchored = Set(change, Always, Computation(edit[e].copy))
    BY <1>6
  <2> HIDE DEF since, early, anchored, after
  <2>2. /\ DOMAIN anchored = DOMAIN change \cup {Always}
        /\ anchored[Always] = Computation(edit[e].copy)
        /\ \A d \in DOMAIN change : d # Always => anchored[d] = change[d]
    BY <2>1 DEF Set
  <2>3. DOMAIN after = DOMAIN anchored \cup {since} /\ after[since] = Computation(row)
        /\ \A d \in DOMAIN anchored : d # since => after[d] = anchored[d]
    BY <1>1 DEF Set
  <2>4. \A d \in DOMAIN after : after[d] \in Counts
    BY <1>3, <1>4, <2>2, <2>3
  <2> QED
    BY <1>2, <1>6, <2>2, <2>3, <2>4 DEF since, early, after
<1> QED
  BY <1>5, <1>6

LEMMA RulesInitType == ASSUME RulesAssumption, RulesInit PROVE RulesTypeOK
<1>1. rules \in Row
  BY Constants DEF RulesInit, Row
<1>2. DOMAIN change = {}
  BY DEF RulesInit
<1> QED
  BY <1>1, <1>2 DEF RulesInit, RulesTypeOK

LEMMA Saved ==
  ASSUME RulesAssumption, RulesTypeOK, NEW e \in Edits, Save(e)
  PROVE  /\ Loaded(e) /\ edit[e].copy \in Row /\ edit[e].asks \in Asks
         /\ rules' = Edited(edit[e].copy, edit[e].asks) /\ rules' \in Row
         /\ MovesTheCount(e) => edit[e].from \in Days /\ change' = DeclaredBy(e, rules')
         /\ ~MovesTheCount(e) => change' = change
         /\ edit'[e] = Nothing /\ \A f \in Edits \ {e} : edit'[f] = edit[f]
<1>1. Loaded(e)
  BY DEF Save, Loaded
<1>2. edit[e].copy \in Row /\ edit[e].asks \in Asks /\ edit[e].from \in Days \cup {Nothing}
  BY <1>1, EditFields
<1>3. rules' = Edited(edit[e].copy, edit[e].asks) /\ rules' \in Row
  BY <1>2, EditedRow DEF Save
<1>4. /\ MovesTheCount(e) => edit[e].from # Nothing
      /\ change' = IF MovesTheCount(e) THEN DeclaredBy(e, rules') ELSE change
      /\ edit' = [edit EXCEPT ![e] = Nothing]
  BY <1>3 DEF Save
<1> QED
  BY <1>1, <1>2, <1>3, <1>4 DEF RulesTypeOK

\* A save that moves neither of the two counts time as the copy it read.
LEMMA Unmoved ==
  ASSUME RulesAssumption, RulesTypeOK, NEW e \in Edits, Save(e), ~MovesTheCount(e)
  PROVE  Computation(rules') = Computation(edit[e].copy)
<1>1. \A f \in Figures : rules'[f] = IF edit[e].asks[f] # Same THEN edit[e].asks[f]
                                     ELSE edit[e].copy[f]
  BY Saved, EditedRow
<1>2. \A f \in {"breaks", "cap"} : edit[e].asks[f] # Same => edit[e].asks[f] = edit[e].copy[f]
  BY DEF MovesTheCount, Moved, Named, Figures
<1> QED
  BY <1>1, <1>2 DEF Computation, Figures

LEMMA NextRulesType == ASSUME RulesAssumption, RulesTypeOK, [RulesNext]_rulesVars PROVE RulesTypeOK'
<1> USE Constants
<1>1. ASSUME NEW e \in Edits, NEW asks \in Wanted, NEW from \in Days \cup {Nothing},
             Load(e, asks, from)
      PROVE  RulesTypeOK'
  <2> DEFINE row == [copy |-> rules, from_agreement |-> source, asks |-> asks, from |-> from]
  <2>1. row \in EditRow
    BY DEF EditRow, RulesTypeOK
  <2>2. edit' = [edit EXCEPT ![e] = row]
    BY <1>1 DEF Load
  <2> HIDE DEF row
  <2>3. edit' \in [Edits -> EditRow \cup {Nothing}]
    BY <2>1, <2>2 DEF RulesTypeOK
  <2> QED
    BY <1>1, <2>3 DEF Load, RulesTypeOK
<1>2. ASSUME NEW e \in Edits, Refuse(e) PROVE RulesTypeOK'
  BY <1>2 DEF Refuse, RulesTypeOK
<1>3. ASSUME NEW e \in Edits, Save(e) PROVE RulesTypeOK'
  <2>1. rules' \in Row /\ Loaded(e)
    BY <1>3, Saved
  <2>2. source' \subseteq Figures /\ filed' \in BOOLEAN
    BY <1>3, <2>1, EditFields DEF Save, RulesTypeOK
  <2>3. said' \subseteq Rests
    BY <1>3, <2>1, Saved DEF Save, Tells, RulesTypeOK, Row
  <2>4. /\ DOMAIN change' \subseteq Days \cup {Always}
        /\ \A d \in DOMAIN change' : change'[d] \in Counts
    <3>1. CASE MovesTheCount(e)
      <4>1. edit[e].from \in Days /\ change' = DeclaredBy(e, rules')
        BY <1>3, <3>1, Saved
      <4>2. /\ DOMAIN DeclaredBy(e, rules')
                 \subseteq DOMAIN change \cup {edit[e].from} \cup {Always}
            /\ \A d \in DOMAIN DeclaredBy(e, rules') : DeclaredBy(e, rules')[d] \in Counts
        BY <2>1, <4>1, Declaring
      <4> QED
        BY <4>1, <4>2 DEF RulesTypeOK
    <3>2. CASE ~MovesTheCount(e)
      BY <1>3, <3>2, Saved DEF RulesTypeOK
    <3> QED
      BY <3>1, <3>2
  <2>5. edit' \in [Edits -> EditRow \cup {Nothing}]
    BY <1>3 DEF Save, RulesTypeOK
  <2> QED
    BY <2>1, <2>2, <2>3, <2>4, <2>5 DEF RulesTypeOK
<1>4. ASSUME NEW fixes \in Files, ApplyFile(fixes) PROVE RulesTypeOK'
  <2>1. rules' \in Row
    BY <1>4, EditedRow DEF ApplyFile, RulesTypeOK
  <2> QED
    BY <1>4, <2>1 DEF ApplyFile, RulesTypeOK, Named
<1>5. CASE UNCHANGED rulesVars
  BY <1>5 DEF rulesVars, RulesTypeOK
<1> QED
  BY <1>1, <1>2, <1>3, <1>4, <1>5 DEF RulesNext

-----------------------------------------------------------------------------
(* What is told                                                            *)

LEMMA NextTold == ASSUME RulesAssumption, ToldInv, [RulesNext]_rulesVars PROVE ToldInv'
<1> USE DEF ToldInv
<1> RulesTypeOK'
  BY NextRulesType
<1>1. ASSUME NEW e \in Edits, NEW asks \in Wanted, NEW from \in Days \cup {Nothing},
             Load(e, asks, from)
      PROVE  CopiesWereTold' /\ OutsideTheLawIsSaid'
  <2>1. /\ edit'[e] = [copy |-> rules, from_agreement |-> source, asks |-> asks, from |-> from]
        /\ \A f \in Edits \ {e} : edit'[f] = edit[f]
        /\ UNCHANGED <<rules, source, said>>
    BY <1>1 DEF Load, RulesTypeOK
  <2>2. edit'[e].copy = rules /\ edit'[e].from_agreement = source
    BY <2>1
  <2> QED
    BY <2>1, <2>2 DEF CopiesWereTold, Loaded, OutsideTheLawIsSaid
<1>2. ASSUME NEW e \in Edits, Refuse(e) PROVE CopiesWereTold' /\ OutsideTheLawIsSaid'
  BY <1>2 DEF Refuse, CopiesWereTold, Loaded, OutsideTheLawIsSaid, RulesTypeOK
<1>3. ASSUME NEW e \in Edits, Save(e) PROVE CopiesWereTold' /\ OutsideTheLawIsSaid'
  <2>1. /\ Loaded(e) /\ edit[e].copy \in Row /\ edit[e].asks \in Asks
        /\ rules' = Edited(edit[e].copy, edit[e].asks)
        /\ edit'[e] = Nothing /\ \A f \in Edits \ {e} : edit'[f] = edit[f]
    BY <1>3, Saved
  <2>2. source' = edit[e].from_agreement /\ said' = Tells(e, rules') /\ said \subseteq said'
    BY <1>3, <2>1 DEF Save, Tells
  <2>3. rules'.rest = IF edit[e].asks.rest # Same THEN edit[e].asks.rest ELSE edit[e].copy.rest
    BY <2>1, EditedRow DEF Figures
  <2>4. CopiesWereTold'
    BY <2>1, <2>2 DEF CopiesWereTold, Loaded
  <2>5. ASSUME OutsideTheLaw(rules'.rest) PROVE rules'.rest \in said' \/ "rest" \in source'
    <3>1. CASE "rest" \in Moved(e)
      BY <2>2, <2>5, <3>1 DEF Tells
    <3>2. CASE "rest" \notin Moved(e)
      <4>1. rules'.rest = edit[e].copy.rest
        BY <2>3, <3>2 DEF Moved, Named, Figures
      <4> QED
        BY <2>1, <2>2, <2>5, <4>1 DEF CopiesWereTold
    <3> QED
      BY <3>1, <3>2
  <2> QED
    BY <2>4, <2>5 DEF OutsideTheLawIsSaid, OutsideTheLaw
<1>4. ASSUME NEW fixes \in Files, ApplyFile(fixes) PROVE CopiesWereTold' /\ OutsideTheLawIsSaid'
  <2>1. rules'.rest = IF fixes.rest # Same THEN fixes.rest ELSE rules.rest
    BY <1>4, EditedRow, Constants DEF ApplyFile, RulesTypeOK, Figures
  <2>2. source \subseteq source' /\ (fixes.rest # Same => "rest" \in source')
    BY <1>4 DEF ApplyFile, Named, Figures
  <2> QED
    BY <1>4, <2>1, <2>2 DEF ApplyFile, CopiesWereTold, Loaded, OutsideTheLawIsSaid
<1>5. CASE UNCHANGED rulesVars
  BY <1>5 DEF rulesVars, CopiesWereTold, Loaded, OutsideTheLawIsSaid
<1> QED
  BY <1>1, <1>2, <1>3, <1>4, <1>5 DEF RulesNext

-----------------------------------------------------------------------------
(* The days that are closed                                                *)

LEMMA NextCount == ASSUME RulesAssumption, CountInv, [RulesNext]_rulesVars PROVE CountInv'
<1> USE DEF CountInv
<1> RulesTypeOK'
  BY NextRulesType
<1>1. ASSUME NEW e \in Edits, NEW asks \in Wanted, NEW from \in Days \cup {Nothing},
             Load(e, asks, from)
      PROVE  PastIsAnchored' /\ CopiesCountAlike'
  <2>1. /\ edit'[e] = [copy |-> rules, from_agreement |-> source, asks |-> asks, from |-> from]
        /\ \A f \in Edits \ {e} : edit'[f] = edit[f]
        /\ UNCHANGED <<rules, change, filed>>
    BY <1>1 DEF Load, RulesTypeOK
  <2>2. edit'[e].copy = rules
    BY <2>1
  <2> QED
    BY <2>1, <2>2 DEF CopiesCountAlike, Loaded, PastIsAnchored
<1>2. ASSUME NEW e \in Edits, Refuse(e) PROVE PastIsAnchored' /\ CopiesCountAlike'
  BY <1>2 DEF Refuse, CopiesCountAlike, PastIsAnchored, Loaded, RulesTypeOK
<1>3. ASSUME NEW e \in Edits, Save(e), MovesTheCount(e) PROVE PastIsAnchored' /\ CopiesCountAlike'
  <2>1. Loaded(e) /\ edit[e].from \in Days /\ rules' \in Row /\ change' = DeclaredBy(e, rules')
    BY <1>3, Saved
  <2>2. Always \in DOMAIN change'
    <3>1. CASE Always \in DOMAIN change
      <4>1. DOMAIN change \subseteq DOMAIN DeclaredBy(e, rules')
        BY <2>1, Declaring
      <4> QED
        BY <2>1, <3>1, <4>1
    <3>2. CASE DOMAIN change = {}
      BY <2>1, <3>2, Declaring
    <3> QED
      BY <3>1, <3>2 DEF PastIsAnchored
  <2> QED
    BY <2>2 DEF PastIsAnchored, CopiesCountAlike
<1>4. ASSUME NEW e \in Edits, Save(e), ~MovesTheCount(e) PROVE PastIsAnchored' /\ CopiesCountAlike'
  <2>1. /\ Loaded(e) /\ change' = change /\ filed' = filed
        /\ edit'[e] = Nothing /\ \A f \in Edits \ {e} : edit'[f] = edit[f]
    BY <1>4, Saved DEF Save
  <2>2. Computation(rules') = Computation(edit[e].copy)
    BY <1>4, Unmoved
  <2> QED
    BY <2>1, <2>2 DEF PastIsAnchored, CopiesCountAlike, Loaded
<1>5. ASSUME NEW fixes \in Files, ApplyFile(fixes) PROVE PastIsAnchored' /\ CopiesCountAlike'
  BY <1>5 DEF ApplyFile, PastIsAnchored, CopiesCountAlike
<1>6. CASE UNCHANGED rulesVars
  BY <1>6 DEF rulesVars, PastIsAnchored, CopiesCountAlike, Loaded
<1> QED
  BY <1>1, <1>2, <1>3, <1>4, <1>5, <1>6 DEF RulesNext

\* The change a day is counted by, once there is one.
LEMMA LastChange ==
  ASSUME RulesAssumption, RulesTypeOK, PastIsAnchored, DOMAIN change # {}, NEW d \in Days
  PROVE  LET by == {x \in DOMAIN change : x <= d}
         IN  by # {} /\ Max(by) \in by /\ InForce(d) = change[Max(by)]
<1> DEFINE by == {x \in DOMAIN change : x <= d}
<1>1. Always \in by
  BY DEF PastIsAnchored, Always, Days
<1>2. by \subseteq -1 .. LastDay
  BY Constants DEF RulesTypeOK, Always, Days
<1>3. Max(by) \in by
  <2> HIDE DEF by
  <2> QED
    BY <1>1, <1>2, MaxOfDays, Constants
<1> QED
  BY <1>1, <1>3 DEF InForce

\* A change of the row leaves a day alone unless it counts by the row.
LEMMA CountedByTheRow ==
  ASSUME RulesAssumption, CountInv, RulesTypeOK', change' = change, NEW d \in Days,
         InForce(d)' # InForce(d)
  PROVE  DOMAIN change = {} /\ Computation(rules') # Computation(rules)
<1>1. CASE DOMAIN change # {}
  <2>1. {x \in DOMAIN change : x <= d} # {}
    BY <1>1, LastChange DEF CountInv
  <2> QED
    BY <2>1 DEF InForce
<1>2. CASE DOMAIN change = {}
  BY <1>2 DEF InForce
<1> QED
  BY <1>1, <1>2

LEMMA SavesLeaveDays ==
  ASSUME RulesAssumption, CountInv, RulesTypeOK', NEW e \in Edits, Save(e), NEW d \in Days,
         InForce(d)' # InForce(d)
  PROVE  \/ MovesTheCount(e) /\ edit[e].from <= d
         \/ DOMAIN change = {} /\ filed
<1> USE DEF CountInv
<1>1. Loaded(e)
  BY Saved
<1>2. CASE ~MovesTheCount(e)
  <2>1. change' = change
    BY <1>2, Saved
  <2>2. DOMAIN change = {} /\ Computation(rules') # Computation(rules)
    BY <2>1, CountedByTheRow
  <2>3. Computation(rules') = Computation(edit[e].copy)
    BY <1>2, Unmoved
  <2> QED
    BY <1>1, <2>2, <2>3 DEF CopiesCountAlike
<1>3. CASE MovesTheCount(e) /\ edit[e].from > d
  <2> DEFINE by == {x \in DOMAIN change : x <= d}
             later == {x \in DOMAIN change' : x <= d}
  <2>1. edit[e].from \in Days /\ rules' \in Row /\ change' = DeclaredBy(e, rules')
    BY <1>3, Saved
  <2>2. DOMAIN change \subseteq -1 .. LastDay /\ edit[e].from \in Int /\ d \in Int /\ Always = -1
        /\ Always < edit[e].from
    BY <2>1, Constants DEF RulesTypeOK, Days, Always
  <2>3. CASE DOMAIN change # {}
    <3>1. Always \in DOMAIN change
      BY <2>3 DEF PastIsAnchored
    <3>2. \E x \in DOMAIN change : x < edit[e].from
      BY <2>2, <3>1
    <3>3. /\ DOMAIN change' = DOMAIN change \cup {edit[e].from}
          /\ \A x \in DOMAIN change : x # edit[e].from => change'[x] = change[x]
      BY <1>1, <2>1, <3>2, Declaring
    <3>4. later = by
      BY <1>3, <2>2, <3>3
    <3>5. by # {} /\ Max(by) \in by /\ InForce(d) = change[Max(by)]
      BY <2>3, LastChange
    <3>6. InForce(d)' = change'[Max(by)]
      <4>1. InForce(d)' = IF later = {} THEN Computation(rules') ELSE change'[Max(later)]
        BY DEF InForce
      <4> HIDE DEF by, later
      <4> QED
        BY <3>4, <3>5, <4>1
    <3>7. Max(by) # edit[e].from
      <4>1. \A x \in by : x # edit[e].from
        BY <1>3, <2>2
      <4> HIDE DEF by
      <4> QED
        BY <3>5, <4>1
    <3>8. Max(by) \in DOMAIN change
      <4>1. by \subseteq DOMAIN change
        OBVIOUS
      <4> HIDE DEF by
      <4> QED
        BY <3>5, <4>1
    <3> QED
      BY <3>3, <3>5, <3>6, <3>7, <3>8
  <2>4. CASE DOMAIN change = {} /\ ~filed
    <3>1. InForce(d) = Computation(rules) /\ Computation(edit[e].copy) = Computation(rules)
      BY <1>1, <2>4 DEF InForce, CopiesCountAlike
    <3>2. ~\E x \in DOMAIN change : x < edit[e].from
      BY <2>4
    <3>3. DOMAIN change' = {Always, edit[e].from} /\ change'[Always] = Computation(edit[e].copy)
      BY <1>1, <2>1, <2>4, <3>2, Declaring
    <3>4. later = {Always}
      BY <1>3, <2>2, <3>3 DEF Days
    <3>5. Max({Always}) = Always
      BY <2>2 DEF Max
    <3>6. InForce(d)' = IF later = {} THEN Computation(rules') ELSE change'[Max(later)]
      BY DEF InForce
    <3> QED
      BY <3>1, <3>3, <3>4, <3>5, <3>6
  <2> QED
    BY <2>3, <2>4
<1> QED
  BY <1>2, <1>3, Saved DEF RulesTypeOK, Days

-----------------------------------------------------------------------------
(* Theorems                                                                *)

\* Types, for any edits, days and files.
THEOREM RulesTypeCorrect == ASSUME RulesAssumption PROVE RulesSpec => []RulesTypeOK
<1>1. RulesInit => RulesTypeOK
  BY RulesInitType
<1>2. RulesTypeOK /\ [RulesNext]_rulesVars => RulesTypeOK'
  BY NextRulesType
<1> QED
  BY <1>1, <1>2, PTL DEF RulesSpec

\* However edits overlap and bring back what they had read, a figure outside the
\* law has been told or is an agreement's.
THEOREM NoFigureGoesUntold == ASSUME RulesAssumption PROVE RulesSpec => []OutsideTheLawIsSaid
<1>1. RulesInit => ToldInv
  <2> SUFFICES ASSUME RulesInit PROVE CopiesWereTold /\ OutsideTheLawIsSaid
    BY RulesInitType DEF ToldInv
  <2>1. rules.rest = Floor /\ \A e \in Edits : ~Loaded(e)
    BY DEF RulesInit, Loaded
  <2> QED
    BY <2>1, Constants DEF CopiesWereTold, OutsideTheLawIsSaid, OutsideTheLaw
<1>2. ToldInv /\ [RulesNext]_rulesVars => ToldInv'
  BY NextTold
<1> QED
  BY <1>1, <1>2, PTL DEF RulesSpec, ToldInv

\* In whatever order changes are declared and edits overlap, a day is counted
\* otherwise only by a change declared from it or from before it, or by a file
\* applied before any change was declared.
THEOREM ClosedDaysAreSafe == ASSUME RulesAssumption PROVE RulesSpec => ClosedDaysStand
<1> DEFINE Step ==
      \A d \in Days : InForce(d)' # InForce(d) =>
         \/ \E e \in Edits : Save(e) /\ MovesTheCount(e) /\ edit[e].from <= d
         \/ DOMAIN change = {} /\ (filed \/ filed')
<1>1. RulesInit => CountInv
  BY RulesInitType DEF CountInv, RulesInit, PastIsAnchored, CopiesCountAlike, Loaded
<1>2. CountInv /\ [RulesNext]_rulesVars => CountInv'
  BY NextCount
<1>3. ASSUME CountInv, [RulesNext]_rulesVars PROVE [Step]_rulesVars
  <2> SUFFICES ASSUME NEW d \in Days, InForce(d)' # InForce(d)
               PROVE  \/ \E e \in Edits : Save(e) /\ MovesTheCount(e) /\ edit[e].from <= d
                      \/ DOMAIN change = {} /\ (filed \/ filed')
    OBVIOUS
  <2>1. CountInv /\ RulesTypeOK'
    BY <1>3, NextRulesType DEF CountInv
  <2>2. ~UNCHANGED <<rules, change>>
    BY DEF InForce
  <2>3. (\E e \in Edits : Save(e)) \/ \E fixes \in Files : ApplyFile(fixes)
    BY <1>3, <2>2 DEF RulesNext, Load, Refuse, rulesVars
  <2>4. ASSUME NEW e \in Edits, Save(e)
        PROVE  (MovesTheCount(e) /\ edit[e].from <= d) \/ (DOMAIN change = {} /\ filed)
    BY <2>1, <2>4, SavesLeaveDays
  <2>5. ASSUME NEW fixes \in Files, ApplyFile(fixes) PROVE DOMAIN change = {} /\ filed'
    BY <2>1, <2>5, CountedByTheRow DEF ApplyFile
  <2> QED
    BY <2>3, <2>4, <2>5
<1> QED
  BY <1>1, <1>2, <1>3, PTL DEF RulesSpec, ClosedDaysStand

-----------------------------------------------------------------------------
(* Where everybody belongs                                                 *)

Places == Departments \cup Workplaces

-----------------------------------------------------------------------------
(* A history *)

\* What a history is at any time: nothing in it begins after today, all but
\* one of its spans ended before today, and that one is of the current unit.
Kept(kept, now) ==
    /\ kept \subseteq Span
    /\ \A s \in kept : Since(s) <= now /\ (s.to # Nothing => s.to < now)
    /\ \A s, t \in Current(kept) : s = t

UnitsOf(kept) == {s.unit : s \in Current(kept)}

\* Somebody was at u on day d, says the history.
Says(kept, u, d) == \E s \in kept : s.unit = u /\ Covers(s, d, d)

\* And nowhere else, nor twice.
AtMostOnce(kept, d) ==
    \A s, t \in kept : Covers(s, d, d) /\ Covers(t, d, d) => s = t

\* The fields of a span, and the arithmetic of its ends.
LEMMA SpanFacts ==
    ASSUME PlacementsAssumption, NEW s \in Span
    PROVE  /\ s.unit \in Places
           /\ s.from \in Days \cup {Nothing} /\ s.to \in Days \cup {-1, Nothing}
           /\ Since(s) \in Int /\ Since(s) >= -1
           /\ s.to # Nothing => s.to \in Int
           /\ Days \subseteq Nat
  BY DEF PlacementsAssumption, Span, Places, Since, Days

\* The last open span is the open one.
LEMMA TheLastOpen ==
    ASSUME PlacementsAssumption, NEW now \in Days, NEW kept, Kept(kept, now),
           NEW s \in Current(kept)
    PROVE  LastOpen(kept) = s
<1>1. \A x \in Current(kept) : x = s  BY DEF Kept
<1>2. s \in Span  BY DEF Kept, Current
<1>3. Since(s) >= Since(s)  BY <1>2, SpanFacts
<1> QED  BY <1>1, <1>3 DEF LastOpen

\* Closing leaves nothing open, and says the same of the days gone by.
LEMMA Closing ==
    ASSUME PlacementsAssumption, NEW now \in Days, NEW kept, Kept(kept, now)
    PROVE  /\ Kept(Close(kept, now), now) /\ Current(Close(kept, now)) = {}
           /\ \A d \in Days : \A u : d < now => (Says(Close(kept, now), u, d) <=> Says(kept, u, d))
           /\ \A d \in Days : d < now /\ AtMostOnce(kept, d) => AtMostOnce(Close(kept, now), d)
<1>1. CASE Current(kept) = {}
  BY <1>1 DEF Close
<1>2. CASE Current(kept) # {}
  <2> PICK s \in Current(kept) : TRUE  BY <1>2
  <2> DEFINE c == [s EXCEPT !.to = now - 1]
  <2>1. LastOpen(kept) = s  BY TheLastOpen
  <2>2. Close(kept, now) = (kept \ {s}) \cup {c}  BY <1>2, <2>1 DEF Close
  <2>3. s \in Span /\ s \in kept /\ s.to = Nothing  BY DEF Kept, Current
  <2>4. now \in Nat /\ now - 1 \in Days \cup {-1}
    BY DEF Days, PlacementsAssumption
  <2>5. c \in Span  BY <2>3, <2>4 DEF Span
  <2>6. c.to = now - 1 /\ c.from = s.from /\ c.unit = s.unit  BY <2>3 DEF Span
  <2>7. c.to # Nothing  BY <2>4, <2>6 DEF PlacementsAssumption
  <2>8. Since(c) = Since(s)  BY <2>6 DEF Since
  <2>9. c.to < now  BY <2>4, <2>6
  <2>10. \A x \in kept \ {s} : x.to # Nothing  BY <2>3 DEF Kept, Current
  <2> HIDE DEF c
  <2>11. Current(Close(kept, now)) = {}  BY <2>2, <2>7, <2>10 DEF Current
  <2>12. Kept(Close(kept, now), now)
    <3>1. Close(kept, now) \subseteq Span  BY <2>2, <2>5 DEF Kept
    <3>2. \A x \in Close(kept, now) : Since(x) <= now /\ (x.to # Nothing => x.to < now)
      BY <2>2, <2>3, <2>8, <2>9 DEF Kept
    <3> QED  BY <3>1, <3>2, <2>11 DEF Kept
  <2>13. ASSUME NEW d \in Days, NEW u, d < now
         PROVE  Says(Close(kept, now), u, d) <=> Says(kept, u, d)
    <3>1. Covers(c, d, d) <=> Covers(s, d, d)
      <4>1. d \in Int /\ d <= now - 1  BY <2>4, <2>13 DEF Days
      <4> QED  BY <4>1, <2>3, <2>6, <2>7, <2>8 DEF Covers
    <3> QED  BY <3>1, <2>2, <2>3, <2>6 DEF Says
  <2>14. ASSUME NEW d \in Days, d < now, AtMostOnce(kept, d)
         PROVE  AtMostOnce(Close(kept, now), d)
    <3>1. Covers(c, d, d) <=> Covers(s, d, d)
      <4>1. d \in Int /\ d <= now - 1  BY <2>4, <2>14 DEF Days
      <4> QED  BY <4>1, <2>3, <2>6, <2>7, <2>8 DEF Covers
    <3> QED  BY <3>1, <2>2, <2>3, <2>14 DEF AtMostOnce
  <2> QED  BY <2>11, <2>12, <2>13, <2>14
<1> QED  BY <1>1, <1>2

\* After a move the history is open at the new unit, still says what it said
\* of the days gone by, and nothing more of them while somewhere was open.
LEMMA Remembering ==
    ASSUME PlacementsAssumption, NEW now \in Days, NEW kept, Kept(kept, now),
           NEW v \in Places \cup {Nothing}
    PROVE  /\ Kept(Remember(kept, v, now), now)
           /\ UnitsOf(Remember(kept, v, now)) = {v} \ {Nothing}
           /\ Remember(kept, v, now) = {} => v = Nothing
           /\ \A d \in Days : \A u : d < now /\ Says(kept, u, d) => Says(Remember(kept, v, now), u, d)
           /\ Current(kept) # {} =>
                \A d \in Days : d < now /\ AtMostOnce(kept, d) => AtMostOnce(Remember(kept, v, now), d)
<1> Nothing \notin Places  BY DEF PlacementsAssumption, Places
<1>1. CASE AlreadyThere(kept, v)
  <2>1. Remember(kept, v, now) = kept  BY <1>1 DEF Remember
  <2>2. PICK s \in Current(kept) : TRUE  BY <1>1 DEF AlreadyThere
  <2>3. LastOpen(kept) = s  BY <2>2, TheLastOpen
  <2>4. s.unit = v  BY <2>3, <1>1 DEF AlreadyThere
  <2>5. s \in Span  BY <2>2 DEF Current, Kept
  <2>6. v # Nothing  BY <2>4, <2>5, SpanFacts
  <2>7. UnitsOf(kept) = {v}  BY <2>2, <2>4 DEF UnitsOf, Kept
  <2>8. kept # {}  BY <2>2 DEF Current
  <2> QED  BY <2>1, <2>6, <2>7, <2>8
<1>2. CASE ~AlreadyThere(kept, v)
  <2> DEFINE closed == Close(kept, now)
  <2>1. /\ Kept(closed, now) /\ Current(closed) = {}
        /\ \A d \in Days : \A u : d < now => (Says(closed, u, d) <=> Says(kept, u, d))
        /\ \A d \in Days : d < now /\ AtMostOnce(kept, d) => AtMostOnce(closed, d)
    BY Closing
  <2>2. Remember(kept, v, now) = closed \cup Begin(kept, v, now)  BY <1>2 DEF Remember
  <2> HIDE DEF closed
  <2>3. CASE v = Nothing
    <3>1. Remember(kept, v, now) = closed  BY <2>2, <2>3 DEF Begin
    <3> QED  BY <2>1, <2>3, <3>1 DEF UnitsOf
  <2>4. CASE v # Nothing
    <3> DEFINE n == [unit |-> v, from |-> IF Current(kept) = {} THEN Nothing ELSE now,
                     to |-> Nothing]
    <3>1. Remember(kept, v, now) = closed \cup {n}  BY <2>2, <2>4 DEF Begin
    <3>2. n \in Span  BY <2>4 DEF Span, Places
    <3>3. n.to = Nothing /\ n.unit = v
          /\ n.from = (IF Current(kept) = {} THEN Nothing ELSE now)
      OBVIOUS
    <3> HIDE DEF n
    <3>4. now \in Nat /\ now # Nothing  BY DEF Days, PlacementsAssumption
    <3>5. Since(n) <= now  BY <3>3, <3>4 DEF Since
    <3>6. Current(closed \cup {n}) = {n}  BY <2>1, <3>3 DEF Current
    <3>7. Kept(closed \cup {n}, now)
      <4>1. closed \cup {n} \subseteq Span  BY <2>1, <3>2 DEF Kept
      <4>2. \A x \in closed \cup {n} : Since(x) <= now /\ (x.to # Nothing => x.to < now)
        BY <2>1, <3>3, <3>5 DEF Kept
      <4> QED  BY <4>1, <4>2, <3>6 DEF Kept
    <3>8. UnitsOf(closed \cup {n}) = {v}  BY <3>3, <3>6 DEF UnitsOf
    <3>9. ASSUME NEW d \in Days, NEW u, d < now, Says(kept, u, d)
          PROVE  Says(closed \cup {n}, u, d)
      BY <2>1, <3>9 DEF Says
    <3>10. ASSUME Current(kept) # {}, NEW d \in Days, d < now, AtMostOnce(kept, d)
           PROVE  AtMostOnce(closed \cup {n}, d)
      <4>1. Since(n) = now  BY <3>3, <3>4, <3>10 DEF Since
      <4>2. ~Covers(n, d, d)  BY <4>1, <3>4, <3>10 DEF Covers, Days
      <4> QED  BY <4>2, <2>1, <3>10 DEF AtMostOnce
    <3> QED  BY <3>1, <3>7, <3>8, <3>9, <3>10, <2>4
  <2> QED  BY <2>3, <2>4
<1> QED  BY <1>1, <1>2

\* What a deleted unit leaves of a history.
Without(kept, u) == {s \in kept : s.unit # u}

LEMMA Losing ==
    ASSUME PlacementsAssumption, NEW now \in Days, NEW kept, Kept(kept, now), NEW u
    PROVE  /\ Kept(Without(kept, u), now) /\ UnitsOf(Without(kept, u)) = UnitsOf(kept) \ {u}
           /\ \A d \in Days : \A x : x # u => (Says(Without(kept, u), x, d) <=> Says(kept, x, d))
           /\ \A d \in Days : AtMostOnce(kept, d) => AtMostOnce(Without(kept, u), d)
  BY DEF Kept, Current, UnitsOf, Says, AtMostOnce, Without

-----------------------------------------------------------------------------
(* Types *)

LEMMA UnitFacts ==
    ASSUME PlacementsAssumption
    PROVE  /\ Axes = {"department", "workplace"}
           /\ Units["department"] = Departments /\ Units["workplace"] = Workplaces
           /\ \A a \in Axes : Units[a] \subseteq Places /\ Units[a] # {}
           /\ Nothing \notin Places /\ Same \notin Places
  BY DEF PlacementsAssumption, Axes, Units, Places

LEMMA RememberType ==
    ASSUME PlacementsAssumption, NEW now \in Days, NEW kept \in SUBSET Span,
           Kept(kept, now), NEW v \in Places \cup {Nothing}
    PROVE  Remember(kept, v, now) \in SUBSET Span
  BY Remembering DEF Kept

LEMMA InitType ==
    ASSUME PlacementsAssumption, Init
    PROVE  TypeOK
<1>1. ASSUME NEW a \in Axes
      PROVE  (CHOOSE u \in Units[a] : TRUE) \in Units[a]
  BY UnitFacts
<1>2. \A a \in Axes, p \in People : unit[a][p] \in Units[a]
  BY <1>1 DEF Init
<1>3. unit \in [Axes -> [People -> Departments \cup Workplaces \cup {Nothing}]]
  BY <1>1, UnitFacts DEF Init, Places
<1>4. spans \in [Axes -> [People -> SUBSET Span]]
  <2>1. ASSUME NEW a \in Axes, NEW p \in People
        PROVE  [unit |-> unit[a][p], from |-> Nothing, to |-> Nothing] \in Span
    BY <1>2, UnitFacts DEF Span, Places
  <2> QED  BY <2>1 DEF Init
<1>5. today \in Days  BY DEF Init, PlacementsAssumption, Days
<1>6. was \in [Axes -> [People -> [Days -> Departments \cup Workplaces \cup {Nothing}]]]
  BY DEF Init
<1> QED  BY <1>2, <1>3, <1>4, <1>5, <1>6 DEF TypeOK, Init

-----------------------------------------------------------------------------
(* The invariant *)

\* A person on an axis: their history is one, ends in their unit, and is there
\* unless they come from before there was any.
Told(a, p) ==
    /\ Kept(spans[a][p], today)
    /\ spans[a][p] # {} => UnitsOf(spans[a][p]) = {unit[a][p]} \ {Nothing}
    /\ p \notin Undated /\ spans[a][p] = {} => unit[a][p] = Nothing
    /\ unit[a][p] \in exists \cup {Nothing}

\* The days gone by, where they were is what the history says, as long as the
\* unit has not been deleted.
Covered(a, p) ==
    \A d \in Days :
        /\ d >= today => was[a][p][d] = Nothing
        /\ p \notin Undated /\ was[a][p][d] \in exists => Says(spans[a][p], was[a][p][d], d)

\* And says it once, for who was never left without a workplace.
OnlyThere(p) ==
    p \notin Undated \cup bare =>
        \A d \in Days : d < today => AtMostOnce(spans["workplace"][p], d)

HistoryInv ==
    /\ TypeOK
    /\ \A a \in Axes, p \in People : Told(a, p)
    /\ \A a \in Axes, p \in People : Covered(a, p)
    /\ Placeless \subseteq bare
    /\ \A p \in People : OnlyThere(p)

LEMMA InitHistory ==
    ASSUME PlacementsAssumption, Init
    PROVE  HistoryInv
<1>1. TypeOK  BY InitType
<1>2. ASSUME NEW a \in Axes, NEW p \in People  PROVE Told(a, p)
  <2>1. unit[a][p] \in Units[a] /\ unit[a][p] \in exists /\ unit[a][p] # Nothing
    BY UnitFacts DEF Init, Places
  <2>2. CASE p \in Undated
    <3>1. spans[a][p] = {}  BY <2>2 DEF Init
    <3> QED  BY <2>1, <2>2, <3>1 DEF Told, Kept, Current
  <2>3. CASE p \notin Undated
    <3> DEFINE s == [unit |-> unit[a][p], from |-> Nothing, to |-> Nothing]
    <3>1. spans[a][p] = {s}  BY <2>3 DEF Init
    <3>2. s \in Span  BY <2>1, UnitFacts DEF Span, Places
    <3>3. s.unit = unit[a][p] /\ s.from = Nothing /\ s.to = Nothing  OBVIOUS
    <3> HIDE DEF s
    <3>4. today = 0 /\ Since(s) = -1  BY <3>3 DEF Init, Since
    <3>5. Current({s}) = {s}  BY <3>3 DEF Current
    <3>6. Kept({s}, today)  BY <3>2, <3>3, <3>4, <3>5 DEF Kept
    <3>7. UnitsOf({s}) = {unit[a][p]}  BY <3>3, <3>5 DEF UnitsOf
    <3> QED  BY <2>1, <3>1, <3>6, <3>7 DEF Told
  <2> QED  BY <2>2, <2>3
<1>3. ASSUME NEW a \in Axes, NEW p \in People, NEW d \in Days  PROVE was[a][p][d] = Nothing
  BY DEF Init
<1>4. Nothing \notin exists  BY UnitFacts DEF Init, Places
<1>5. \A a \in Axes, p \in People : Covered(a, p)
  BY <1>3, <1>4 DEF Covered
<1>6. \A p \in People : OnlyThere(p)
  BY DEF OnlyThere, Init, Days
<1>7. Placeless = {}
  BY UnitFacts DEF Init, Placeless, Places
<1> QED  BY <1>1, <1>2, <1>5, <1>6, <1>7 DEF HistoryInv

-----------------------------------------------------------------------------
(* What a step does to one person on one axis *)

Stays(a, p) ==
    /\ unit'[a][p] = unit[a][p] /\ spans'[a][p] = spans[a][p]
    /\ exists' \subseteq exists
    /\ unit[a][p] \in exists => unit[a][p] \in exists'

Moves(a, p) ==
    /\ unit'[a][p] \in exists \cup {Nothing}
    /\ spans'[a][p] = Remember(spans[a][p], unit'[a][p], today)
    /\ exists' = exists

Loses(a, p) ==
    \E u \in Units[a] :
        /\ exists' = exists \ {u}
        /\ unit'[a][p] = (IF unit[a][p] = u THEN Nothing ELSE unit[a][p])
        /\ spans'[a][p] = {s \in spans[a][p] : s.unit # u}

Gets(a, p) ==
    /\ spans[a][p] = {} /\ unit[a][p] # Nothing
    /\ spans'[a][p] = {[unit |-> unit[a][p], from |-> Nothing, to |-> Nothing]}
    /\ unit'[a][p] = unit[a][p] /\ exists' = exists

Placed(a, p) == Stays(a, p) \/ Moves(a, p) \/ Loses(a, p) \/ Gets(a, p)

\* A step that is not the end of a day.
Within ==
    /\ \A a \in Axes, p \in People : Placed(a, p)
    /\ today' = today /\ was' = was
    /\ bare \subseteq bare'
    /\ Placeless \subseteq bare => Placeless' \subseteq bare'

\* What the operators of the steps below are given.
Typed == PlacementsAssumption /\ TypeOK /\ \A a \in Axes, p \in People : Told(a, p)

\* An entry of a table of tables, and one that is of the type of its places.
LEMMA RememberTold ==
    ASSUME Typed, NEW a \in Axes, NEW p \in People, NEW v \in Places \cup {Nothing}
    PROVE  Remember(spans[a][p], v, today) \in SUBSET Span
<1>1. spans[a][p] \in SUBSET Span /\ today \in Days  BY DEF Typed, TypeOK
<1>2. Kept(spans[a][p], today)  BY DEF Typed, Told
<1> QED  BY <1>1, <1>2, RememberType DEF Typed

LEMMA ReadFileStep ==
    ASSUME Typed, NEW h \in Hands, NEW p \in People, NEW wish \in Wishes, ReadFile(h, p, wish)
    PROVE  TypeOK' /\ Within
<1>1. ASSUME NEW a \in Axes
      PROVE  (IF wish[a] = Same THEN unit[a][p] ELSE wish[a]) \in Units[a] \cup {Nothing}
  <2>1. unit[a][p] \in Units[a] \cup {Nothing}  BY DEF Typed, TypeOK
  <2>2. wish[a] \in Units[a] \cup {Nothing, Same}  BY UnitFacts DEF Typed, Wishes
  <2> QED  BY <2>1, <2>2
<1>2. (IF wish.active = Same THEN active[p] ELSE wish.active) \in BOOLEAN
  BY DEF Typed, TypeOK, Wishes
<1>3. held' \in [Hands -> File \cup {Nothing}]
  <2> DEFINE at == [a \in Axes |-> IF wish[a] = Same THEN unit[a][p] ELSE wish[a]]
  <2>1. \A a \in Axes : at[a] \in Units[a] \cup {Nothing}  BY <1>1
  <2>2. at \in [Axes -> Departments \cup Workplaces \cup {Nothing}]
    BY <1>1, UnitFacts DEF Typed, Places
  <2>3. [who |-> p, unit |-> at, active |-> IF wish.active = Same THEN active[p] ELSE wish.active]
            \in File
    BY <1>2, <2>1, <2>2 DEF File
  <2> QED  BY <2>3 DEF Typed, TypeOK, ReadFile
<1>4. TypeOK'  BY <1>3 DEF Typed, TypeOK, ReadFile
<1>5. Within  BY DEF ReadFile, Within, Placed, Stays, Placeless
<1> QED  BY <1>4, <1>5

LEMMA SaveFileStep ==
    ASSUME Typed, NEW h \in Hands, SaveFile(h)
    PROVE  TypeOK' /\ Within
<1> DEFINE row == held[h]
<1>1. row \in File  BY DEF Typed, TypeOK, SaveFile
<1>2. row.who \in People /\ row.active \in BOOLEAN
      /\ \A a \in Axes : row.unit[a] \in Units[a] \cup {Nothing} /\ row.unit[a] \in Places \cup {Nothing}
  BY <1>1 DEF File, Places
<1>3. held' \in [Hands -> File \cup {Nothing}]  BY DEF Typed, TypeOK, SaveFile
<1>4. today' = today /\ exists' = exists /\ was' = was /\ runs' = runs /\ bare' = bare \cup Placeless'
  BY DEF SaveFile
<1>5. bare' \subseteq People  BY <1>4 DEF Typed, TypeOK, Placeless
<1>6. CASE \A a \in Axes : row.unit[a] \in exists \cup {Nothing}
  <2>1. /\ unit' = [a \in Axes |-> [unit[a] EXCEPT ![row.who] = row.unit[a]]]
        /\ spans' = [a \in Axes |-> [spans[a] EXCEPT ![row.who] = Remember(@, row.unit[a], today)]]
        /\ active' = [active EXCEPT ![row.who] = row.active]
    BY <1>6 DEF SaveFile
  <2>2. \A a \in Axes : unit[a] \in [People -> Places \cup {Nothing}]
                         /\ spans[a] \in [People -> SUBSET Span]
    BY DEF Typed, TypeOK, Places
  <2> HIDE DEF row
  <2>3. ASSUME NEW a \in Axes, NEW p \in People
        PROVE  /\ unit'[a][p] = (IF p = row.who THEN row.unit[a] ELSE unit[a][p])
               /\ spans'[a][p] = (IF p = row.who THEN Remember(spans[a][p], row.unit[a], today)
                                                ELSE spans[a][p])
    BY <2>1, <2>2
  <2>4. unit' \in [Axes -> [People -> Places \cup {Nothing}]]
    BY <2>1, <2>2, <1>2
  <2>5. ASSUME NEW a \in Axes, NEW p \in People
        PROVE  unit'[a][p] \in Units[a] \cup {Nothing}
    BY <1>2, <2>3 DEF Typed, TypeOK
  <2>6. spans' \in [Axes -> [People -> SUBSET Span]]
    <3>1. \A a \in Axes : Remember(spans[a][row.who], row.unit[a], today) \in SUBSET Span
      BY <1>2, RememberTold
    <3> QED  BY <2>1, <2>2, <3>1
  <2>7. active' \in [People -> BOOLEAN]  BY <2>1, <1>2 DEF Typed, TypeOK
  <2>8. TypeOK'
    BY <1>3, <1>4, <1>5, <2>4, <2>5, <2>6, <2>7 DEF Typed, TypeOK, Places
  <2>9. ASSUME NEW a \in Axes, NEW p \in People  PROVE Placed(a, p)
    <3>1. CASE p = row.who
      BY <3>1, <1>4, <1>6, <2>3 DEF Placed, Moves, row
    <3>2. CASE p # row.who
      BY <3>2, <1>4, <2>3 DEF Placed, Stays
    <3> QED  BY <3>1, <3>2
  <2>10. Within  BY <2>9, <1>4 DEF Within
  <2> QED  BY <2>8, <2>10
<1>7. CASE ~\A a \in Axes : row.unit[a] \in exists \cup {Nothing}
  <2>1. UNCHANGED <<unit, spans, active>>  BY <1>7 DEF SaveFile
  <2>2. TypeOK'  BY <1>3, <1>4, <1>5, <2>1 DEF Typed, TypeOK
  <2>3. Within  BY <1>4, <2>1 DEF Within, Placed, Stays
  <2> QED  BY <2>2, <2>3
<1> QED  BY <1>6, <1>7

LEMMA SetMembersStep ==
    ASSUME Typed, NEW d \in Departments, NEW members \in SUBSET People, SetMembers(d, members)
    PROVE  TypeOK' /\ Within
<1> DEFINE dep  == "department"
           goes == [p \in People |-> IF p \in members THEN d
                                     ELSE IF unit[dep][p] = d THEN Nothing ELSE unit[dep][p]]
           told == [p \in People |-> IF goes[p] # unit[dep][p]
                                     THEN Remember(spans[dep][p], goes[p], today)
                                     ELSE spans[dep][p]]
<1>1. /\ unit' = [unit EXCEPT ![dep] = goes] /\ spans' = [spans EXCEPT ![dep] = told]
      /\ UNCHANGED <<today, exists, active, runs, whole, held, was, bare>> /\ d \in exists
  BY DEF SetMembers
<1>2. dep \in Axes /\ "workplace" \in Axes /\ Units[dep] = Departments
  BY UnitFacts DEF Typed
<1>3. ASSUME NEW p \in People  PROVE goes[p] \in Units[dep] \cup {Nothing}
  BY <1>2 DEF Typed, TypeOK
<1>4. ASSUME NEW p \in People  PROVE goes[p] \in exists \cup {Nothing}
  BY <1>1, <1>2 DEF Typed, Told
<1>5. ASSUME NEW p \in People  PROVE told[p] \in SUBSET Span
  <2>1. goes[p] \in Places \cup {Nothing}  BY <1>2, <1>3 DEF Places
  <2>2. Remember(spans[dep][p], goes[p], today) \in SUBSET Span  BY <1>2, <2>1, RememberTold
  <2>3. spans[dep][p] \in SUBSET Span  BY <1>2 DEF Typed, TypeOK
  <2> QED  BY <2>2, <2>3
<1>6. \A p \in People : told[p] = IF goes[p] # unit[dep][p]
                                  THEN Remember(spans[dep][p], goes[p], today) ELSE spans[dep][p]
  OBVIOUS
<1>7. goes \in [People -> Departments \cup Workplaces \cup {Nothing}] /\ told \in [People -> SUBSET Span]
  BY <1>2, <1>3, <1>5
<1> HIDE DEF goes, told
<1>8. /\ unit' \in [Axes -> [People -> Departments \cup Workplaces \cup {Nothing}]]
      /\ spans' \in [Axes -> [People -> SUBSET Span]]
  BY <1>1, <1>7 DEF Typed, TypeOK
<1>9. ASSUME NEW a \in Axes, NEW p \in People
      PROVE  /\ unit'[a][p] = (IF a = dep THEN goes[p] ELSE unit[a][p])
             /\ spans'[a][p] = (IF a = dep THEN told[p] ELSE spans[a][p])
  BY <1>1 DEF Typed, TypeOK
<1>10. \A a \in Axes, p \in People : unit'[a][p] \in Units[a] \cup {Nothing}
  BY <1>3, <1>9 DEF Typed, TypeOK
<1>11. TypeOK'
  BY <1>1, <1>8, <1>10 DEF Typed, TypeOK
<1>12. ASSUME NEW a \in Axes, NEW p \in People  PROVE Placed(a, p)
  <2>1. CASE a = dep /\ goes[p] # unit[dep][p]
    BY <2>1, <1>1, <1>4, <1>6, <1>9 DEF Placed, Moves
  <2>2. CASE ~(a = dep /\ goes[p] # unit[dep][p])
    BY <2>2, <1>1, <1>6, <1>9 DEF Placed, Stays
  <2> QED  BY <2>1, <2>2
<1>13. Placeless' = Placeless
  BY <1>1, <1>2 DEF Placeless, Typed, TypeOK
<1>14. Within  BY <1>1, <1>12, <1>13 DEF Within
<1> QED  BY <1>11, <1>14

LEMMA SetManagersStep ==
    ASSUME Typed, NEW d \in Departments, NEW managers \in SUBSET Managers,
           SetManagers(d, managers)
    PROVE  TypeOK' /\ Within
<1>1. TypeOK'  BY DEF Typed, TypeOK, SetManagers
<1>2. Within  BY DEF SetManagers, Within, Placed, Stays, Placeless
<1> QED  BY <1>1, <1>2

\* What both deletions do to the files.
LEMMA DeleteStep ==
    ASSUME Typed, NEW a \in Axes, NEW u \in Units[a], Delete(a, u), today' = today
    PROVE  /\ exists' \subseteq Departments \cup Workplaces
           /\ unit' \in [Axes -> [People -> Departments \cup Workplaces \cup {Nothing}]]
           /\ \A b \in Axes, p \in People : unit'[b][p] \in Units[b] \cup {Nothing}
           /\ spans' \in [Axes -> [People -> SUBSET Span]]
           /\ \A b \in Axes, p \in People : Placed(b, p)
           /\ \A b \in Axes \ {a}, p \in People : unit'[b][p] = unit[b][p]
<1> DEFINE rest == [p \in People |-> IF unit[a][p] = u THEN Nothing ELSE unit[a][p]]
           kept == [p \in People |-> {s \in spans[a][p] : s.unit # u}]
<1>1. /\ exists' = exists \ {u} /\ u \in exists
      /\ unit' = [unit EXCEPT ![a] = rest] /\ spans' = [spans EXCEPT ![a] = kept]
  BY DEF Delete, Typed, TypeOK
<1>2. ASSUME NEW p \in People  PROVE rest[p] \in Units[a] \cup {Nothing} /\ kept[p] \in SUBSET Span
  BY DEF Typed, TypeOK
<1>3. rest \in [People -> Departments \cup Workplaces \cup {Nothing}] /\ kept \in [People -> SUBSET Span]
  BY <1>2, UnitFacts DEF Typed, Places
<1>4. \A p \in People : /\ rest[p] = (IF unit[a][p] = u THEN Nothing ELSE unit[a][p])
                        /\ kept[p] = {s \in spans[a][p] : s.unit # u}
  OBVIOUS
<1> HIDE DEF rest, kept
<1>5. ASSUME NEW b \in Axes, NEW p \in People
      PROVE  /\ unit'[b][p] = (IF b = a THEN rest[p] ELSE unit[b][p])
             /\ spans'[b][p] = (IF b = a THEN kept[p] ELSE spans[b][p])
  BY <1>1 DEF Typed, TypeOK
<1>6. /\ unit' \in [Axes -> [People -> Departments \cup Workplaces \cup {Nothing}]]
      /\ spans' \in [Axes -> [People -> SUBSET Span]]
  BY <1>1, <1>3 DEF Typed, TypeOK
<1>7. \A b \in Axes, p \in People : unit'[b][p] \in Units[b] \cup {Nothing}
  BY <1>2, <1>5 DEF Typed, TypeOK
<1>8. ASSUME NEW b \in Axes, NEW p \in People  PROVE Placed(b, p)
  <2>1. CASE b = a
    BY <2>1, <1>1, <1>4, <1>5 DEF Placed, Loses
  <2>2. CASE b # a
    <3>1. u \notin Units[b]
      BY <2>2, UnitFacts DEF Typed, PlacementsAssumption
    <3>2. unit[b][p] # u
      <4>1. u # Nothing  BY UnitFacts DEF Typed
      <4> QED  BY <3>1, <4>1 DEF Typed, TypeOK
    <3> QED  BY <2>2, <3>2, <1>1, <1>5 DEF Placed, Stays
  <2> QED  BY <2>1, <2>2
<1>9. exists' \subseteq Departments \cup Workplaces  BY <1>1 DEF Typed, TypeOK
<1> QED  BY <1>5, <1>6, <1>7, <1>8, <1>9

LEMMA DeleteDepartmentStep ==
    ASSUME Typed, NEW d \in Departments, DeleteDepartment(d)
    PROVE  TypeOK' /\ Within
<1>1. /\ Delete("department", d) /\ runs' = [runs EXCEPT ![d] = {}]
      /\ UNCHANGED <<today, active, whole, held, was, bare>>
  BY DEF DeleteDepartment
<1>2. "department" \in Axes /\ "workplace" \in Axes /\ d \in Units["department"]
  BY UnitFacts DEF Typed
<1>3. /\ exists' \subseteq Departments \cup Workplaces
      /\ unit' \in [Axes -> [People -> Departments \cup Workplaces \cup {Nothing}]]
      /\ \A b \in Axes, p \in People : unit'[b][p] \in Units[b] \cup {Nothing}
      /\ spans' \in [Axes -> [People -> SUBSET Span]]
      /\ \A b \in Axes, p \in People : Placed(b, p)
      /\ \A p \in People : unit'["workplace"][p] = unit["workplace"][p]
  BY <1>1, <1>2, DeleteStep
<1>4. TypeOK'  BY <1>1, <1>3 DEF Typed, TypeOK
<1>5. Within  BY <1>1, <1>3 DEF Within, Placeless
<1> QED  BY <1>4, <1>5

LEMMA DeleteWorkplaceStep ==
    ASSUME Typed, NEW w \in Workplaces, DeleteWorkplace(w)
    PROVE  TypeOK' /\ Within
<1>1. /\ Delete("workplace", w) /\ bare' = bare \cup Placeless'
      /\ UNCHANGED <<today, active, runs, whole, held, was>>
  BY DEF DeleteWorkplace
<1>2. "workplace" \in Axes /\ w \in Units["workplace"]
  BY UnitFacts DEF Typed
<1>3. /\ exists' \subseteq Departments \cup Workplaces
      /\ unit' \in [Axes -> [People -> Departments \cup Workplaces \cup {Nothing}]]
      /\ \A b \in Axes, p \in People : unit'[b][p] \in Units[b] \cup {Nothing}
      /\ spans' \in [Axes -> [People -> SUBSET Span]]
      /\ \A b \in Axes, p \in People : Placed(b, p)
  BY <1>1, <1>2, DeleteStep
<1>4. bare' \subseteq People  BY <1>1 DEF Typed, TypeOK, Placeless
<1>5. TypeOK'  BY <1>1, <1>3, <1>4 DEF Typed, TypeOK
<1>6. Within  BY <1>1, <1>3 DEF Within
<1> QED  BY <1>5, <1>6

LEMMA BackfillStep ==
    ASSUME Typed, Backfill
    PROVE  TypeOK' /\ Within
<1> DEFINE dep  == "department"
           full == [p \in People |->
                       IF spans[dep][p] = {} /\ unit[dep][p] # Nothing
                       THEN {[unit |-> unit[dep][p], from |-> Nothing, to |-> Nothing]}
                       ELSE spans[dep][p]]
<1>1. dep \in Axes /\ Units[dep] = Departments  BY UnitFacts DEF Typed
<1>2. /\ spans' = [spans EXCEPT ![dep] = full]
      /\ UNCHANGED <<today, exists, unit, active, runs, whole, held, was, bare>>
  BY DEF Backfill, Typed, TypeOK
<1>3. ASSUME NEW p \in People  PROVE full[p] \in SUBSET Span
  <2>1. unit[dep][p] \in Departments \cup {Nothing} /\ spans[dep][p] \in SUBSET Span
    BY <1>1 DEF Typed, TypeOK
  <2> QED  BY <2>1 DEF Span
<1>4. full \in [People -> SUBSET Span]  BY <1>3
<1>5. \A p \in People : full[p] = IF spans[dep][p] = {} /\ unit[dep][p] # Nothing
                                  THEN {[unit |-> unit[dep][p], from |-> Nothing, to |-> Nothing]}
                                  ELSE spans[dep][p]
  OBVIOUS
<1> HIDE DEF full
<1>6. spans' \in [Axes -> [People -> SUBSET Span]]  BY <1>2, <1>4 DEF Typed, TypeOK
<1>7. ASSUME NEW a \in Axes, NEW p \in People
      PROVE  spans'[a][p] = (IF a = dep THEN full[p] ELSE spans[a][p])
  BY <1>2 DEF Typed, TypeOK
<1>8. TypeOK'  BY <1>2, <1>6 DEF Typed, TypeOK
<1>9. ASSUME NEW a \in Axes, NEW p \in People  PROVE Placed(a, p)
  <2>1. CASE a = dep /\ spans[dep][p] = {} /\ unit[dep][p] # Nothing
    BY <2>1, <1>2, <1>5, <1>7 DEF Placed, Gets
  <2>2. CASE ~(a = dep /\ spans[dep][p] = {} /\ unit[dep][p] # Nothing)
    <3>1. spans'[a][p] = spans[a][p]  BY <2>2, <1>5, <1>7
    <3> QED  BY <3>1, <1>2 DEF Placed, Stays
  <2> QED  BY <2>1, <2>2
<1>10. Within  BY <1>2, <1>9 DEF Within, Placeless
<1> QED  BY <1>8, <1>10

LEMMA SeeStep ==
    ASSUME Typed, SeeTheWholeCompany
    PROVE  TypeOK' /\ Within
<1>1. TypeOK'  BY DEF Typed, TypeOK, SeeTheWholeCompany
<1>2. Within  BY DEF SeeTheWholeCompany, Within, Placed, Stays, Placeless
<1> QED  BY <1>1, <1>2

LEMMA StutterStep ==
    ASSUME Typed, UNCHANGED vars
    PROVE  TypeOK' /\ Within
<1>1. TypeOK'  BY DEF Typed, TypeOK, vars
<1>2. Within  BY DEF vars, Within, Placed, Stays, Placeless
<1> QED  BY <1>1, <1>2

LEMMA NextDayType ==
    ASSUME Typed, NextDay
    PROVE  TypeOK'
<1>1. today' \in Days
  BY DEF Typed, TypeOK, NextDay, Days, PlacementsAssumption
<1>2. ASSUME NEW a \in Axes, NEW p \in People
      PROVE  [was[a][p] EXCEPT ![today] = unit[a][p]] \in [Days -> Departments \cup Workplaces \cup {Nothing}]
  BY DEF Typed, TypeOK
<1>3. was' \in [Axes -> [People -> [Days -> Departments \cup Workplaces \cup {Nothing}]]]
  BY <1>2 DEF NextDay
<1> QED  BY <1>1, <1>3 DEF Typed, TypeOK, NextDay

\* Every step ends the day or is one of those above.
LEMMA Steps ==
    ASSUME Typed, [Next]_vars
    PROVE  /\ TypeOK'
           /\ NextDay \/ Within
  BY ReadFileStep, SaveFileStep, SetMembersStep, SetManagersStep, DeleteDepartmentStep,
     DeleteWorkplaceStep, BackfillStep, SeeStep, StutterStep, NextDayType
  DEF Next

-----------------------------------------------------------------------------
(* The invariant is kept *)

\* One person on one axis, within a day.
LEMMA ToldWithin ==
    ASSUME Typed, TypeOK', today' = today, NEW a \in Axes, NEW p \in People, Placed(a, p)
    PROVE  Told(a, p)'
<1>1. /\ Kept(spans[a][p], today) /\ today \in Days
      /\ spans[a][p] # {} => UnitsOf(spans[a][p]) = {unit[a][p]} \ {Nothing}
      /\ p \notin Undated /\ spans[a][p] = {} => unit[a][p] = Nothing
      /\ unit[a][p] \in exists \cup {Nothing}
  BY DEF Typed, Told, TypeOK
<1>2. CASE Stays(a, p)
  BY <1>1, <1>2 DEF Stays, Told
<1>3. CASE Moves(a, p)
  <2> DEFINE v == unit'[a][p]
  <2>1. v \in Places \cup {Nothing}  BY <1>3 DEF Moves, Typed, TypeOK, Places
  <2>2. spans'[a][p] = Remember(spans[a][p], v, today) /\ v \in exists' \cup {Nothing}
    BY <1>3 DEF Moves
  <2> HIDE DEF v
  <2>3. /\ Kept(Remember(spans[a][p], v, today), today)
        /\ UnitsOf(Remember(spans[a][p], v, today)) = {v} \ {Nothing}
        /\ Remember(spans[a][p], v, today) = {} => v = Nothing
    BY <1>1, <2>1, Remembering DEF Typed
  <2> QED  BY <2>2, <2>3 DEF Told, v
<1>4. CASE Loses(a, p)
  <2>1. PICK u \in Units[a] :
            /\ exists' = exists \ {u}
            /\ unit'[a][p] = (IF unit[a][p] = u THEN Nothing ELSE unit[a][p])
            /\ spans'[a][p] = Without(spans[a][p], u)
    BY <1>4 DEF Loses, Without
  <2>2. Kept(spans'[a][p], today) /\ UnitsOf(spans'[a][p]) = UnitsOf(spans[a][p]) \ {u}
    BY <1>1, <2>1, Losing DEF Typed
  <2>3. u # Nothing  BY UnitFacts DEF Typed
  <2>4. spans'[a][p] # {} => UnitsOf(spans'[a][p]) = {unit'[a][p]} \ {Nothing}
    <3>1. CASE spans[a][p] = {}  BY <3>1, <2>1 DEF Without
    <3>2. CASE spans[a][p] # {}  BY <3>2, <1>1, <2>1, <2>2, <2>3
    <3> QED  BY <3>1, <3>2
  <2>5. p \notin Undated /\ spans'[a][p] = {} => unit'[a][p] = Nothing
    <3> SUFFICES ASSUME p \notin Undated, spans'[a][p] = {}  PROVE unit'[a][p] = Nothing
      OBVIOUS
    <3>1. CASE spans[a][p] = {}  BY <3>1, <1>1, <2>1
    <3>2. CASE spans[a][p] # {}
      <4>1. UnitsOf(spans'[a][p]) = {}  BY DEF UnitsOf, Current
      <4> QED  BY <4>1, <3>2, <1>1, <2>1, <2>2
    <3> QED  BY <3>1, <3>2
  <2>6. unit'[a][p] \in exists' \cup {Nothing}  BY <1>1, <2>1
  <2> QED  BY <2>2, <2>4, <2>5, <2>6 DEF Told
<1>5. CASE Gets(a, p)
  <2> DEFINE s == [unit |-> unit[a][p], from |-> Nothing, to |-> Nothing]
  <2>1. /\ spans'[a][p] = {s} /\ unit'[a][p] = unit[a][p] /\ exists' = exists
        /\ unit[a][p] # Nothing
    BY <1>5 DEF Gets
  <2>2. s \in Span  BY <1>1, <2>1 DEF Span, Typed, TypeOK
  <2>3. s.unit = unit[a][p] /\ s.from = Nothing /\ s.to = Nothing  OBVIOUS
  <2> HIDE DEF s
  <2>4. Since(s) <= today  BY <1>1, <2>3 DEF Since, Days
  <2>5. Current({s}) = {s}  BY <2>3 DEF Current
  <2>6. Kept({s}, today)  BY <2>2, <2>3, <2>4, <2>5 DEF Kept
  <2>7. UnitsOf({s}) = {unit[a][p]}  BY <2>3, <2>5 DEF UnitsOf
  <2> QED  BY <1>1, <2>1, <2>6, <2>7 DEF Told
<1> QED  BY <1>2, <1>3, <1>4, <1>5 DEF Placed

LEMMA CoveredWithin ==
    ASSUME Typed, today' = today, was' = was, NEW a \in Axes, NEW p \in People,
           Placed(a, p), Covered(a, p)
    PROVE  Covered(a, p)'
<1> SUFFICES ASSUME NEW d \in Days, p \notin Undated, was[a][p][d] \in exists'
             PROVE  Says(spans'[a][p], was[a][p][d], d)
  BY DEF Covered
<1>1. Kept(spans[a][p], today) /\ today \in Days  BY DEF Typed, Told, TypeOK
<1>2. exists' \subseteq exists  BY DEF Placed, Stays, Moves, Loses, Gets
<1>3. Says(spans[a][p], was[a][p][d], d)  BY <1>2 DEF Covered
<1>4. Nothing \notin exists  BY UnitFacts DEF Typed, TypeOK, Places
<1>5. d < today
  <2>1. ~(d >= today)  BY <1>2, <1>4 DEF Covered
  <2> QED  BY <2>1, <1>1 DEF Days
<1>6. CASE Stays(a, p)  BY <1>3, <1>6 DEF Stays
<1>7. CASE Moves(a, p)
  <2>1. unit'[a][p] \in Places \cup {Nothing}  BY <1>7 DEF Moves, Typed, TypeOK, Places
  <2> QED  BY <1>1, <1>3, <1>5, <1>7, <2>1, Remembering DEF Moves, Typed
<1>8. CASE Loses(a, p)
  <2>1. PICK u \in Units[a] : exists' = exists \ {u} /\ spans'[a][p] = Without(spans[a][p], u)
    BY <1>8 DEF Loses, Without
  <2> QED  BY <1>1, <1>3, <2>1, Losing DEF Typed
<1>9. CASE Gets(a, p)
  BY <1>3, <1>9 DEF Gets, Says
<1> QED  BY <1>6, <1>7, <1>8, <1>9 DEF Placed

LEMMA OnlyThereWithin ==
    ASSUME Typed, today' = today, bare \subseteq bare', Placeless \subseteq bare,
           NEW p \in People, Placed("workplace", p), OnlyThere(p)
    PROVE  OnlyThere(p)'
<1> DEFINE a == "workplace"
<1> SUFFICES ASSUME p \notin Undated \cup bare', NEW d \in Days, d < today
             PROVE  AtMostOnce(spans'[a][p], d)
  BY DEF OnlyThere
<1>1. a \in Axes  BY DEF Axes
<1>2. Kept(spans[a][p], today) /\ today \in Days  BY <1>1 DEF Typed, Told, TypeOK
<1>3. AtMostOnce(spans[a][p], d)  BY DEF OnlyThere
<1>4. unit[a][p] # Nothing  BY DEF Placeless
<1>5. Current(spans[a][p]) # {}
  BY <1>1, <1>4 DEF Typed, Told, UnitsOf
<1>6. CASE Stays(a, p)  BY <1>3, <1>6 DEF Stays
<1>7. CASE Moves(a, p)
  <2>1. unit'[a][p] \in Places \cup {Nothing}  BY <1>7 DEF Moves, Typed, TypeOK, Places
  <2> QED  BY <1>2, <1>3, <1>5, <1>7, <2>1, Remembering DEF Moves, Typed
<1>8. CASE Loses(a, p)
  <2>1. PICK v \in Units[a] : spans'[a][p] = Without(spans[a][p], v)
    BY <1>8 DEF Loses, Without
  <2> QED  BY <1>2, <1>3, <2>1, Losing DEF Typed
<1>9. CASE Gets(a, p)
  BY <1>9, <1>5 DEF Gets, Current
<1> QED  BY <1>6, <1>7, <1>8, <1>9 DEF Placed

\* The end of a day: what is open goes on covering it, and today is the day it
\* was until it is written down.
LEMMA DayEnds ==
    ASSUME Typed, NextDay, TypeOK', NEW a \in Axes, NEW p \in People, Covered(a, p)
    PROVE  /\ Told(a, p)' /\ Covered(a, p)'
           /\ a = "workplace" /\ OnlyThere(p) => OnlyThere(p)'
<1>1. /\ today' = today + 1
      /\ UNCHANGED <<exists, unit, spans, active, runs, whole, held, bare, left>>
      /\ \A d \in Days : was'[a][p][d] = (IF d = today THEN unit[a][p] ELSE was[a][p][d])
  BY DEF NextDay, Typed, TypeOK
<1>2. /\ Kept(spans[a][p], today) /\ today \in Nat /\ today' \in Nat
      /\ spans[a][p] # {} => UnitsOf(spans[a][p]) = {unit[a][p]} \ {Nothing}
      /\ p \notin Undated /\ spans[a][p] = {} => unit[a][p] = Nothing
      /\ unit[a][p] \in exists \cup {Nothing}
  <2>1. today \in Days /\ today' \in Days /\ Told(a, p)  BY DEF Typed, TypeOK
  <2> QED  BY <2>1 DEF Told, Days
<1>3. \A s \in spans[a][p] : /\ s \in Span /\ Since(s) \in Int
                             /\ s.to # Nothing => s.to \in Int
  BY <1>2, SpanFacts DEF Kept, Typed
<1>4. Kept(spans[a][p], today')
  <2>1. \A s \in spans[a][p] : Since(s) <= today' /\ (s.to # Nothing => s.to < today')
    BY <1>1, <1>2, <1>3 DEF Kept
  <2> QED  BY <1>2, <2>1 DEF Kept
<1>5. Told(a, p)'  BY <1>1, <1>2, <1>4 DEF Told
<1>6. Nothing \notin exists  BY UnitFacts DEF Typed, TypeOK, Places
\* Today, the span that is open covers it and no other does.
<1>7. ASSUME NEW s \in spans[a][p]
      PROVE  Covers(s, today, today) <=> s.to = Nothing
  BY <1>2, <1>3 DEF Kept, Covers
<1>8. ASSUME NEW d \in Days
      PROVE  /\ d >= today' => was'[a][p][d] = Nothing
             /\ p \notin Undated /\ was'[a][p][d] \in exists => Says(spans[a][p], was'[a][p][d], d)
  <2>1. CASE d = today
    <3>1. ~(d >= today') /\ was'[a][p][d] = unit[a][p]  BY <1>1, <1>2, <2>1
    <3>2. ASSUME p \notin Undated, unit[a][p] \in exists
          PROVE  Says(spans[a][p], unit[a][p], d)
      <4>1. unit[a][p] \in UnitsOf(spans[a][p])  BY <1>2, <1>6, <3>2
      <4>2. PICK s \in spans[a][p] : s.to = Nothing /\ s.unit = unit[a][p]
        BY <4>1 DEF UnitsOf, Current
      <4> QED  BY <1>7, <2>1, <4>2 DEF Says
    <3> QED  BY <3>1, <3>2
  <2>2. CASE d # today
    <3>1. was'[a][p][d] = was[a][p][d]  BY <1>1, <2>2
    <3>2. d >= today' => d >= today  BY <1>1, <1>2 DEF Days
    <3> QED  BY <3>1, <3>2 DEF Covered
  <2> QED  BY <2>1, <2>2
<1>9. Covered(a, p)'  BY <1>1, <1>8 DEF Covered
<1>10. ASSUME a = "workplace", OnlyThere(p), p \notin Undated \cup bare, NEW d \in Days, d < today'
       PROVE  AtMostOnce(spans[a][p], d)
  <2>1. CASE d = today
    BY <1>2, <1>7, <2>1 DEF AtMostOnce, Kept, Current
  <2>2. CASE d # today
    <3>1. d < today  BY <1>1, <1>2, <1>10, <2>2 DEF Days
    <3> QED  BY <1>10, <3>1 DEF OnlyThere
  <2> QED  BY <2>1, <2>2
<1>11. a = "workplace" /\ OnlyThere(p) => OnlyThere(p)'
  BY <1>1, <1>10 DEF OnlyThere
<1> QED  BY <1>5, <1>9, <1>11

LEMMA StepHistory ==
    ASSUME PlacementsAssumption, HistoryInv, [Next]_vars
    PROVE  HistoryInv'
<1>1. Typed  BY DEF Typed, HistoryInv
<1>2. TypeOK' /\ (NextDay \/ Within)  BY <1>1, Steps
<1>3. CASE Within
  <2>1. /\ today' = today /\ was' = was /\ bare \subseteq bare'
        /\ \A a \in Axes, p \in People : Placed(a, p)
        /\ Placeless' \subseteq bare'
    BY <1>3 DEF Within, HistoryInv
  <2>2. \A a \in Axes, p \in People : Told(a, p)'  BY <1>1, <1>2, <2>1, ToldWithin
  <2>3. \A a \in Axes, p \in People : Covered(a, p)'
    BY <1>1, <2>1, CoveredWithin DEF HistoryInv
  <2>4. \A p \in People : OnlyThere(p)'
    <3>1. "workplace" \in Axes  BY DEF Axes
    <3> QED  BY <1>1, <2>1, <3>1, OnlyThereWithin DEF HistoryInv
  <2> QED  BY <1>2, <2>1, <2>2, <2>3, <2>4 DEF HistoryInv
<1>4. CASE NextDay
  <2>1. \A a \in Axes, p \in People : Told(a, p)' /\ Covered(a, p)'
    BY <1>1, <1>2, <1>4, DayEnds DEF HistoryInv
  <2>2. \A p \in People : OnlyThere(p)'
    <3>1. "workplace" \in Axes  BY DEF Axes
    <3> QED  BY <1>1, <1>2, <1>4, <3>1, DayEnds DEF HistoryInv
  <2>3. Placeless' \subseteq bare'
    BY <1>4 DEF NextDay, Placeless, HistoryInv
  <2> QED  BY <1>2, <2>1, <2>2, <2>3 DEF HistoryInv
<1> QED  BY <1>2, <1>3, <1>4

LEMMA HistoryAlways == ASSUME PlacementsAssumption PROVE Spec => []HistoryInv
<1>1. Init => HistoryInv  BY InitHistory
<1>2. HistoryInv /\ [Next]_vars => HistoryInv'  BY StepHistory
<1> QED  BY <1>1, <1>2, PTL DEF Spec

-----------------------------------------------------------------------------
(* The theorems *)

\* Every state is one the columns and rows of the source can hold.
THEOREM TypeCorrect == ASSUME PlacementsAssumption PROVE Spec => []TypeOK
<1>1. HistoryInv => TypeOK  BY DEF HistoryInv
<1> QED  BY <1>1, HistoryAlways, PTL

\* However saves of a file, members and deletions cross, the open span of a
\* history is the unit the file says.
THEOREM TheHistoryFollows == ASSUME PlacementsAssumption PROVE Spec => []HistoryFollowsTheFile
<1>1. HistoryInv => HistoryFollowsTheFile
  BY DEF HistoryInv, Told, UnitsOf, HistoryFollowsTheFile
<1> QED  BY <1>1, HistoryAlways, PTL

\* The report of a department, for any window, has everybody who ended a day of
\* it there.
THEOREM TheReportHasEverybody ==
    ASSUME PlacementsAssumption PROVE Spec => []NobodyIsMissingFromTheReport
<1>1. ASSUME HistoryInv  PROVE NobodyIsMissingFromTheReport
  <2> DEFINE dep == "department"
  <2>1. SUFFICES ASSUME NEW p \in People \ Undated, NEW w \in Reports, NEW d \in Days,
                        d \in w.first .. w.last, was[dep][p][d] \in exists
                 PROVE  p \in PeopleIn(dep, was[dep][p][d], w.first, w.last)
    BY DEF NobodyIsMissingFromTheReport
  <2>2. dep \in Axes /\ p \in People  BY DEF Axes
  <2>3. Says(spans[dep][p], was[dep][p][d], d)
    BY <1>1, <2>1, <2>2 DEF HistoryInv, Covered
  <2>4. PICK s \in spans[dep][p] : s.unit = was[dep][p][d] /\ Covers(s, d, d)
    BY <2>3 DEF Says
  <2>5. s \in Span  BY <1>1, <2>2 DEF HistoryInv, Told, Kept
  <2>6. w.first \in Int /\ w.last \in Int /\ d \in Int /\ w.first <= d /\ d <= w.last
    BY <2>1 DEF PlacementsAssumption, Days
  <2>7. Covers(s, w.first, w.last)
    BY <2>4, <2>5, <2>6, SpanFacts DEF Covers
  <2> QED  BY <2>2, <2>4, <2>7 DEF PeopleIn
<1> QED  BY <1>1, HistoryAlways, PTL

\* A move recorded later does not change the local holidays of a closed day.
THEOREM HolidaysStayClosed ==
    ASSUME PlacementsAssumption PROVE Spec => []ClosedDaysKeepTheirHolidays
<1>1. ASSUME HistoryInv  PROVE ClosedDaysKeepTheirHolidays
  <2> DEFINE wp == "workplace"
  <2>1. SUFFICES ASSUME NEW p \in People \ Undated, NEW d \in 0 .. today - 1,
                        p \notin bare, was[wp][p][d] \in exists
                 PROVE  d \in HolidaysFor(p, 0 .. today - 1)
                          <=> <<was[wp][p][d], d>> \in LocalHolidays
    BY DEF ClosedDaysKeepTheirHolidays
  <2>2. wp \in Axes /\ p \in People  BY DEF Axes
  <2>3. today \in Days /\ today \in Nat /\ d \in Days /\ d < today
    BY <1>1, <2>1 DEF HistoryInv, TypeOK, Days, PlacementsAssumption
  <2>4. Says(spans[wp][p], was[wp][p][d], d)
    BY <1>1, <2>1, <2>2, <2>3 DEF HistoryInv, Covered
  <2>5. PICK s \in spans[wp][p] : s.unit = was[wp][p][d] /\ Covers(s, d, d)
    BY <2>4 DEF Says
  <2>6. AtMostOnce(spans[wp][p], d)
    BY <1>1, <2>1, <2>2, <2>3 DEF HistoryInv, OnlyThere
  <2>7. {x \in spans[wp][p] : Covers(x, d, d)} = {s}
    BY <2>5, <2>6 DEF AtMostOnce
  <2>8. s \in Span  BY <1>1, <2>2 DEF HistoryInv, Told, Kept
  <2>9. {x \in {s} : \A y \in {s} : Since(x) >= Since(y)} = {s}
    BY <2>8, SpanFacts
  <2>10. WorkplacesOn(p, d) = {s.unit}
    BY <2>5, <2>7, <2>9 DEF WorkplacesOn
  <2> QED  BY <2>1, <2>5, <2>10 DEF HolidaysFor
<1> QED  BY <1>1, HistoryAlways, PTL

\* Who is taken off a department reads no more for it, while anybody answers
\* for one.
THEOREM LosingNarrows == ASSUME PlacementsAssumption PROVE Spec => LosingADepartmentNarrows
<1>1. ASSUME HistoryInv, [Next]_vars, NEW p \in Managers, TakenOff(p), ScopingInUse'
      PROVE  VisiblePeople(p)' \subseteq VisiblePeople(p)
  <2>1. PICK d \in Departments : p \in runs[d] \ runs'[d]  BY <1>1 DEF TakenOff
  <2>2. /\ unit \in [Axes -> [People -> Departments \cup Workplaces \cup {Nothing}]]
        /\ runs \in [Departments -> SUBSET Managers] /\ "department" \in Axes
    BY <1>1, UnitFacts DEF HistoryInv, TypeOK
  <2>3. /\ whole' = whole
        /\ \A e \in Departments : p \in runs'[e] => p \in runs[e]
        /\ \A q \in People : unit'["department"][q] \in {unit["department"][q], Nothing}
    <3>1. ASSUME NEW e \in Departments, NEW managers \in SUBSET Managers, SetManagers(e, managers)
          PROVE  /\ whole' = whole /\ unit' = unit
                 /\ \A x \in Departments : p \in runs'[x] => p \in runs[x]
      <4>1. runs' = [runs EXCEPT ![e] = managers] /\ whole' = whole /\ unit' = unit
        BY <3>1 DEF SetManagers
      <4>2. d = e /\ p \notin managers  BY <2>1, <2>2, <4>1
      <4> QED  BY <2>2, <4>1, <4>2
    <3>2. ASSUME NEW e \in Departments, DeleteDepartment(e)
          PROVE  /\ whole' = whole
                 /\ \A x \in Departments : p \in runs'[x] => p \in runs[x]
                 /\ \A q \in People : unit'["department"][q] \in {unit["department"][q], Nothing}
      BY <2>2, <3>2 DEF DeleteDepartment, Delete
    <3>3. CASE runs' = runs  BY <2>1, <3>3
    <3>4. (\E e \in Departments, managers \in SUBSET Managers : SetManagers(e, managers))
            \/ (\E e \in Departments : DeleteDepartment(e)) \/ runs' = runs
      BY <1>1 DEF Next, vars, ReadFile, SaveFile, SetMembers, DeleteWorkplace, Backfill,
                  SeeTheWholeCompany, NextDay
    <3> QED  BY <3>1, <3>2, <3>3, <3>4
  <2>4. ManagedBy(p)' \subseteq ManagedBy(p) /\ ManagedBy(p) # {}
    BY <2>1, <2>3 DEF ManagedBy
  <2>5. Nothing \notin Departments  BY DEF PlacementsAssumption
  <2>6. InDepartmentOf(p)' \subseteq InDepartmentOf(p)
    BY <2>3, <2>4, <2>5 DEF InDepartmentOf, ManagedBy
  <2>7. p \in InDepartmentOf(p)  BY DEF InDepartmentOf
  <2> QED  BY <1>1, <2>3, <2>4, <2>6, <2>7 DEF VisiblePeople
<1>2. HistoryInv /\ [Next]_vars =>
        [\A p \in Managers : (TakenOff(p) /\ ScopingInUse') => VisiblePeople(p)' \subseteq VisiblePeople(p)]_vars
  BY <1>1
<1> QED  BY <1>2, HistoryAlways, PTL DEF Spec, LosingADepartmentNarrows

-----------------------------------------------------------------------------
(* The papers of each person                                               *)

LEMMA MergedType ==
  ASSUME SituationsAssumption, NEW row \in Petition, NEW wish \in PetitionWishes
  PROVE  Merged(row, wish) \in Petition
<1>1. wish \in Wish
  BY DEF SituationsAssumption
<1>2. /\ wish.asked # Untouched => wish.asked \in Calendar
      /\ wish.status # Untouched => wish.status \in Statuses
      /\ wish.answered # Untouched => wish.answered \in Calendar \cup {Blank}
      /\ wish.reason # Untouched => wish.reason \in BOOLEAN
  BY <1>1 DEF Wish
<1> QED
  BY <1>2 DEF Merged, Brings, Petition

\* What a request that edits a petition is about to save.
LEMMA DraftedType ==
  ASSUME SituationsAssumption, SituationsTypeOK, NEW q \in Petitions, petition[q] # Blank,
         NEW wish \in PetitionWishes
  PROVE  [Merged(petition[q], wish) EXCEPT !.by = IF wish.status \in Resolved THEN "ADMIN" ELSE @]
             \in Petition
<1>1. petition[q] \in Petition
  BY DEF SituationsTypeOK
<1>2. Merged(petition[q], wish) \in Petition
  BY <1>1, MergedType
<1> QED
  BY <1>2 DEF Petition

LEMMA SituationsInitType == ASSUME SituationsAssumption, SituationsInit PROVE SituationsTypeOK
<1>1. PICK c \in Contracts : contract = [p \in Persons |-> c]
  BY DEF SituationsInit
<1>2. c \in Contract /\ Turns \in Nat
  BY DEF SituationsAssumption
<1> QED
  BY <1>1, <1>2 DEF SituationsInit, SituationsTypeOK

\* A part-time contract says how many hours: nothing else is written.
PartTimeHasHours == \A p \in Persons : contract[p].regime = "PART_TIME" => contract[p].hours # Blank

SituationsInv == SituationsTypeOK /\ PartTimeHasHours

LEMMA SituationsInitInv == ASSUME SituationsAssumption, SituationsInit PROVE SituationsInv
BY SituationsInitType DEF SituationsInit, SituationsInv, PartTimeHasHours

LEMMA TurnType == ASSUME SituationsAssumption, SituationsInv, Turn PROVE turns' \in 0 .. Turns
BY DEF SituationsAssumption, SituationsInv, SituationsTypeOK, Turn

LEMMA ContractsStay == ASSUME SituationsInv, UNCHANGED contract PROVE PartTimeHasHours'
BY DEF SituationsInv, PartTimeHasHours

LEMMA WriteContractInv ==
  ASSUME SituationsAssumption, SituationsInv, NEW p \in Persons, NEW c \in Contracts,
         NEW who \in Persons \cup {Blank}, WriteContract(p, c, who)
  PROVE  SituationsInv'
<1>1. c \in Contract
  BY DEF SituationsAssumption
<1>2. SituationsTypeOK'
  BY <1>1, TurnType DEF SituationsInv, SituationsTypeOK, WriteContract
<1>3. PartTimeHasHours'
  BY DEF SituationsInv, SituationsTypeOK, PartTimeHasHours, WriteContract, Writable
<1> QED
  BY <1>2, <1>3 DEF SituationsInv

LEMMA DeactivateInv ==
  ASSUME SituationsAssumption, SituationsInv, NEW p \in Persons, NEW d \in Calendar, Deactivate(p, d)
  PROVE  SituationsInv'
<1> DEFINE ended == [contract[p] EXCEPT !.end = IF @ = Open \/ @ > d THEN d ELSE @]
<1>1. contract' = [contract EXCEPT ![p] = ended]
  BY DEF Deactivate
<1>2. contract[p] \in Contract
  BY DEF SituationsInv, SituationsTypeOK
<1>3. ended \in Contract /\ ended.regime = contract[p].regime /\ ended.hours = contract[p].hours
  BY <1>2 DEF Contract
<1> HIDE DEF ended
<1>4. SituationsTypeOK'
  BY <1>1, <1>3, TurnType DEF SituationsInv, SituationsTypeOK, Deactivate
<1>5. PartTimeHasHours'
  BY <1>1, <1>3 DEF SituationsInv, SituationsTypeOK, PartTimeHasHours
<1> QED
  BY <1>4, <1>5 DEF SituationsInv

LEMMA WorkInv ==
  ASSUME SituationsAssumption, SituationsInv, NEW p \in Persons, NEW d \in BusyDays, NEW span \in Spans,
         Work(p, d, span)
  PROVE  SituationsInv'
<1>1. d \in Calendar /\ span \in [kind : {"WORK", "REMOTE", "STANDBY", "NONE"}, hours : Nat]
  BY DEF SituationsAssumption
<1> QED
  BY <1>1, TurnType, ContractsStay DEF SituationsInv, SituationsTypeOK, Work

LEMMA ReduceInv ==
  ASSUME SituationsAssumption, SituationsInv, NEW r \in Rows, NEW c \in Cuts, Reduce(r, c)
  PROVE  SituationsInv'
<1>1. c \in Cut
  BY DEF SituationsAssumption
<1> QED
  BY <1>1, TurnType, ContractsStay DEF SituationsInv, SituationsTypeOK, Reduce

LEMMA AskInv ==
  ASSUME SituationsAssumption, SituationsInv, NEW q \in Petitions, NEW p \in Persons,
         NEW wish \in PetitionWishes, Ask(q, p, wish)
  PROVE  SituationsInv'
<1> DEFINE blank == [who |-> p, asked |-> 0, status |-> "PENDING", answered |-> Blank,
                     reason |-> FALSE, by |-> Blank]
<1>1. blank \in Petition
  BY DEF SituationsAssumption, Petition, Calendar, Statuses
<1>2. Merged(blank, wish) \in Petition
  BY <1>1, MergedType
<1>3. petition' = [petition EXCEPT ![q] = Merged(blank, wish)]
  BY DEF Ask
<1> HIDE DEF blank
<1> QED
  BY <1>2, <1>3, TurnType, ContractsStay DEF SituationsInv, SituationsTypeOK, Ask

LEMMA ReadPetitionInv ==
  ASSUME SituationsAssumption, SituationsInv, NEW h \in Requests, NEW q \in Petitions, NEW by,
         NEW wish \in PetitionWishes, ReadPetition(h, q, by, wish)
  PROVE  SituationsInv'
<1> DEFINE row == [Merged(petition[q], wish) EXCEPT !.by = IF wish.status \in Resolved THEN "ADMIN" ELSE @]
<1>1. row \in Petition
  BY DraftedType DEF SituationsInv, ReadPetition
<1>2. draft' = [draft EXCEPT ![h] = [id |-> q, row |-> row]]
  BY DEF ReadPetition
<1>3. [id |-> q, row |-> row] \in [id : Petitions, row : Petition]
  BY <1>1
<1> HIDE DEF row
<1>4. draft' \in [Requests -> [id : Petitions, row : Petition] \cup [id : Papers, row : Paper] \cup {Blank}]
  BY <1>2, <1>3 DEF SituationsInv, SituationsTypeOK
<1>5. Turn /\ UNCHANGED <<contract, engaged, relieves, worked, cut, petition, paper>>
  BY DEF ReadPetition
<1> QED
  BY <1>4, <1>5, TurnType, ContractsStay DEF SituationsInv, SituationsTypeOK

LEMMA SavePetitionInv ==
  ASSUME SituationsAssumption, SituationsInv, NEW h \in Requests, SavePetition(h)
  PROVE  SituationsInv'
<1>1. draft[h].id \in Petitions /\ draft[h].row \in Petition
  BY DEF SituationsAssumption, SituationsInv, SituationsTypeOK, SavePetition
<1> QED
  BY <1>1, ContractsStay DEF SituationsInv, SituationsTypeOK, SavePetition

LEMMA ReadPaperInv ==
  ASSUME SituationsAssumption, SituationsInv, NEW h \in Requests, NEW a \in Papers,
         NEW form \in PaperForms, ReadPaper(h, a, form)
  PROVE  SituationsInv'
<1>1. form \in Paper
  BY DEF SituationsAssumption
<1> QED
  BY <1>1, TurnType, ContractsStay DEF SituationsInv, SituationsTypeOK, ReadPaper

LEMMA SavePaperInv ==
  ASSUME SituationsAssumption, SituationsInv, NEW h \in Requests, SavePaper(h)
  PROVE  SituationsInv'
<1>1. draft[h].id \in Papers /\ draft[h].row \in Paper
  BY DEF SituationsAssumption, SituationsInv, SituationsTypeOK, SavePaper
<1> QED
  BY <1>1, ContractsStay DEF SituationsInv, SituationsTypeOK, SavePaper

\* What only takes a row away, or has somebody back.
LEMMA RemovalInv ==
  ASSUME SituationsAssumption, SituationsInv,
         \/ \E p \in Persons : Reactivate(p)
         \/ \E r \in Rows : CancelCut(r)
         \/ \E q \in Petitions : DropPetition(q)
         \/ \E a \in Papers : DropPaper(a)
  PROVE  SituationsInv'
<1>1. CASE \E p \in Persons : Reactivate(p)
  BY <1>1, TurnType, ContractsStay DEF SituationsInv, SituationsTypeOK, Reactivate
<1>2. CASE \E r \in Rows : CancelCut(r)
  BY <1>2, TurnType, ContractsStay DEF SituationsInv, SituationsTypeOK, CancelCut
<1>3. CASE \E q \in Petitions : DropPetition(q)
  BY <1>3, TurnType, ContractsStay DEF SituationsInv, SituationsTypeOK, DropPetition
<1>4. CASE \E a \in Papers : DropPaper(a)
  BY <1>4, TurnType, ContractsStay DEF SituationsInv, SituationsTypeOK, DropPaper
<1> QED
  BY <1>1, <1>2, <1>3, <1>4

LEMMA SituationsStep ==
  ASSUME SituationsAssumption, SituationsInv, [SituationsNext]_situationsVars
  PROVE  SituationsInv'
<1>1. CASE UNCHANGED situationsVars
  BY <1>1 DEF situationsVars, SituationsInv, SituationsTypeOK, PartTimeHasHours
<1>2. CASE SituationsNext
  BY <1>2, WriteContractInv, DeactivateInv, WorkInv, ReduceInv, AskInv, ReadPetitionInv,
     SavePetitionInv, ReadPaperInv, SavePaperInv, RemovalInv DEF SituationsNext
<1> QED
  BY <1>1, <1>2

LEMMA SituationsAlways == ASSUME SituationsAssumption PROVE SituationsSpec => []SituationsInv
<1>1. SituationsInit => SituationsInv
  BY SituationsInitInv
<1>2. SituationsInv /\ [SituationsNext]_situationsVars => SituationsInv'
  BY SituationsStep
<1> QED
  BY <1>1, <1>2, PTL DEF SituationsSpec

-----------------------------------------------------------------------------
(* What the review says of a person, asked for everybody and asked alone    *)

\* Of each check: what is said of p when everybody is reviewed, is said when p is.
ToldAlone(p, all, alone) == \A x \in all : x.who = p => x \in alone

LEMMA SeniorityAlone ==
  ASSUME NEW p \in Persons, NEW l
  PROVE  ToldAlone(p, SeniorityFindings(l, Persons), SeniorityFindings(l, {p}))
BY DEF ToldAlone, SeniorityFindings, StaffOf, Finding

LEMMA CreditAlone ==
  ASSUME NEW p \in Persons, NEW l
  PROVE  ToldAlone(p, CreditFindings(l, Persons), CreditFindings(l, {p}))
<1> SUFFICES ASSUME NEW x \in CreditFindings(l, Persons), x.who = p PROVE x \in CreditFindings(l, {p})
  BY DEF ToldAlone
<1>1. PICK q \in StaffOf(Persons) : /\ x = Finding(q, "representation_credit_below_the_floor", l)
                                    /\ contract[q].representative /\ Credit # Blank /\ Credit < CreditDue(q)
  BY DEF CreditFindings
<1>2. q = p /\ p \in StaffOf({p})
  BY <1>1 DEF Finding, StaffOf
<1> QED
  BY <1>1, <1>2 DEF CreditFindings

LEMMA ReductionAlone ==
  ASSUME NEW p \in Persons, NEW f, NEW l
  PROVE  ToldAlone(p, ReductionFindings(f, l, Persons), ReductionFindings(f, l, {p}))
<1> SUFFICES ASSUME NEW x \in ReductionFindings(f, l, Persons), x.who = p PROVE x \in ReductionFindings(f, l, {p})
  BY DEF ToldAlone
<1>1. PICK right \in {"CHILDCARE", "SERIOUS_ILLNESS"} :
        \E r \in CutsSeen(right, f, l) :
            /\ OutsideTheRight(r)
            /\ x = Finding(cut[r].who, CutCode(right), Later(cut[r].from, f))
  BY DEF ReductionFindings
<1>2. PICK r \in CutsSeen(right, f, l) :
        OutsideTheRight(r) /\ x = Finding(cut[r].who, CutCode(right), Later(cut[r].from, f))
  BY <1>1
<1>3. cut[r].who = p
  BY <1>2 DEF Finding
<1> QED
  BY <1>2, <1>3 DEF ReductionFindings

LEMMA RetirementAlone ==
  ASSUME NEW p \in Persons, NEW f, NEW l
  PROVE  ToldAlone(p, RetirementFindings(f, l, Persons), RetirementFindings(f, l, {p}))
<1> SUFFICES ASSUME NEW x \in RetirementFindings(f, l, Persons), x.who = p
             PROVE  x \in RetirementFindings(f, l, {p})
  BY DEF ToldAlone
<1>1. PICK q \in Persons :
        /\ x = Finding(q, "partial_retirement_out_of_range", Later(RetirementOf(q, f, l).from, f))
        /\ RetirementOf(q, f, l) # Blank
        /\ RetirementOf(q, f, l).share \notin 250 .. RetirementTop(q, Persons)
  BY DEF RetirementFindings
<1>2. q = p
  BY <1>1 DEF Finding
\* The range asked alone is no wider: whoever relieves fully is not among those reviewed.
<1>3. FullyRelieved({p}) \subseteq FullyRelieved(Persons)
  BY DEF FullyRelieved, Relievers, StaffOf
<1>4. 250 .. RetirementTop(p, {p}) \subseteq 250 .. RetirementTop(p, Persons)
  BY <1>3 DEF RetirementTop
<1> QED
  BY <1>1, <1>2, <1>4 DEF RetirementFindings

LEMMA ReliefAlone ==
  ASSUME NEW p \in Persons, NEW f, NEW l
  PROVE  ToldAlone(p, ReliefFindings(f, l, Persons), ReliefFindings(f, l, {p}))
<1> SUFFICES ASSUME NEW x \in ReliefFindings(f, l, Persons), x.who = p PROVE x \in ReliefFindings(f, l, {p})
  BY DEF ToldAlone
<1>1. PICK q \in Relievers(Persons) : /\ x = Finding(q, ReliefCode(q, f, l), l)
                                      /\ Retiring(q, f, l) => BelowTheReduction(q, f, l)
  BY DEF ReliefFindings
<1>2. q = p /\ p \in Relievers({p})
  BY <1>1 DEF Finding, Relievers, StaffOf
<1> QED
  BY <1>1, <1>2 DEF ReliefFindings

LEMMA AdaptationAlone ==
  ASSUME NEW p \in Persons, NEW f, NEW l
  PROVE  ToldAlone(p, AdaptationFindings(f, l, Persons), AdaptationFindings(f, l, {p}))
<1> SUFFICES ASSUME NEW x \in AdaptationFindings(f, l, Persons), x.who = p
             PROVE  x \in AdaptationFindings(f, l, {p})
  BY DEF ToldAlone
<1>1. PICK q \in Petitions :
        /\ x = Finding(petition[q].who, "adaptation_answer_overdue", Later(petition[q].asked, f))
        /\ petition[q] # Blank /\ OutOfTime(q, l)
  BY DEF AdaptationFindings
<1>2. petition[q].who = p
  BY <1>1 DEF Finding
<1> QED
  BY <1>1, <1>2 DEF AdaptationFindings

LEMMA TrainingAlone ==
  ASSUME NEW p \in Persons, NEW l
  PROVE  ToldAlone(p, TrainingFindings(l, Persons), TrainingFindings(l, {p}))
<1> SUFFICES ASSUME NEW x \in TrainingFindings(l, Persons), x.who = p PROVE x \in TrainingFindings(l, {p})
  BY DEF ToldAlone
<1>1. PICK q \in StaffOf(Persons) :
        \/ /\ x = Finding(q, "training_kind_not_stated", l)
           /\ contract[q].regime = "TRAINING"
        \/ /\ x = Finding(q, "training_hours_over_the_cap", l)
           /\ contract[q].regime = "TRAINING_ALT" /\ OverTheTraining(q, l)
  BY DEF TrainingFindings
<1>2. q = p /\ p \in StaffOf({p})
  BY <1>1 DEF Finding, StaffOf
<1> QED
  BY <1>1, <1>2 DEF TrainingFindings

LEMMA RemoteAlone ==
  ASSUME NEW p \in Persons, NEW f, NEW l
  PROVE  ToldAlone(p, RemoteFindings(f, l, Persons), RemoteFindings(f, l, {p}))
<1> DEFINE Code(q) == IF AgreementsOn(q, l) = {} THEN "remote_work_without_agreement"
                      ELSE "remote_agreement_signed_late"
           Wrong(q) == /\ HasWorked(q, f .. l, {"REMOTE"}) /\ LawApplies(q, l)
                       /\ AgreementsOn(q, l) # {} => SignedLate(q, l)
<1>1. \A whom : RemoteFindings(f, l, whom) = {Finding(q, Code(q), l) : q \in {r \in StaffOf(whom) : Wrong(r)}}
  BY DEF RemoteFindings
<1> HIDE DEF Code, Wrong
<1> SUFFICES ASSUME NEW x \in RemoteFindings(f, l, Persons), x.who = p PROVE x \in RemoteFindings(f, l, {p})
  BY DEF ToldAlone
<1>2. PICK q \in StaffOf(Persons) : x = Finding(q, Code(q), l) /\ Wrong(q)
  BY <1>1
<1>3. q = p /\ p \in StaffOf({p})
  BY <1>2 DEF Finding, StaffOf
<1> QED
  BY <1>1, <1>2, <1>3

LEMMA ComplementaryAlone ==
  ASSUME NEW p \in Persons, NEW f, NEW l
  PROVE  ToldAlone(p, ComplementaryFindings(f, l, Persons), ComplementaryFindings(f, l, {p}))
<1> SUFFICES ASSUME NEW x \in ComplementaryFindings(f, l, Persons), x.who = p
             PROVE  x \in ComplementaryFindings(f, l, {p})
  BY DEF ToldAlone
<1>1. PICK q \in StaffOf(Persons) :
        /\ x = Finding(q, "complementary_hours_cap", l)
        /\ contract[q].regime = "PART_TIME"
        /\ HasWorked(q, f .. l, {"WORK", "REMOTE", "STANDBY"}) /\ OverTheCap(q, l)
  BY DEF ComplementaryFindings
<1>2. q = p /\ p \in StaffOf({p})
  BY <1>1 DEF Finding, StaffOf
<1> QED
  BY <1>1, <1>2 DEF ComplementaryFindings

LEMMA IrregularAlone ==
  ASSUME NEW p \in Persons, NEW l
  PROVE  ToldAlone(p, IrregularFindings(l, Persons), IrregularFindings(l, {p}))
<1> DEFINE Unsettled(q) == LET c == contract[q] IN
                 /\ SettlementMonths > 0
                 /\ c.period = "YEAR" /\ c.hours # Blank
                 /\ c.start # Open => c.start <= SettledYear(l) * YearDays
                 /\ YearOff(q, l) # 0
<1>1. \A whom : IrregularFindings(l, whom) =
        {Finding(q, "irregular_hours_unsettled", l) : q \in {r \in StaffOf(whom) : Unsettled(r)}}
  BY DEF IrregularFindings
<1> HIDE DEF Unsettled
<1> SUFFICES ASSUME NEW x \in IrregularFindings(l, Persons), x.who = p
             PROVE  x \in IrregularFindings(l, {p})
  BY DEF ToldAlone
<1>2. PICK q \in StaffOf(Persons) : x = Finding(q, "irregular_hours_unsettled", l) /\ Unsettled(q)
  BY <1>1
<1>3. q = p /\ p \in StaffOf({p})
  BY <1>2 DEF Finding, StaffOf
<1> QED
  BY <1>1, <1>2, <1>3

LEMMA OnCallAlone ==
  ASSUME NEW p \in Persons, NEW f, NEW l
  PROVE  ToldAlone(p, OnCallFindings(f, l, Persons), OnCallFindings(f, l, {p}))
<1> DEFINE Mondays == {d \in 0 .. l : d % WeekDays = 0}
           Over(y) == LET week == Window(y[2], WeekDays) \cap f .. l IN
                 /\ SpecialRegime = "HEALTHCARE"
                 /\ HasWorked(y[1], f .. l, {"STANDBY"})
                 /\ HoursOf(y[1], week, {"WORK", "REMOTE", "STANDBY"}) > UnionMaximum
<1>1. \A whom : OnCallFindings(f, l, whom) =
        {Finding(y[1], "on_call_over_the_weekly_maximum", Later(f, y[2])) :
            y \in {z \in StaffOf(whom) \X Mondays : Over(z)}}
  BY DEF OnCallFindings
<1> HIDE DEF Mondays, Over
<1> SUFFICES ASSUME NEW x \in OnCallFindings(f, l, Persons), x.who = p PROVE x \in OnCallFindings(f, l, {p})
  BY DEF ToldAlone
<1>2. PICK y \in StaffOf(Persons) \X Mondays :
        x = Finding(y[1], "on_call_over_the_weekly_maximum", Later(f, y[2])) /\ Over(y)
  BY <1>1
<1>3. y[1] = p /\ y \in StaffOf({p}) \X Mondays
  BY <1>2 DEF Finding, StaffOf
<1> QED
  BY <1>1, <1>2, <1>3

LEMMA StandbyAlone ==
  ASSUME NEW p \in Persons, NEW l
  PROVE  ToldAlone(p, StandbyFindings(l, Persons), StandbyFindings(l, {p}))
<1> DEFINE Over(q) == /\ SpecialRegime = "ROAD_TRANSPORT"
                      /\ StandbyWeekly > 0
                      /\ HoursOf(q, Window(l, MonthDays), {"STANDBY"}) * WeekDays
                             > StandbyWeekly * MonthDays
<1>1. \A whom : StandbyFindings(l, whom) =
        {Finding(q, "standby_over_the_average", l) : q \in {r \in StaffOf(whom) : Over(r)}}
  BY DEF StandbyFindings
<1> HIDE DEF Over
<1> SUFFICES ASSUME NEW x \in StandbyFindings(l, Persons), x.who = p PROVE x \in StandbyFindings(l, {p})
  BY DEF ToldAlone
<1>2. PICK q \in StaffOf(Persons) : x = Finding(q, "standby_over_the_average", l) /\ Over(q)
  BY <1>1
<1>3. q = p /\ p \in StaffOf({p})
  BY <1>2 DEF Finding, StaffOf
<1> QED
  BY <1>1, <1>2, <1>3

LEMMA ReviewAlone ==
  ASSUME NEW p \in Persons, NEW f, NEW l
  PROVE  ToldAlone(p, ReviewRoster(f, l, Persons), ReviewRoster(f, l, {p}))
BY SeniorityAlone, CreditAlone, ReductionAlone, RetirementAlone, ReliefAlone, AdaptationAlone,
   TrainingAlone, RemoteAlone, ComplementaryAlone, IrregularAlone, OnCallAlone, StandbyAlone
DEF ReviewRoster, ToldAlone

-----------------------------------------------------------------------------
(* The natural periods of a contract, and the months of the review          *)

LEMMA DivMod ==
  ASSUME NEW n \in Nat \ {0}, NEW d \in Int
  PROVE  \E q \in Int, m \in 0 .. n - 1 : d = n * q + m /\ d % n = m
<1> WITNESS d \div n \in Int, d % n \in 0 .. n - 1
<1> QED
  OBVIOUS

\* Every day of a period is in the month, and the month within it.
LEMMA MonthWithin ==
  ASSUME NEW month \in Nat \ {0}, NEW period \in Nat \ {0}, period % month = 0,
         NEW d \in Int, NEW e \in Window(d, period)
  PROVE  /\ e \in Window(e, month)
         /\ Window(e, month) \subseteq Window(d, period)
<1>1. PICK b \in Int, r \in 0 .. period - 1 : d = period * b + r /\ d % period = r
  BY DivMod
<1>2. PICK a \in Int, m \in 0 .. month - 1 : e = month * a + m /\ e % month = m
  <2>1. e \in Int
    BY <1>1 DEF Window
  <2> QED
    BY <2>1, DivMod
<1>3. PICK k \in Int : period = month * k
  <2>1. PICK k \in Int, z \in 0 .. month - 1 : period = month * k + z /\ period % month = z
    <3>1. period \in Int
      OBVIOUS
    <3> QED
      BY <3>1, DivMod
  <2> QED
    BY <2>1
<1> DEFINE j == k * b
<1>4. /\ j \in Int /\ period * b = month * j
      /\ month * (a - j) = month * a - month * j
      /\ month * ((a - j) + 1) = month * (a - j) + month
      /\ month * k - month * ((a - j) + 1) = month * (k - (a - j) - 1)
  <2>1. period * b = month * j
    BY <1>3
  <2> QED
    BY <2>1
<1> HIDE DEF j
<1>5. Window(d, period) = month * j .. month * j + period - 1
  BY <1>1, <1>4 DEF Window
<1>6. Window(e, month) = month * a .. month * a + month - 1
  BY <1>2 DEF Window
<1>7. e \in month * j .. month * j + period - 1
  BY <1>5
<1>8. a - j >= 0
  <2>1. CASE a - j <= -1
    <3>1. month * (a - j) <= -month
      BY <2>1, <1>4
    <3> QED
      BY <1>2, <1>4, <1>7, <3>1
  <2> QED
    BY <2>1, <1>4
<1>9. a - j + 1 <= k
  <2>1. CASE a - j >= k
    <3>1. month * (a - j) >= month * k
      BY <2>1, <1>4
    <3> QED
      BY <1>2, <1>3, <1>4, <1>7, <3>1
  <2> QED
    BY <2>1, <1>4
<1>10. month * (a - j) >= 0 /\ month * (a - j) + month <= month * k
  BY <1>4, <1>8, <1>9
<1> QED
  BY <1>2, <1>3, <1>4, <1>5, <1>6, <1>10

\* Each day of a period is of that period.
LEMMA OnePeriod ==
  ASSUME NEW length \in Nat \ {0}, NEW d \in Int, NEW e \in Window(d, length)
  PROVE  Window(e, length) = Window(d, length)
<1>1. PICK b \in Int, r \in 0 .. length - 1 : d = length * b + r /\ d % length = r
  BY DivMod
<1>2. e \in Int /\ e \in length * b .. length * b + length - 1
  BY <1>1 DEF Window
<1>3. PICK a \in Int, m \in 0 .. length - 1 : e = length * a + m /\ e % length = m
  BY <1>2, DivMod
<1>4. length * (a - b) = length * a - length * b
  OBVIOUS
<1>5. CASE a - b >= 1
  <2>1. length * (a - b) >= length
    BY <1>5
  <2> QED
    BY <1>2, <1>3, <1>4, <2>1
<1>6. CASE a - b <= -1
  <2>1. length * (a - b) <= -length
    BY <1>6
  <2> QED
    BY <1>2, <1>3, <1>4, <2>1
<1>7. CASE a = b
  BY <1>1, <1>3, <1>7 DEF Window
<1> QED
  BY <1>5, <1>6, <1>7

\* Nobody has worked an hour on no day: the sum of none is the base of the fold.
Once(f, g, t) == IF t = {} THEN 0 ELSE f[CHOOSE x \in t : TRUE] + g[t \ {CHOOSE x \in t : TRUE}]

LEMMA NoHoursOnNoDay == ASSUME NEW f, DOMAIN f = {} PROVE SumFunction(f) = 0
<1> DEFINE Fold == CHOOSE g : g = [t \in SUBSET {} |-> Once(f, g, t)]
<1>1. SumFunction(f) = Fold[{}]
  BY DEF SumFunction, SumFunctionOnSet, FoldFunctionOnSet, MapThenFoldSet, Once
<1>2. [t \in SUBSET {} |-> 0] = [t \in SUBSET {} |-> Once(f, [u \in SUBSET {} |-> 0], t)]
  BY DEF Once
<1>3. Fold = [t \in SUBSET {} |-> Once(f, Fold, t)]
  BY <1>2
<1> HIDE DEF Fold
<1> QED
  BY <1>1, <1>3 DEF Once

\* Hours were worked on some day.
LEMMA SomeDayWasWorked ==
  ASSUME NEW p \in Persons, NEW days, NEW kinds, HoursOf(p, days, kinds) # 0
  PROVE  \E d \in days \cap Calendar : worked[p][d].kind \in kinds
<1> SUFFICES ASSUME {x \in days \cap Calendar : worked[p][x].kind \in kinds} = {} PROVE FALSE
  OBVIOUS
<1> DEFINE hours == [d \in {x \in days \cap Calendar : worked[p][x].kind \in kinds} |-> worked[p][d].hours]
<1>1. DOMAIN hours = {}
  OBVIOUS
<1>2. HoursOf(p, days, kinds) = SumFunction(hours)
  BY DEF HoursOf
<1> HIDE DEF hours
<1> QED
  BY <1>1, <1>2, NoHoursOnNoDay

LEMMA EndsOfAnInterval ==
  ASSUME NEW a \in Int, NEW b \in Int, a <= b
  PROVE  First(a .. b) = a /\ Last(a .. b) = b
<1>1. a \in a .. b /\ \A x \in a .. b : a <= x
  OBVIOUS
<1>2. b \in a .. b /\ \A x \in a .. b : b >= x
  OBVIOUS
<1>3. \A y \in a .. b : (\A x \in a .. b : y <= x) => y = a
  BY <1>1
<1>4. \A y \in a .. b : (\A x \in a .. b : y >= x) => y = b
  BY <1>2
<1>5. First(a .. b) = a
  BY <1>1, <1>3 DEF First
<1>6. Last(a .. b) = b
  BY <1>2, <1>4 DEF Last
<1> QED
  BY <1>5, <1>6

LEMMA PassedIsSaid ==
  ASSUME SituationsAssumption, SituationsInv
  PROVE  ExcessIsSaidMonthByMonth
<1> SUFFICES ASSUME NEW p \in Persons, NEW d \in Calendar,
                    engaged[p], contract[p].regime = "PART_TIME",
                    contract[p].period \in {"MONTH", "YEAR"},
                    Passes(p, Window(d, PeriodDays(contract[p].period)))
             PROVE  \E month \in MonthsOf(Window(d, PeriodDays(contract[p].period))) :
                      Finding(p, "complementary_hours_cap", Last(month))
                          \in ReviewRoster(First(month), Last(month), Persons)
  BY DEF ExcessIsSaidMonthByMonth, ExcessSaidOver
<1> DEFINE length == PeriodDays(contract[p].period)
           days == Window(d, length)
<1>1. /\ MonthDays \in Nat \ {0} /\ length \in Nat \ {0} /\ length % MonthDays = 0 /\ d \in Int
  BY DEF SituationsAssumption, PeriodDays, Calendar
<1>2. contract[p].hours \in Nat /\ AgreedHours(p) = [hours |-> contract[p].hours, period |-> contract[p].period]
  <2>1. contract[p] \in Contract /\ contract[p].hours # Blank
    BY DEF SituationsInv, SituationsTypeOK, PartTimeHasHours
  <2> QED
    BY <2>1 DEF Contract, AgreedHours
<1>3. ComplementaryShare \in Nat /\ ComplementaryShare > 0
  BY DEF SituationsAssumption, Passes
<1>4. HoursOf(p, days, {"WORK", "REMOTE"}) # 0
  BY <1>2, <1>3 DEF Passes
<1>5. PICK e \in days \cap Calendar : worked[p][e].kind \in {"WORK", "REMOTE"}
  <2> HIDE DEF days
  <2> QED
    BY <1>4, SomeDayWasWorked
<1> DEFINE first == e - (e % MonthDays)
           last == first + MonthDays - 1
<1>6. e \in Int /\ first \in Int /\ last \in Int /\ first <= last /\ Window(e, MonthDays) = first .. last
  BY <1>1, <1>5 DEF Window, Calendar
<1>7. e \in first .. last /\ first .. last \subseteq days
  <2> HIDE DEF length, first, last
  <2>1. e \in Window(d, length)
    BY <1>5
  <2> QED
    BY <1>1, <1>6, <2>1, MonthWithin
<1>8. first .. last \in MonthsOf(days)
  BY <1>5, <1>6 DEF MonthsOf
<1>9. First(first .. last) = first /\ Last(first .. last) = last
  <2> HIDE DEF first, last
  <2> QED
    BY <1>6, EndsOfAnInterval
\* The review of that month reads the record of the whole period.
<1>10. ContractPeriod(p, last) = days
  <2> HIDE DEF length, first, last
  <2>1. last \in Window(d, length)
    BY <1>6, <1>7
  <2>2. Window(last, length) = Window(d, length)
    BY <1>1, <2>1, OnePeriod
  <2> QED
    BY <1>2, <2>2 DEF ContractPeriod, length
<1>11. OverTheCap(p, last)
  <2> HIDE DEF length, first, last, days
  <2> QED
    BY <1>2, <1>10 DEF OverTheCap, Passes, days, length
<1>12. HasWorked(p, first .. last, {"WORK", "REMOTE", "STANDBY"})
  BY <1>5, <1>7 DEF HasWorked
<1>13. Finding(p, "complementary_hours_cap", last) \in ComplementaryFindings(first, last, Persons)
  <2> HIDE DEF first, last
  <2> QED
    BY <1>11, <1>12 DEF ComplementaryFindings, StaffOf
<1> HIDE DEF first, last, days
<1> QED
  BY <1>8, <1>9, <1>13 DEF ReviewRoster, days, length

-----------------------------------------------------------------------------
(* What is told about their papers *)

\* The papers of everybody, and what a request is about to save of them, keep their shape.
THEOREM SituationsTypeCorrect ==
  ASSUME SituationsAssumption PROVE SituationsSpec => []SituationsTypeOK
<1>1. SituationsInv => SituationsTypeOK
  BY DEF SituationsInv
<1> QED
  BY <1>1, SituationsAlways, PTL

\* Who asks for their own review is told all that the review of everybody says of them:
\* it is the checks that grant it (ReviewAlone), whatever the papers say.
THEOREM NobodyIsToldLessAlone ==
  ASSUME SituationsAssumption PROVE SituationsSpec => []NobodyIsToldLess
<1>1. NobodyIsToldLess
  BY ReviewAlone DEF NobodyIsToldLess, FindingsAbout, ToldAlone
<1> QED
  BY <1>1, PTL

\* A cap that is passed over a month or a year is said by the review of one of its months.
THEOREM ExcessIsSaid ==
  ASSUME SituationsAssumption PROVE SituationsSpec => []ExcessIsSaidMonthByMonth
<1>1. SituationsInv => ExcessIsSaidMonthByMonth
  BY PassedIsSaid
<1> QED
  BY <1>1, SituationsAlways, PTL
=============================================================================
