---------------------------- MODULE RostersProofs ----------------------------
(***************************************************************************)
(* Proofs about the roster and its notices, for any people, days, requests *)
(* and runs of the job.                                                    *)
(*                                                                         *)
(* The types come first, with what keeps a new key new: what the requests  *)
(* under way have seen does not fill the numbers.  Then what a request and *)
(* a run know.  A request compares two photographs and trusts the first    *)
(* one until it commits, though it locks nothing before it: so the last    *)
(* theorems are about the edits of which no two under way are about the    *)
(* same day.  A run locks the rows of the queue it takes, and a request    *)
(* those it writes to, so what either of them has seen of a day is still   *)
(* so when it commits.                                                     *)
(***************************************************************************)
EXTENDS Rosters, TLAPS, FiniteSetTheorems

-----------------------------------------------------------------------------
(* The types, and how much a request or a run can have seen                  *)

\* A request has seen one row of a day, at most, or looked for one.
SoundEdit ==
    {r \in EditRow :
        /\ r.op = "replace" => r.id = Nothing
        /\ r.pc = "photographed" => r.op = "replace"
        /\ r.pc \in {"looked", "noted"} => r.noted \subseteq DOMAIN r.before
        /\ \E g \in [Cells -> Ids \cup {Nothing}] :
              r.seen \cup {r.id} \subseteq {g[c] : c \in Cells} \cup {Nothing}}

\* A run has read the queue of a day once.
SoundRun ==
    {r \in RunRow :
        /\ \A t, u \in r.todo : t[1] = u[1] => t = u
        /\ DOMAIN r.news \subseteq DOMAIN r.rows
        /\ r.pc # "photographed" => r.news = <<>>}

TInv ==
    /\ TypeOK
    /\ edit \in [Editors -> SoundEdit]
    /\ pub \in [Publishers -> SoundRun]

LEMMA OfSomeDays ==
  ASSUME NEW T
  PROVE  /\ \A f \in Some(T) : /\ DOMAIN f \subseteq Cells /\ \A c \in DOMAIN f : f[c] \in T
                               /\ f = [c \in DOMAIN f |-> f[c]]
         /\ \A S \in SUBSET Cells : \A f \in [S -> T] : f \in Some(T)
         /\ <<>> \in Some(T)
<1>1. \A f \in Some(T) : /\ DOMAIN f \subseteq Cells /\ \A c \in DOMAIN f : f[c] \in T
                         /\ f = [c \in DOMAIN f |-> f[c]]
  BY DEF Some
<1>2. \A S \in SUBSET Cells : \A f \in [S -> T] : f \in Some(T)
  BY DEF Some
<1>3. <<>> \in [{} -> T]
  OBVIOUS
<1> QED
  BY <1>1, <1>2, <1>3

LEMMA OnSomeDays ==
  ASSUME NEW T, NEW S \in SUBSET Cells, NEW f \in [S -> T]
  PROVE  f \in Some(T)
  BY OfSomeDays

LEMMA NoDays ==
  /\ DOMAIN <<>> = {}
  /\ \A f : f = [c \in DOMAIN f |-> f[c]] /\ DOMAIN f = {} => f = <<>>
<1>1. DOMAIN <<>> = {} /\ <<>> = [c \in {} |-> <<>>[c]]
  OBVIOUS
<1>2. ASSUME NEW f, f = [c \in DOMAIN f |-> f[c]], DOMAIN f = {} PROVE f = <<>>
  BY <1>1, <1>2
<1> QED
  BY <1>1, <1>2

LEMMA TimeFacts ==
  /\ 0 \in Time /\ Time \subseteq Nat /\ Wait \in Nat /\ MaxTime \in Nat
  /\ DayLength \in Nat /\ DayLength > 0 /\ Days \subseteq Nat
  BY RosterAssumption DEF Time

LEMMA NothingFacts ==
  /\ Nothing \notin Shifts /\ Nothing \notin People /\ Nothing \notin Editors
  /\ Nothing \notin Publishers /\ Nothing \notin Row /\ Nothing \notin Draft
  /\ Nothing \notin Ids /\ Nothing \notin Waiter /\ Nothing \notin Time
  /\ Editors \cap Publishers = {}
  BY RosterAssumption, RowsAssumption DEF Publishers

\* The fields of a row, a waiting change, a request and a run.
LEMMA ShiftFacts ==
  ASSUME TypeOK, NEW c \in Cells
  PROVE  /\ Photo(c) \in Contents
         /\ shift[c] # Nothing => /\ shift[c] \in Row /\ shift[c].what \in Shifts
                                  /\ shift[c].id \in Ids /\ Photo(c) = shift[c].what
         /\ shift[c] = Nothing <=> Photo(c) = Nothing
  BY NothingFacts DEF TypeOK, Photo, Contents, Row

LEMMA PendingFacts ==
  ASSUME TypeOK, NEW c \in Cells, pending[c] # Nothing
  PROVE  /\ pending[c] \in Waiter /\ pending[c].original \in Contents
         /\ pending[c].at \in Time /\ pending[c].born \in Numbers
  BY DEF TypeOK, Waiter

LEMMA EditFacts ==
  ASSUME TypeOK, NEW e \in Editors
  PROVE  /\ edit[e] \in EditRow
         /\ DOMAIN edit[e].want \subseteq Cells /\ \A c \in DOMAIN edit[e].want : edit[e].want[c] \in Contents
         /\ DOMAIN edit[e].before \subseteq Cells
         /\ \A c \in DOMAIN edit[e].before : edit[e].before[c] \in Contents
         /\ DOMAIN edit[e].draft \subseteq Cells
         /\ \A c \in DOMAIN edit[e].draft : edit[e].draft[c] \in Draft \cup {Nothing}
         /\ edit[e].id \in Ids \cup {Nothing} /\ edit[e].noted \subseteq Cells /\ edit[e].at \in Time
         /\ edit[e].seen \subseteq Ids
         /\ DOMAIN edit[e].found \subseteq Cells /\ \A c \in DOMAIN edit[e].found : edit[e].found[c] \in Numbers
<1>1. edit[e] \in EditRow
  BY DEF TypeOK
<1> QED
  BY <1>1, OfSomeDays DEF EditRow

LEMMA RunFacts ==
  ASSUME TypeOK, NEW b \in Publishers
  PROVE  /\ pub[b] \in RunRow
         /\ DOMAIN pub[b].rows \subseteq Cells /\ \A c \in DOMAIN pub[b].rows : pub[b].rows[c] \in Contents
         /\ DOMAIN pub[b].news \subseteq Cells
         /\ \A c \in DOMAIN pub[b].news : pub[b].news[c] \in Contents \X Contents
         /\ pub[b].news = [c \in DOMAIN pub[b].news |-> pub[b].news[c]]
         /\ pub[b].todo \subseteq Cells \X Numbers /\ pub[b].sends \subseteq Nat
         /\ pub[b].of \in People \cup {Nothing}
<1>1. pub[b] \in RunRow
  BY DEF TypeOK
<1> QED
  BY <1>1, OfSomeDays DEF RunRow

LEMMA DraftFacts ==
  ASSUME TypeOK, NEW e \in Editors, NEW c \in Cells
  PROVE  PhotoOf(e, c) \in Contents
<1>1. c \in DOMAIN edit[e].draft => edit[e].draft[c] \in Draft \cup {Nothing}
  BY EditFacts
<1> QED
  BY <1>1, ShiftFacts DEF PhotoOf, Draft, Contents

\* What seeing no row, or one, amounts to.
LEMMA SeenFew ==
  ASSUME NEW r \in EditRow, r.op = "replace" => r.id = Nothing, r.pc = "photographed" => r.op = "replace",
         r.seen = {}, r.id # Nothing => Cells # {}, r.pc \notin {"looked", "noted"}
  PROVE  r \in SoundEdit
<1> DEFINE g == [c \in Cells |-> r.id]
<1>1. g \in [Cells -> Ids \cup {Nothing}]
  BY DEF EditRow
<1>2. r.seen \cup {r.id} \subseteq {g[c] : c \in Cells} \cup {Nothing}
  OBVIOUS
<1> HIDE DEF g
<1> QED
  BY <1>1, <1>2 DEF SoundEdit

LEMMA NoEditType == NoEdit \in SoundEdit /\ NoRun \in SoundRun
<1>1. NoEdit \in EditRow /\ NoRun \in RunRow
  BY OfSomeDays, TimeFacts DEF NoEdit, NoRun, EditRow, RunRow
<1>2. NoEdit.op = "none" /\ NoEdit.pc = "idle" /\ NoEdit.seen = {} /\ NoEdit.id = Nothing
  BY DEF NoEdit
<1>3. NoRun.todo = {} /\ NoRun.news = <<>>
  BY DEF NoRun
<1> QED
  BY <1>1, <1>2, <1>3, SeenFew, NoDays DEF SoundRun

LEMMA Letting ==
  ASSUME TypeOK, NEW x
  PROVE  /\ Released(held, x) \in [Cells -> Editors \cup {Nothing}]
         /\ Released(queued, x) \in [Cells -> Editors \cup Publishers \cup {Nothing}]
  BY DEF TypeOK, Released

\* A request goes on, or a run.
LEMMA EditTypes ==
  ASSUME TInv, NEW e \in Editors, NEW row \in SoundEdit, edit' = [edit EXCEPT ![e] = row],
         UNCHANGED <<rows, active, told, left, pub, mishaps, now>>, edits' \in 0 .. MaxEdits,
         held' \in [Cells -> Editors \cup {Nothing}],
         queued' \in [Cells -> Editors \cup Publishers \cup {Nothing}]
  PROVE  TInv'
<1>1. row \in EditRow
  BY DEF SoundEdit
<1>2. edit' \in [Editors -> SoundEdit] /\ edit' \in [Editors -> EditRow]
  BY <1>1 DEF TInv, TypeOK
<1>3. UNCHANGED <<shift, pending, notices>>
  BY DEF rows
<1> QED
  BY <1>2, <1>3 DEF TInv, TypeOK

LEMMA RunTypes ==
  ASSUME TInv, NEW b \in Publishers, NEW row \in SoundRun, pub' = [pub EXCEPT ![b] = row],
         UNCHANGED <<shift, pending, active, told, left, held, edit, edits, now>>,
         mishaps' \in 0 .. MaxMishaps, notices' \in Seq(Notice),
         queued' \in [Cells -> Editors \cup Publishers \cup {Nothing}]
  PROVE  TInv'
<1>1. row \in RunRow
  BY DEF SoundRun
<1>2. pub' \in [Publishers -> SoundRun] /\ pub' \in [Publishers -> RunRow]
  BY <1>1 DEF TInv, TypeOK
<1> QED
  BY <1>2 DEF TInv, TypeOK

-----------------------------------------------------------------------------
(* The types: editing                                                        *)

LEMMA AbortTypes ==
  ASSUME TInv, NEW e \in Editors, Abort(e), UNCHANGED <<rows, active, told, left, pub, clock>>
  PROVE  TInv'
<1>1. UNCHANGED <<mishaps, now>> /\ edits' \in 0 .. MaxEdits
  BY DEF clock, TInv, TypeOK
<1>2. /\ held' \in [Cells -> Editors \cup {Nothing}]
      /\ queued' \in [Cells -> Editors \cup Publishers \cup {Nothing}]
  BY Letting DEF Abort, TInv
<1> QED
  BY <1>1, <1>2, NoEditType, EditTypes DEF Abort

LEMMA BeginTypes ==
  ASSUME TInv, NEW e \in Editors, NEW op \in Ops, NEW want \in Some(Contents),
         NEW id \in Ids \cup {Nothing}, Begin(e, op, want, id), op = "replace" => id = Nothing,
         id # Nothing => Cells # {}
  PROVE  TInv'
<1> DEFINE row == [NoEdit EXCEPT !.pc = "sent", !.op = op, !.want = want, !.id = id]
<1>1. row \in EditRow /\ row.pc = "sent" /\ row.op = op /\ row.id = id /\ row.seen = {}
  BY NoEditType DEF NoEdit, EditRow, SoundEdit
<1>2. edit' = [edit EXCEPT ![e] = row]
  BY DEF Begin
<1> HIDE DEF row
<1>3. row \in SoundEdit
  BY <1>1, SeenFew
<1>4. edits' \in 0 .. MaxEdits
  BY RosterAssumption DEF Begin, TInv, TypeOK
<1> QED
  BY <1>2, <1>3, <1>4, EditTypes DEF Begin, TInv, TypeOK

LEMMA StrokeFacts ==
  ASSUME NEW want \in Strokes
  PROVE  /\ want \in Some(Contents)
         /\ \A c \in DOMAIN want : c \in Cells /\ want[c] \in Contents
  BY RosterAssumption, OfSomeDays DEF Contents

LEMMA RedrawTypes ==
  ASSUME TInv, NEW e \in Editors, NEW want \in Strokes, Redraw(e, want)
  PROVE  TInv'
<1>1. want \in Some(Contents)
  BY StrokeFacts
<1> QED
  BY <1>1, BeginTypes DEF Redraw, Ops

LEMMA AddTypes ==
  ASSUME TInv, NEW e \in Editors, NEW c \in Cells, NEW what \in Contents, Add(e, c, what)
  PROVE  TInv'
<1> DEFINE want == [x \in {c} |-> what]
<1>1. want \in [{c} -> Contents]
  OBVIOUS
<1>2. Begin(e, "add", want, Nothing)
  BY DEF Add
<1> HIDE DEF want
<1>3. want \in Some(Contents)
  BY <1>1, OnSomeDays
<1> QED
  BY <1>2, <1>3, BeginTypes DEF Ops

LEMMA ChangeTypes ==
  ASSUME TInv, NEW e \in Editors, NEW c \in Cells, NEW to \in Cells, NEW what \in Contents,
         Change(e, c, to, what)
  PROVE  TInv'
<1> DEFINE want == [x \in {c, to} |-> IF x = to THEN what ELSE Nothing]
<1>1. want \in [{c, to} -> Contents]
  BY DEF Contents
<1>2. Begin(e, "change", want, shift[c].id) /\ shift[c].id \in Ids
  BY ShiftFacts DEF Change, TInv
<1> HIDE DEF want
<1>3. want \in Some(Contents)
  BY <1>1, OnSomeDays
<1> QED
  BY <1>2, <1>3, BeginTypes DEF Ops

LEMMA RemoveTypes ==
  ASSUME TInv, NEW e \in Editors, NEW c \in Cells, Remove(e, c)
  PROVE  TInv'
<1> DEFINE want == [x \in {c} |-> Nothing]
<1>1. want \in [{c} -> Contents]
  BY DEF Contents
<1>2. Begin(e, "remove", want, shift[c].id) /\ shift[c].id \in Ids
  BY ShiftFacts DEF Remove, TInv
<1> HIDE DEF want
<1>3. want \in Some(Contents)
  BY <1>1, OnSomeDays
<1> QED
  BY <1>2, <1>3, BeginTypes DEF Ops

LEMMA ReassignTypes ==
  ASSUME TInv, NEW e \in Editors, NEW c \in Cells, NEW p \in People, Reassign(e, c, p)
  PROVE  TInv'
<1> DEFINE to == <<p, c[2]>>
           want == [x \in {c, to} |-> IF x = to THEN shift[c].what ELSE Nothing]
<1>1. Begin(e, "move", want, shift[c].id) /\ shift[c].id \in Ids /\ shift[c].what \in Shifts
  BY ShiftFacts DEF Reassign, TInv
<1>2. to \in Cells
  BY DEF Cells
<1> HIDE DEF to
<1>3. want \in [{c, to} -> Contents]
  BY <1>1 DEF Contents
<1> HIDE DEF want
<1>4. want \in Some(Contents)
  BY <1>2, <1>3, OnSomeDays
<1> QED
  BY <1>1, <1>4, BeginTypes DEF Ops

LEMMA PhotographTypes ==
  ASSUME TInv, NEW e \in Editors, Photograph(e)
  PROVE  TInv'
<1> DEFINE pc == IF edit[e].op = "replace" THEN "photographed" ELSE "aimed"
           before == [c \in DOMAIN edit[e].want |-> Photo(c)]
           row == [edit[e] EXCEPT !.pc = pc, !.before = before]
<1>1. before \in [DOMAIN edit[e].want -> Contents] /\ DOMAIN edit[e].want \subseteq Cells
  BY EditFacts, ShiftFacts DEF TInv
<1>2. before \in Some(Contents)
  BY <1>1, OnSomeDays
<1>3. edit[e] \in SoundEdit /\ edit[e] \in EditRow
  BY DEF TInv, TypeOK
<1>4. edit' = [edit EXCEPT ![e] = row]
  BY DEF Photograph
<1> HIDE DEF before
<1>5. row \in SoundEdit
  BY <1>2, <1>3 DEF EditRow, SoundEdit
<1> QED
  BY <1>4, <1>5, EditTypes DEF Photograph, TInv, TypeOK, clock

LEMMA AimTypes ==
  ASSUME TInv, NEW e \in Editors, Aim(e)
  PROVE  TInv'
<1> DEFINE seen == {shift[c].id : c \in {x \in DOMAIN edit[e].want : shift[x] # Nothing}}
           row == [edit[e] EXCEPT !.pc = "aimed", !.seen = seen]
           g == [c \in Cells |-> IF shift[c] = Nothing THEN Nothing ELSE shift[c].id]
<1>1. seen \subseteq Ids /\ g \in [Cells -> Ids \cup {Nothing}]
  BY EditFacts, ShiftFacts DEF TInv
<1>2. edit[e] \in SoundEdit /\ edit[e] \in EditRow /\ edit[e].id = Nothing
  BY DEF TInv, TypeOK, Aim, SoundEdit
<1>3. seen \cup {edit[e].id} \subseteq {g[c] : c \in Cells} \cup {Nothing}
  BY <1>2, EditFacts DEF TInv
<1>4. edit' = [edit EXCEPT ![e] = row]
  BY DEF Aim
<1> HIDE DEF seen, g
<1>5. row \in EditRow /\ row.pc = "aimed" /\ row.op = edit[e].op /\ row.id = edit[e].id /\ row.seen = seen
  BY <1>1, <1>2 DEF EditRow
<1>6. row \in SoundEdit
  BY <1>1, <1>2, <1>3, <1>5 DEF SoundEdit
<1> QED
  BY <1>4, <1>6, EditTypes DEF Aim, TInv, TypeOK, clock

\* The days a request writes to, and what it writes there.
LEMMA TargetFacts ==
  ASSUME TypeOK, NEW e \in Editors
  PROVE  /\ Here(e) \subseteq Cells /\ Going(e) \subseteq Cells /\ Target(e) \subseteq Cells
         /\ Touched(e) \subseteq Cells
         /\ edit[e].op # "move" => Target(e) = Going(e)
<1>1. Here(e) \subseteq Cells
  BY DEF Here, Where
<1>2. Going(e) \subseteq Cells
  BY EditFacts DEF Going
<1>3. Target(e) \subseteq Cells
  BY <1>1, <1>2 DEF Target, Cells
<1>4. Touched(e) \subseteq Cells
  BY <1>1, <1>2, <1>3, EditFacts DEF Touched
<1> QED
  BY <1>1, <1>2, <1>3, <1>4 DEF Target

LEMMA WrittenType ==
  ASSUME TypeOK, NEW e \in Editors, ~Refused(e), NEW c \in Touched(e)
  PROVE  Written(e, c) \in Draft \cup {Nothing}
<1>1. \A x \in Going(e) : x \in DOMAIN edit[e].want /\ edit[e].want[x] \in Shifts
  BY EditFacts DEF Going, Contents
<1>2. edit[e].id \in Ids \cup {Nothing}
  BY EditFacts
<1>3. CASE edit[e].op \in {"replace", "add"}
  <2>1. c \in DOMAIN edit[e].want
    BY <1>3 DEF Touched, Going
  <2>2. edit[e].want[c] # Nothing => edit[e].want[c] \in Shifts
    BY <2>1, EditFacts DEF Contents
  <2> QED
    BY <1>3, <2>2 DEF Written, Draft
<1>4. CASE edit[e].op = "change"
  <2>1. c \in Target(e) => edit[e].want[c] \in Shifts
    BY <1>1, <1>4, TargetFacts
  <2> QED
    BY <1>2, <1>4, <2>1 DEF Written, Draft
<1>5. CASE edit[e].op = "move"
  <2>1. PICK h \in Here(e) : h = (CHOOSE x \in Here(e) : TRUE)
    BY <1>5 DEF Refused
  <2>2. shift[h] \in Row
    BY <2>1, ShiftFacts DEF Here, Where
  <2>3. shift[h] \in Draft
    BY <2>2 DEF Row, Draft
  <2> QED
    BY <1>5, <2>1, <2>3 DEF Written
<1> QED
  BY <1>3, <1>4, <1>5 DEF Written

\* The request once it has written.
LEMMA WrittenRow ==
  ASSUME TInv, NEW e \in Editors, NEW draft \in Some(Draft \cup {Nothing})
  PROVE  [NoEdit EXCEPT !.pc = "written", !.before = edit[e].before, !.draft = draft] \in SoundEdit
<1> DEFINE row == [NoEdit EXCEPT !.pc = "written", !.before = edit[e].before, !.draft = draft]
<1>1. edit[e] \in EditRow /\ NoEdit \in EditRow
  BY NoEditType DEF TInv, TypeOK, SoundEdit
<1>2. row \in EditRow /\ row.seen = {} /\ row.id = Nothing /\ row.pc = "written"
  BY <1>1 DEF EditRow, NoEdit
<1> HIDE DEF row
<1>3. row \in SoundEdit
  BY <1>2, SeenFew
<1> QED
  BY <1>3 DEF row

LEMMA WriteTypes ==
  ASSUME TInv, NEW e \in Editors, Write(e)
  PROVE  TInv'
<1>1. CASE Refused(e)
  BY <1>1, AbortTypes DEF Write
<1>2. CASE ~Refused(e)
  <2> DEFINE draft == [c \in Touched(e) |-> Written(e, c)]
             row == [NoEdit EXCEPT !.pc = "written", !.before = edit[e].before, !.draft = draft]
  <2>1. draft \in Some(Draft \cup {Nothing})
    <3>1. draft \in [Touched(e) -> Draft \cup {Nothing}]
      BY <1>2, WrittenType DEF TInv
    <3> QED
      BY <3>1, TargetFacts, OfSomeDays DEF TInv
  <2>2. edit' = [edit EXCEPT ![e] = row]
    BY <1>2 DEF Write
  <2>3. held' \in [Cells -> Editors \cup {Nothing}]
    BY <1>2 DEF Write, TInv, TypeOK
  <2> HIDE DEF draft
  <2>4. row \in SoundEdit
    BY <2>1, WrittenRow
  <2> HIDE DEF row
  <2> QED
    BY <1>2, <2>2, <2>3, <2>4, EditTypes DEF Write, TInv, TypeOK, clock
<1> QED
  BY <1>1, <1>2

\* A request that only takes notes.
LEMMA NotedRow ==
  ASSUME TInv, NEW e \in Editors, NEW pc \in {"looked", "noted"}, edit[e].pc \in {"written", "looked"},
         NEW found \in Some(Numbers), NEW noted \in SUBSET Cells, NEW at \in Time,
         noted \subseteq DOMAIN edit[e].before
  PROVE  [edit[e] EXCEPT !.pc = pc, !.found = found, !.noted = noted, !.at = at] \in SoundEdit
<1> DEFINE row == [edit[e] EXCEPT !.pc = pc, !.found = found, !.noted = noted, !.at = at]
<1>1. edit[e] \in EditRow /\ edit[e] \in SoundEdit
  BY DEF TInv, TypeOK
<1>2. /\ row \in EditRow /\ row.pc = pc /\ row.seen = edit[e].seen /\ row.id = edit[e].id
      /\ row.op = edit[e].op /\ row.noted = noted /\ row.before = edit[e].before
  BY <1>1 DEF EditRow
<1> HIDE DEF row
<1>3. row \in SoundEdit
  BY <1>1, <1>2 DEF SoundEdit
<1> QED
  BY <1>3 DEF row

LEMMA LookUpTypes ==
  ASSUME TInv, NEW e \in Editors, LookUp(e)
  PROVE  TInv'
<1> DEFINE pc == IF ToTell(e) = {} THEN "noted" ELSE "looked"
           found == [c \in {x \in ToTell(e) : pending[x] # Nothing} |-> pending[c].born]
           row == [edit[e] EXCEPT !.pc = pc, !.found = found, !.noted = ToTell(e), !.at = edit[e].at]
<1>1. ToTell(e) \subseteq Cells /\ ToTell(e) \subseteq DOMAIN edit[e].before
  BY EditFacts DEF ToTell, Differs, TInv
<1>2. found \in Some(Numbers)
  <2>1. found \in [{x \in ToTell(e) : pending[x] # Nothing} -> Numbers]
    BY <1>1, PendingFacts DEF TInv
  <2> QED
    BY <1>1, <2>1, OfSomeDays
<1>3. edit' = [edit EXCEPT ![e] = row]
  <2>1. row = [edit[e] EXCEPT !.pc = pc, !.noted = ToTell(e), !.found = found]
    BY EditFacts DEF EditRow, TInv
  <2> QED
    BY <2>1 DEF LookUp
<1> HIDE DEF found
<1>4. edit[e].at \in Time
  BY EditFacts DEF TInv
<1>5. row \in SoundEdit
  BY <1>1, <1>2, <1>4, NotedRow DEF LookUp
<1> HIDE DEF row
<1> QED
  BY <1>3, <1>5, EditTypes DEF LookUp, TInv, TypeOK, clock

LEMMA NoteTypes ==
  ASSUME TInv, NEW e \in Editors, Note(e)
  PROVE  TInv'
<1>1. CASE Gone(e)
  BY <1>1, AbortTypes DEF Note
<1>2. CASE ~Gone(e)
  <2> DEFINE row == [edit[e] EXCEPT !.pc = "noted", !.found = <<>>, !.noted = edit[e].noted, !.at = now]
  <2>1. edit' = [edit EXCEPT ![e] = row]
    <3>1. row = [edit[e] EXCEPT !.pc = "noted", !.at = now, !.found = <<>>]
      BY EditFacts DEF EditRow, TInv
    <3> QED
      BY <1>2, <3>1 DEF Note
  <2>2. edit[e].noted \in SUBSET Cells /\ now \in Time /\ <<>> \in Some(Numbers)
    BY EditFacts, OfSomeDays DEF TInv, TypeOK
  <2>3. row \in SoundEdit
    <3>1. edit[e].noted \subseteq DOMAIN edit[e].before
      BY DEF TInv, SoundEdit, Note
    <3> QED
      BY <2>2, <3>1, NotedRow DEF Note
  <2> HIDE DEF row
  <2>4. queued' \in [Cells -> Editors \cup Publishers \cup {Nothing}]
    BY <1>2 DEF Note, TInv, TypeOK
  <2> QED
    BY <1>2, <2>1, <2>3, <2>4, EditTypes DEF Note, TInv, TypeOK, clock
<1> QED
  BY <1>1, <1>2

-----------------------------------------------------------------------------
(* New keys                                                                  *)

\* More numbers than places to see one: one is not seen.
LEMMA NotAllSeen ==
  ASSUME NEW D, IsFiniteSet(D), NEW F, F = [z \in D |-> F[z]],
         NEW N, IsFiniteSet(N), Cardinality(N) > Cardinality(D)
  PROVE  \E k \in N : \A z \in D : F[z] # k
<1> DEFINE T == {F[z] : z \in D}
<1>1. F \in Surjection(D, T)
  BY DEF Surjection
<1>2. IsFiniteSet(T) /\ Cardinality(T) <= Cardinality(D)
  <2> HIDE DEF T
  <2> QED
    BY <1>1, FS_Surjection
<1>3. ~(N \subseteq T)
  <2> HIDE DEF T
  <2> SUFFICES ASSUME N \subseteq T PROVE FALSE
    OBVIOUS
  <2>1. Cardinality(N) <= Cardinality(T)
    BY <1>2, FS_Subset
  <2>2. Cardinality(N) \in Nat /\ Cardinality(T) \in Nat /\ Cardinality(D) \in Nat
    BY <1>2, FS_CardinalityType
  <2> QED
    BY <1>2, <2>1, <2>2
<1> QED
  BY <1>3

LEMMA Counting ==
  /\ IsFiniteSet(Cells) /\ IsFiniteSet(Editors) /\ IsFiniteSet(Publishers)
  /\ Cardinality(Cells) \in Nat /\ Cardinality(Editors) \in Nat /\ Cardinality(Publishers) \in Nat
  /\ Cardinality(Editors \cup {Nothing}) = Cardinality(Editors) + 1
  /\ IsFiniteSet((Editors \cup {Nothing}) \X Cells)
  /\ Cardinality((Editors \cup {Nothing}) \X Cells) = Cardinality(Cells) * Cardinality(Editors \cup {Nothing})
  /\ IsFiniteSet(Numbers)
  /\ Cardinality(Numbers) = Cardinality(Cells) * Cardinality(Editors \cup {Nothing}) + Cardinality(Publishers) + 1
  /\ Cardinality(Cells) * Cardinality(Editors \cup {Nothing}) \in Nat
<1>1. IsFiniteSet(Cells) /\ IsFiniteSet(Editors) /\ IsFiniteSet(Publishers)
  BY RosterAssumption, FS_Product, FS_Union DEF Cells, Publishers
<1>2. Cardinality(Cells) \in Nat /\ Cardinality(Editors) \in Nat /\ Cardinality(Publishers) \in Nat
  BY <1>1, FS_CardinalityType
<1>3. IsFiniteSet(Editors \cup {Nothing}) /\ Cardinality(Editors \cup {Nothing}) = Cardinality(Editors) + 1
  BY <1>1, NothingFacts, FS_AddElement
<1> DEFINE product == (Editors \cup {Nothing}) \X Cells
           count == Cardinality(Cells) * Cardinality(Editors \cup {Nothing})
<1>4. IsFiniteSet(product) /\ Cardinality(product) = Cardinality(Editors \cup {Nothing}) * Cardinality(Cells)
  BY <1>1, <1>3, FS_Product
<1>5. count \in Nat /\ Cardinality(product) = count
  <2>1. \A m, n \in Nat : m * n = n * m /\ m * n \in Nat
    OBVIOUS
  <2> QED
    BY <1>2, <1>3, <1>4, <2>1
<1>6. Numbers = 0 .. count + Cardinality(Publishers)
  BY DEF Numbers
<1> HIDE DEF count
<1>7. IsFiniteSet(Numbers) /\ Cardinality(Numbers) = count + Cardinality(Publishers) + 1
  BY <1>2, <1>5, <1>6, FS_Interval
<1> QED
  BY <1>1, <1>2, <1>3, <1>4, <1>5, <1>7 DEF count

LEMMA ANewKey ==
  ASSUME TInv, NEW e \in Editors, NEW c \in Cells
  PROVE  \E k \in Numbers : <<c, k>> \notin KnownRows(e)
<1> DEFINE Few(g, x) == edit[x].seen \cup {edit[x].id} \subseteq {g[d] : d \in Cells} \cup {Nothing}
           G == [x \in Editors |-> CHOOSE g \in [Cells -> Ids \cup {Nothing}] : Few(g, x)]
           D == (Editors \cup {Nothing}) \X Cells
           F == [z \in D |-> IF z[1] # Nothing THEN G[z[1]][z[2]]
                             ELSE IF shift[z[2]] = Nothing THEN Nothing ELSE shift[z[2]].id]
           N == {c} \X Numbers
<1>1. \A x \in Editors : G[x] \in [Cells -> Ids \cup {Nothing}] /\ Few(G[x], x)
  <2> SUFFICES ASSUME NEW x \in Editors
               PROVE  \E g \in [Cells -> Ids \cup {Nothing}] : Few(g, x)
    OBVIOUS
  <2>1. edit[x] \in SoundEdit
    BY DEF TInv
  <2> QED
    BY <2>1 DEF SoundEdit
<1>2. \A i \in KnownRows(e) : i # Nothing => \E z \in D : F[z] = i
  <2> SUFFICES ASSUME NEW i \in KnownRows(e), i # Nothing PROVE \E z \in D : F[z] = i
    OBVIOUS
  <2>1. CASE \E x \in Editors : i \in edit[x].seen \cup {edit[x].id}
    <3>1. PICK x \in Editors : i \in edit[x].seen \cup {edit[x].id}
      BY <2>1
    <3>2. PICK d \in Cells : G[x][d] = i
      <4>1. Few(G[x], x)
        BY <1>1
      <4> HIDE DEF G
      <4> QED
        BY <3>1, <4>1
    <3>3. <<x, d>> \in D /\ F[<<x, d>>] = i
      BY <3>2, NothingFacts
    <3> QED
      BY <3>3
  <2>2. CASE \E d \in Cells : shift[d] # Nothing /\ i = shift[d].id
    <3>1. PICK d \in Cells : shift[d] # Nothing /\ i = shift[d].id
      BY <2>2
    <3>2. <<Nothing, d>> \in D /\ F[<<Nothing, d>>] = i
      BY <3>1
    <3> QED
      BY <3>2
  <2> QED
    BY <2>1, <2>2 DEF KnownRows
<1>3. IsFiniteSet(N) /\ Cardinality(N) > Cardinality(D) /\ IsFiniteSet(D)
  <2>1. IsFiniteSet({c}) /\ Cardinality({c}) = 1
    BY FS_Singleton
  <2>2. IsFiniteSet(N) /\ Cardinality(N) = 1 * Cardinality(Numbers)
    BY <2>1, Counting, FS_Product
  <2> QED
    BY <2>2, Counting
<1>4. F = [z \in D |-> F[z]]
  OBVIOUS
<1> HIDE DEF F, D, N
<1>5. PICK i \in N : \A z \in D : F[z] # i
  BY <1>3, <1>4, NotAllSeen
<1>6. PICK k \in Numbers : i = <<c, k>>
  BY <1>5 DEF N
<1>7. i # Nothing
  BY <1>6, NothingFacts DEF Ids
<1> QED
  BY <1>2, <1>5, <1>6, <1>7

LEMMA ANewNote ==
  ASSUME TInv, NEW c \in Cells
  PROVE  NewNote(c) \in Numbers
<1> DEFINE D == Editors \cup Publishers
           F == [z \in D |-> IF z \in Editors THEN edit[z].found[c]
                             ELSE (CHOOSE t \in pub[z].todo : t[1] = c)[2]]
<1>1. \A k \in KnownNotes(c) : \E z \in D : F[z] = k
  <2> SUFFICES ASSUME NEW k \in KnownNotes(c) PROVE \E z \in D : F[z] = k
    OBVIOUS
  <2>1. CASE \E x \in Editors : k = edit[x].found[c]
    BY <2>1
  <2>2. CASE \E b \in Publishers : \E t \in pub[b].todo : t[1] = c /\ t[2] = k
    <3>1. PICK b \in Publishers : \E t \in pub[b].todo : t[1] = c /\ t[2] = k
      BY <2>2
    <3>2. \A t, u \in pub[b].todo : t[1] = u[1] => t = u
      <4>1. pub[b] \in SoundRun
        BY DEF TInv
      <4> QED
        BY <4>1 DEF SoundRun
    <3>3. (CHOOSE t \in pub[b].todo : t[1] = c)[2] = k
      BY <3>1, <3>2
    <3>4. b \notin Editors
      BY NothingFacts
    <3> QED
      BY <3>3, <3>4
  <2> QED
    BY <2>1, <2>2 DEF KnownNotes
<1>2. IsFiniteSet(D) /\ Cardinality(Numbers) > Cardinality(D)
  <2>1. IsFiniteSet(D) /\ Cardinality(D) = Cardinality(Editors) + Cardinality(Publishers) - Cardinality(Editors \cap Publishers)
    BY Counting, FS_Union
  <2>2. Editors \cap Publishers = {} /\ Cardinality({}) = 0
    BY NothingFacts, FS_EmptySet
  <2>3. Cardinality(Cells) # 0
    BY Counting, FS_EmptySet
  <2>4. \A m, n \in Nat : m # 0 => m * (n + 1) > n
    <3> TAKE m, n \in Nat
    <3>1. ASSUME m # 0 PROVE m * (n + 1) >= 1 * (n + 1)
      <4>1. m - 1 \in Nat /\ (m - 1) * (n + 1) >= 0
        BY <3>1
      <4>2. m * (n + 1) = (m - 1) * (n + 1) + (n + 1)
        OBVIOUS
      <4> QED
        BY <4>1, <4>2
    <3> QED
      BY <3>1
  <2>5. Cardinality(Cells) * (Cardinality(Editors) + 1) > Cardinality(Editors)
    BY <2>3, <2>4, Counting
  <2>6. Cardinality(Cells) * Cardinality(Editors \cup {Nothing}) > Cardinality(Editors)
    BY <2>5, Counting
  <2> DEFINE count == Cardinality(Cells) * Cardinality(Editors \cup {Nothing})
  <2>7. count > Cardinality(Editors) /\ count \in Nat /\ Cardinality(Numbers) = count + Cardinality(Publishers) + 1
    BY <2>6, Counting
  <2>8. Cardinality(Editors) \in Nat /\ Cardinality(Publishers) \in Nat
    BY Counting
  <2>9. Cardinality(D) = Cardinality(Editors) + Cardinality(Publishers)
    <3>1. Cardinality(Editors \cap Publishers) = 0
      BY <2>2
    <3> QED
      BY <2>1, <2>8, <3>1
  <2> HIDE DEF count, D
  <2> QED
    BY <2>1, <2>7, <2>8, <2>9
<1>3. F = [z \in D |-> F[z]]
  OBVIOUS
<1> HIDE DEF F, D
<1>4. PICK k \in Numbers : \A z \in D : F[z] # k
  BY <1>2, <1>3, NotAllSeen, Counting
<1> QED
  BY <1>1, <1>4 DEF NewNote

LEMMA KeyedFacts ==
  ASSUME TInv, NEW e \in Editors, NEW c \in Cells, NEW row \in Draft \cup {Nothing}
  PROVE  /\ row = Nothing => Keyed(e, c, row) = Nothing
         /\ row # Nothing => /\ Keyed(e, c, row) \in Row /\ Keyed(e, c, row) # Nothing
                             /\ Keyed(e, c, row).what = row.what
         /\ row # Nothing /\ row.id # Nothing => Keyed(e, c, row).id = row.id
         /\ row # Nothing /\ row.id = Nothing =>
               Keyed(e, c, row).id \in {c} \X Numbers /\ Keyed(e, c, row).id \notin KnownRows(e)
<1> DEFINE k == CHOOSE k \in Numbers : <<c, k>> \notin KnownRows(e)
<1>1. k \in Numbers /\ <<c, k>> \notin KnownRows(e)
  BY ANewKey
<1> HIDE DEF k
<1>2. Keyed(e, c, row) = IF row # Nothing /\ row.id = Nothing THEN [row EXCEPT !.id = <<c, k>>] ELSE row
  BY DEF Keyed, k
<1>3. CASE row = Nothing
  BY <1>2, <1>3
<1>4. CASE row # Nothing /\ row.id # Nothing
  <2>1. row \in Row
    BY <1>4 DEF Draft, Row
  <2> QED
    BY <1>2, <1>4, <2>1
<1>5. CASE row # Nothing /\ row.id = Nothing
  <2>1. row \in Draft /\ Keyed(e, c, row) = [row EXCEPT !.id = <<c, k>>]
    BY <1>2, <1>5
  <2>2. [row EXCEPT !.id = <<c, k>>] \in Row /\ [row EXCEPT !.id = <<c, k>>].id = <<c, k>>
        /\ [row EXCEPT !.id = <<c, k>>].what = row.what
    BY <1>1, <2>1 DEF Draft, Row, Ids
  <2> QED
    BY <1>1, <1>5, <2>1, <2>2, NothingFacts
<1> QED
  BY <1>3, <1>4, <1>5

LEMMA CommitTypes ==
  ASSUME TInv, NEW e \in Editors, Commit(e)
  PROVE  TInv'
<1>1. shift' \in [Cells -> Row \cup {Nothing}]
  <2>1. \A c \in Cells : c \in DOMAIN edit[e].draft =>
           Keyed(e, c, edit[e].draft[c]) \in Row \cup {Nothing}
    BY KeyedFacts, EditFacts DEF TInv
  <2> QED
    BY <2>1 DEF Commit, TInv, TypeOK
<1>2. pending' \in [Cells -> Waiter \cup {Nothing}]
  <2>0. edit[e].noted \subseteq DOMAIN edit[e].before
    BY DEF TInv, SoundEdit, Commit
  <2>1. \A c \in Cells : c \in edit[e].noted => Queue(e, c) \in Waiter
    BY <2>0, ANewNote, PendingFacts, EditFacts DEF Queue, Waiter, TInv
  <2> QED
    BY <2>1 DEF Commit, TInv, TypeOK
<1>3. told' \in [Cells -> Contents]
  BY DraftFacts DEF Commit, TInv, TypeOK
<1>4. edit' \in [Editors -> SoundEdit] /\ edit' \in [Editors -> EditRow]
  BY NoEditType DEF Commit, Abort, TInv, TypeOK, SoundEdit
<1>5. /\ held' \in [Cells -> Editors \cup {Nothing}]
      /\ queued' \in [Cells -> Editors \cup Publishers \cup {Nothing}]
  BY Letting DEF Commit, Abort, TInv
<1> QED
  BY <1>1, <1>2, <1>3, <1>4, <1>5 DEF Commit, TInv, TypeOK, clock

-----------------------------------------------------------------------------
(* The types: publishing                                                     *)

LEMMA NoMarksType == NoMarks \in [Media -> Time \cup {Nothing}]
  BY DEF NoMarks

LEMMA MarkedType ==
  ASSUME now \in Time, NEW n \in Notice, NEW m \in Media
  PROVE  Marked(n, m) \in Notice
<1>1. n.marks \in [Media -> Time \cup {Nothing}]
  BY DEF Notice
<1>2. Marked(n, m) = [n EXCEPT !.marks = [n.marks EXCEPT ![m] =
                          IF n.marks[m] = Nothing THEN now ELSE n.marks[m]]]
  BY DEF Marked, Notice
<1> QED
  BY <1>1, <1>2 DEF Notice

LEMMA ShownType ==
  ASSUME now \in Time, NEW log \in Seq(Notice), NEW p
  PROVE  Shown(log, p) \in Seq(Notice)
<1>1. \A i \in DOMAIN log : log[i] \in Notice
  OBVIOUS
<1>2. \A i \in DOMAIN log : Marked(log[i], "delivered") \in Notice
  BY <1>1, MarkedType DEF Media
<1> QED
  BY <1>1, <1>2 DEF Shown

LEMMA LoadTypes ==
  ASSUME TInv, NEW b \in Publishers, NEW of \in People \cup {Nothing}, NEW wait, Load(b, of, wait)
  PROVE  TInv'
<1> DEFINE row == [pub[b] EXCEPT !.pc = "loaded", !.of = of, !.todo = Waiting(of, wait)]
<1>1. pub[b] \in SoundRun /\ pub[b] \in RunRow /\ pub[b].pc = "idle"
  BY DEF TInv, TypeOK, Load
<1>2. Waiting(of, wait) \subseteq Cells \X Numbers
  BY PendingFacts DEF Waiting, TInv
<1>3. \A t, u \in Waiting(of, wait) : t[1] = u[1] => t = u
  BY DEF Waiting
<1>4. /\ row \in RunRow /\ row.pc = "loaded" /\ row.todo = Waiting(of, wait)
      /\ row.news = pub[b].news /\ row.rows = pub[b].rows
  BY <1>1, <1>2 DEF RunRow
<1>5. pub' = [pub EXCEPT ![b] = row]
  BY DEF Load
<1> HIDE DEF row
<1>6. row \in SoundRun
  BY <1>1, <1>3, <1>4 DEF SoundRun
<1> QED
  BY <1>5, <1>6, RunTypes DEF Load, TInv, TypeOK, clock, rows

\* The rows a run takes are those it read, where they still are.
LEMMA ThereFacts ==
  ASSUME TInv, NEW b \in Publishers, NEW p
  PROVE  LET there == {t \in {u \in pub[b].todo : u[1][1] = p} : StillThere(t)}
         IN  /\ {t[1] : t \in there} \subseteq Cells
             /\ \A t \in there : pending[t[1]] # Nothing /\ pending[t[1]].original \in Contents
             /\ [c \in {t[1] : t \in there} |-> pending[c].original] \in Some(Contents)
<1> DEFINE there == {t \in {u \in pub[b].todo : u[1][1] = p} : StillThere(t)}
<1>1. \A t \in there : t[1] \in Cells /\ pending[t[1]] # Nothing
  BY RunFacts DEF StillThere, TInv
<1>2. \A t \in there : pending[t[1]].original \in Contents
  BY <1>1, PendingFacts DEF TInv
<1>3. [c \in {t[1] : t \in there} |-> pending[c].original] \in [{t[1] : t \in there} -> Contents]
  BY <1>2
<1> HIDE DEF there
<1>4. {t[1] : t \in there} \in SUBSET Cells
  BY <1>1
<1>5. [c \in {t[1] : t \in there} |-> pending[c].original] \in Some(Contents)
  BY <1>3, <1>4, OnSomeDays
<1> QED
  BY <1>1, <1>2, <1>4, <1>5 DEF there

LEMMA LockRowsTypes ==
  ASSUME TInv, NEW b \in Publishers, NEW p \in People, LockRows(b, p)
  PROVE  TInv'
<1> DEFINE theirs == {t \in pub[b].todo : t[1][1] = p}
           there  == {t \in theirs : StillThere(t)}
           taken  == [c \in {t[1] : t \in there} |-> pending[c].original]
           less   == [pub[b] EXCEPT !.todo = pub[b].todo \ theirs]
           row    == IF there = {} THEN less ELSE [less EXCEPT !.pc = "locked", !.rows = taken]
<1>1. pub[b] \in SoundRun /\ pub[b] \in RunRow /\ pub[b].pc = "loaded" /\ pub[b].news = <<>>
  BY DEF TInv, TypeOK, LockRows, SoundRun
<1>2. taken \in Some(Contents)
  BY ThereFacts
<1>3. pub' = [pub EXCEPT ![b] = row]
  <2>1. row = IF there = {} THEN less
              ELSE [pub[b] EXCEPT !.todo = pub[b].todo \ theirs, !.pc = "locked", !.rows = taken]
    BY <1>1 DEF RunRow
  <2> QED
    BY <2>1, <1>1 DEF LockRows, RunRow
<1>4. queued' \in [Cells -> Editors \cup Publishers \cup {Nothing}]
  BY DEF LockRows, TakeRows, TInv, TypeOK
<1> HIDE DEF taken, theirs
<1>5. less \in RunRow /\ less.pc = "loaded" /\ less.news = <<>> /\ less.todo \subseteq pub[b].todo
  BY <1>1 DEF RunRow
<1> HIDE DEF less
<1>6. row \in RunRow /\ row.news = <<>> /\ row.todo \subseteq pub[b].todo
  BY <1>2, <1>5 DEF RunRow
<1> HIDE DEF row
<1>7. row \in SoundRun
  BY <1>1, <1>6, NoDays DEF SoundRun
<1> QED
  BY <1>3, <1>4, <1>7, RunTypes DEF LockRows, TInv, TypeOK, clock, rows

LEMMA PhotographNowTypes ==
  ASSUME TInv, NEW b \in Publishers, PhotographNow(b)
  PROVE  TInv'
<1> DEFINE news == {c \in DOMAIN pub[b].rows : StillAhead(c) /\ pub[b].rows[c] # Photo(c)}
           what == [c \in news |-> <<pub[b].rows[c], Photo(c)>>]
           row  == [pub[b] EXCEPT !.pc = "photographed", !.news = what]
<1>1. pub[b] \in SoundRun /\ pub[b] \in RunRow
  BY DEF TInv, TypeOK
<1>2. what \in [news -> Contents \X Contents] /\ news \subseteq Cells
  BY RunFacts, ShiftFacts DEF TInv
<1>3. what \in Some(Contents \X Contents) /\ DOMAIN what \subseteq DOMAIN pub[b].rows
  <2>1. DOMAIN what \subseteq DOMAIN pub[b].rows
    OBVIOUS
  <2> HIDE DEF what, news
  <2>2. news \in SUBSET Cells
    BY <1>2
  <2> QED
    BY <1>2, <2>1, <2>2, OnSomeDays
<1>4. pub' = [pub EXCEPT ![b] = row]
  BY DEF PhotographNow
<1> HIDE DEF what
<1>5. /\ row \in RunRow /\ row.pc = "photographed" /\ row.todo = pub[b].todo /\ row.news = what
      /\ row.rows = pub[b].rows
  BY <1>1, <1>3 DEF RunRow
<1> HIDE DEF row
<1>6. row \in SoundRun
  BY <1>1, <1>3, <1>5 DEF SoundRun
<1> QED
  BY <1>4, <1>6, RunTypes DEF PhotographNow, TInv, TypeOK, clock, rows

\* The notice a run writes: of one of its days, to whose it is.
LEMMA NewNotice ==
  ASSUME TInv, NEW b \in Publishers, pub[b].news # <<>>
  PROVE  LET who == (CHOOSE c \in DOMAIN pub[b].rows : TRUE)[1] IN
         /\ DOMAIN pub[b].news # {} /\ DOMAIN pub[b].news \subseteq DOMAIN pub[b].rows
         /\ \E c \in DOMAIN pub[b].rows : c = (CHOOSE x \in DOMAIN pub[b].rows : TRUE)
         /\ [who |-> who, says |-> pub[b].news, marks |-> NoMarks] \in Notice
<1>1. DOMAIN pub[b].news # {} /\ DOMAIN pub[b].news \subseteq DOMAIN pub[b].rows
  <2>1. pub[b] \in SoundRun
    BY DEF TInv
  <2> QED
    BY <2>1, RunFacts, NoDays DEF SoundRun, TInv
<1>2. \E c \in DOMAIN pub[b].rows : c = (CHOOSE x \in DOMAIN pub[b].rows : TRUE)
  BY <1>1
<1>3. (CHOOSE c \in DOMAIN pub[b].rows : TRUE)[1] \in People
  BY <1>2, RunFacts DEF TInv, Cells
<1>4. pub[b].news \in Some(Contents \X Contents)
  BY RunFacts DEF RunRow, TInv
<1> QED
  BY <1>1, <1>2, <1>3, <1>4, NoMarksType DEF Notice

LEMMA PublishTypes ==
  ASSUME TInv, NEW b \in Publishers, Publish(b)
  PROVE  TInv'
<1> DEFINE who == (CHOOSE c \in DOMAIN pub[b].rows : TRUE)[1]
           log == IF pub[b].news = <<>> THEN notices
                  ELSE Append(notices, [who |-> who, says |-> pub[b].news, marks |-> NoMarks])
           row == [NoRun EXCEPT !.pc = IF pub[b].todo = {} THEN "idle" ELSE "loaded",
                                !.of = IF pub[b].todo = {} THEN Nothing ELSE pub[b].of, !.todo = pub[b].todo,
                                !.sends = IF pub[b].news = <<>> THEN {} ELSE {Len(log)} \cap Followed]
<1>1. log \in Seq(Notice)
  <2>1. CASE pub[b].news = <<>>
    BY <2>1 DEF TInv, TypeOK
  <2>2. CASE pub[b].news # <<>>
    <3>1. [who |-> who, says |-> pub[b].news, marks |-> NoMarks] \in Notice
      BY <2>2, NewNotice
    <3> HIDE DEF who
    <3> QED
      BY <2>2, <3>1 DEF TInv, TypeOK
  <2> QED
    BY <2>1, <2>2
<1>2. /\ pub' = [pub EXCEPT ![b] = row] /\ notices' = (IF b \in Pages THEN Shown(log, pub[b].of) ELSE log)
      /\ queued' = Released(queued, b)
      /\ pending' = [c \in Cells |-> IF c \in Forgotten(b) THEN Nothing ELSE pending[c]]
      /\ told' = [c \in Cells |-> IF c \in DOMAIN pub[b].news THEN pub[b].news[c][2] ELSE told[c]]
      /\ UNCHANGED <<shift, active, left, held, edit, clock>>
  BY DEF Publish
<1>3. Len(log) \in Nat
  BY <1>1
<1> HIDE DEF log
<1>4. notices' \in Seq(Notice)
  BY <1>1, <1>2, ShownType DEF TInv, TypeOK
<1>5. row \in SoundRun
  <2>1. NoRun \in RunRow
    BY NoEditType DEF SoundRun
  <2>2. pub[b].todo \in SUBSET (Cells \X Numbers) /\ pub[b].of \in People \cup {Nothing}
    BY RunFacts DEF TInv
  <2> DEFINE sends == IF pub[b].news = <<>> THEN {} ELSE {Len(log)} \cap Followed
  <2>3. sends \in SUBSET Nat
    BY <1>3
  <2> HIDE DEF sends
  <2>4. row \in RunRow /\ row.todo = pub[b].todo /\ row.news = <<>> /\ row.rows = <<>>
    BY <2>1, <2>2, <2>3 DEF RunRow, NoRun, sends
  <2>5. pub[b] \in SoundRun
    BY DEF TInv
  <2> HIDE DEF row
  <2> QED
    BY <2>4, <2>5, NoDays DEF SoundRun
<1> HIDE DEF row
<1>6. pub' \in [Publishers -> SoundRun] /\ pub' \in [Publishers -> RunRow]
  BY <1>2, <1>5 DEF TInv, TypeOK, SoundRun
<1>7. pending' \in [Cells -> Waiter \cup {Nothing}]
  BY <1>2 DEF TInv, TypeOK
<1>8. told' \in [Cells -> Contents]
  BY <1>2, RunFacts DEF TInv, TypeOK
<1>9. queued' \in [Cells -> Editors \cup Publishers \cup {Nothing}]
  BY <1>2, Letting DEF TInv
<1> QED
  BY <1>2, <1>4, <1>6, <1>7, <1>8, <1>9 DEF TInv, TypeOK, clock

LEMMA FinishTypes ==
  ASSUME TInv, NEW b \in Publishers, Finish(b)
  PROVE  TInv'
<1>1. notices' \in Seq(Notice)
  BY ShownType DEF Finish, TInv, TypeOK
<1> QED
  BY <1>1, NoEditType, RunTypes DEF Finish, TInv, TypeOK, clock

LEMMA SendTypes ==
  ASSUME TInv, NEW b \in Publishers, NEW i \in DOMAIN notices, Send(b, i)
  PROVE  TInv'
<1>1. notices' \in Seq(Notice)
  <2>1. PICK through \in SUBSET Channels :
           notices' = [notices EXCEPT ![i].marks =
              [m \in DOMAIN @ |-> IF m \in through /\ @[m] = Nothing THEN now ELSE @[m]]]
    BY DEF Send
  <2>0. notices[i] \in Notice /\ now \in Time
    BY DEF TInv, TypeOK
  <2>2. notices[i] \in Notice /\ notices[i].marks \in [Media -> Time \cup {Nothing}] /\ now \in Time
    BY <2>0 DEF Notice
  <2> DEFINE marks == [m \in DOMAIN notices[i].marks |->
                         IF m \in through /\ notices[i].marks[m] = Nothing THEN now ELSE notices[i].marks[m]]
             n == [notices[i] EXCEPT !.marks = marks]
  <2>3. marks \in [Media -> Time \cup {Nothing}]
    BY <2>2
  <2>4. notices' = [notices EXCEPT ![i] = n]
    BY <2>1
  <2> HIDE DEF marks
  <2>5. n \in Notice
    BY <2>2, <2>3 DEF Notice
  <2> HIDE DEF n
  <2>6. notices \in Seq(Notice)
    BY DEF TInv, TypeOK
  <2> QED
    BY <2>4, <2>5, <2>6
<1> DEFINE row == [pub[b] EXCEPT !.sends = pub[b].sends \ {i}]
<1>2. row \in SoundRun
  <2>1. pub[b] \in SoundRun /\ pub[b] \in RunRow
    BY DEF TInv, TypeOK
  <2>2. /\ row \in RunRow /\ row.todo = pub[b].todo /\ row.news = pub[b].news /\ row.rows = pub[b].rows
        /\ row.pc = pub[b].pc
    BY <2>1 DEF RunRow
  <2> HIDE DEF row
  <2> QED
    BY <2>1, <2>2 DEF SoundRun
<1>3. pub' = [pub EXCEPT ![b] = row]
  BY DEF Send
<1> HIDE DEF row
<1> QED
  BY <1>1, <1>2, <1>3, RunTypes DEF Send, TInv, TypeOK, clock

-----------------------------------------------------------------------------
(* The types: the rest                                                       *)

LEMMA NoticesTypes ==
  ASSUME TInv, notices' \in Seq(Notice),
         UNCHANGED <<shift, pending, active, told, left, held, queued, edit, pub, clock>>
  PROVE  TInv'
  BY DEF TInv, TypeOK, clock

LEMMA ReadTypes ==
  ASSUME TInv, NEW p \in People, NEW i \in DOMAIN notices, Read(p, i)
  PROVE  TInv'
<1> DEFINE n == Marked(Marked(notices[i], "delivered"), "read")
<1>1. notices[i] \in Notice /\ now \in Time /\ notices \in Seq(Notice)
  BY DEF TInv, TypeOK
<1>2. n \in Notice
  BY <1>1, MarkedType DEF Media
<1>3. notices' = [notices EXCEPT ![i] = n]
  BY DEF Read
<1> HIDE DEF n
<1>4. notices' \in Seq(Notice)
  BY <1>1, <1>2, <1>3
<1> QED
  BY <1>4, NoticesTypes DEF Read

LEMMA StaffTypes ==
  ASSUME TInv, NEW p \in People, ShowPage(p) \/ Deactivate(p) \/ Reactivate(p)
  PROVE  TInv'
<1>1. CASE ShowPage(p)
  BY <1>1, ShownType, NoticesTypes DEF ShowPage, TInv, TypeOK
<1>2. CASE Deactivate(p)
  BY <1>2, RosterAssumption DEF Deactivate, TInv, TypeOK, rows
<1>3. CASE Reactivate(p)
  BY <1>3 DEF Reactivate, TInv, TypeOK, rows, clock
<1> QED
  BY <1>1, <1>2, <1>3

LEMMA CrashRunTypes ==
  ASSUME TInv, NEW b \in Publishers, CrashRun(b)
  PROVE  TInv'
<1>1. mishaps' \in 0 .. MaxMishaps
  BY RosterAssumption DEF CrashRun, TInv, TypeOK
<1> QED
  BY <1>1, Letting, NoEditType, RunTypes DEF CrashRun, TInv, TypeOK, rows

LEMMA TickTypes ==
  ASSUME TInv, Tick
  PROVE  TInv'
<1>1. now' \in Time
  BY TimeFacts DEF Tick, TInv, TypeOK, Time
<1> QED
  BY <1>1 DEF Tick, TInv, TypeOK, rows

LEMMA InitTypes == Init => TInv
<1> SUFFICES ASSUME Init PROVE TInv
  OBVIOUS
<1>1. shift \in [Cells -> Row \cup {Nothing}]
  <2>1. \A c \in Cells : Start[c] \in Shifts \cup {Nothing} /\ <<c, 0>> \in Ids
    BY RosterAssumption, Counting DEF Ids, Numbers
  <2> QED
    BY <2>1 DEF Init, Row
<1>2. edit \in [Editors -> SoundEdit] /\ edit \in [Editors -> EditRow]
  BY NoEditType DEF Init, SoundEdit
<1>3. pub \in [Publishers -> SoundRun] /\ pub \in [Publishers -> RunRow]
  BY NoEditType DEF Init, SoundRun
<1>4. told \in [Cells -> Contents]
  BY RosterAssumption DEF Init, Contents
<1>5. now \in Time /\ edits \in 0 .. MaxEdits /\ mishaps \in 0 .. MaxMishaps
  BY RosterAssumption, TimeFacts DEF Init
<1> QED
  BY <1>1, <1>2, <1>3, <1>4, <1>5 DEF Init, TInv, TypeOK

\* What may happen, one action at a time.
StartOf(e) ==
    \/ \E want \in Strokes : Redraw(e, want)
    \/ \E c \in Cells, what \in Contents : Add(e, c, what)
    \/ \E c, to \in Cells, what \in Contents : Change(e, c, to, what)
    \/ \E c \in Cells : Remove(e, c)
    \/ \E c \in Cells, p \in People : Reassign(e, c, p)

LEMMA Steps ==
  ASSUME Next
  PROVE  \/ \E e \in Editors : StartOf(e) \/ Editing(e) \/ CrashEdit(e)
         \/ \E b \in Publishers, of \in People \cup {Nothing} : \E wait \in {0, Wait} : Load(b, of, wait)
         \/ \E b \in Publishers : Publishing(b) \/ CrashRun(b)
         \/ \E p \in People, i \in DOMAIN notices : Read(p, i)
         \/ \E p \in People : ShowPage(p) \/ Deactivate(p) \/ Reactivate(p)
         \/ Tick
<1>1. ASSUME NEW e \in Editors, NEW want \in Strokes, NEW to \in DOMAIN want,
             Add(e, to, want[to]) \/ \E c \in Cells : Change(e, c, to, want[to])
      PROVE  StartOf(e)
  <2>1. to \in Cells /\ want[to] \in Contents
    BY StrokeFacts
  <2> QED
    BY <1>1, <2>1 DEF StartOf
<1>2. ASSUME NEW e \in Editors, \/ \E want \in Strokes : Redraw(e, want)
                                \/ \E c \in Cells : Remove(e, c)
                                \/ \E c \in Cells, p \in People : Reassign(e, c, p)
      PROVE  StartOf(e)
  BY <1>2 DEF StartOf
<1>3. ASSUME NEW b \in Publishers, RunJob(b) \/ \E p \in People : OpenPage(b, p)
      PROVE  \E of \in People \cup {Nothing} : \E wait \in {0, Wait} : Load(b, of, wait)
  BY <1>3 DEF RunJob, OpenPage
<1> QED
  BY <1>1, <1>2, <1>3 DEF Next

LEMMA TypesStep == TInv /\ [Next]_vars => TInv'
<1> SUFFICES ASSUME TInv, [Next]_vars PROVE TInv'
  OBVIOUS
<1>1. CASE UNCHANGED vars
  BY <1>1 DEF vars, TInv, TypeOK
<1>2. ASSUME NEW e \in Editors, StartOf(e) PROVE TInv'
  BY <1>2, RedrawTypes, AddTypes, ChangeTypes, RemoveTypes, ReassignTypes DEF StartOf
<1>3. ASSUME NEW e \in Editors, Editing(e) PROVE TInv'
  BY <1>3, PhotographTypes, AimTypes, WriteTypes, LookUpTypes, NoteTypes, CommitTypes DEF Editing
<1>4. ASSUME NEW e \in Editors, CrashEdit(e) PROVE TInv'
  BY <1>4, AbortTypes DEF CrashEdit
<1>5. ASSUME NEW b \in Publishers, Publishing(b) \/ CrashRun(b) PROVE TInv'
  BY <1>5, LockRowsTypes, PhotographNowTypes, PublishTypes, FinishTypes, SendTypes, CrashRunTypes
     DEF Publishing
<1> QED
  BY <1>1, <1>2, <1>3, <1>4, <1>5, Steps, LoadTypes, ReadTypes, StaffTypes, TickTypes

\* Everything keeps to its type (shifts/models.py, notices.py).
THEOREM TypeCorrect == Spec => []TypeOK
<1>1. Spec => []TInv
  BY InitTypes, TypesStep, PTL DEF Spec
<1>2. TInv => TypeOK
  BY DEF TInv
<1> QED
  BY <1>1, <1>2, PTL

-----------------------------------------------------------------------------
(* What a request under way knows                                            *)

\* Somebody is to be told if this day changes.
Concerned(c) == StillAhead(c) /\ c[1] \notin left

\* No two days have the same row.
IdsUnique ==
    \A c, d \in Cells :
        shift[c] # Nothing /\ shift[d] # Nothing /\ shift[c].id = shift[d].id => c = d

AbsentHaveLeft == People \ active \subseteq left

Aiming(e)  == edit[e].pc \in {"sent", "photographed", "aimed"}
Holding(e) == edit[e].pc \in {"written", "looked", "noted"}
Naming(e)  == edit[e].op \notin {"replace", "add"}

\* The row it was sent about is on one of its days, and goes to one of them.
KnowsItsRow(e) ==
    Aiming(e) /\ Naming(e) =>
        /\ \E c \in DOMAIN edit[e].want : Where(edit[e].id) = {c}
        /\ \A x, y \in Going(e) : x = y
        /\ edit[e].op = "move" => \A x, y \in DOMAIN edit[e].want : x[2] = y[2]

\* A row it writes is a new one, or the one of one of its days.
DraftsItsRows(e) ==
    /\ DOMAIN edit[e].draft \subseteq DOMAIN edit[e].before
    /\ \A c \in DOMAIN edit[e].draft : edit[e].draft[c] # Nothing /\ edit[e].draft[c].id # Nothing =>
          /\ \A d \in DOMAIN edit[e].draft : edit[e].draft[d] # Nothing => d = c
          /\ \E h \in DOMAIN edit[e].draft : Where(edit[e].draft[c].id) = {h}

\* What was there before is there still, and what it will tell is what differs.
KnowsTheDays(e) ==
    /\ edit[e].pc \in {"photographed", "aimed"} => DOMAIN edit[e].before = DOMAIN edit[e].want
    /\ \A c \in DOMAIN edit[e].before : edit[e].before[c] = Photo(c)
    /\ edit[e].pc \in {"looked", "noted"} =>
          /\ edit[e].noted \subseteq Differs(e)
          /\ \A c \in Differs(e) : Concerned(c) => c \in edit[e].noted

HoldsItsNotes(e) == edit[e].pc = "noted" => \A c \in edit[e].noted : queued[c] = e

EditKnows(e) ==
    /\ KnowsItsRow(e)
    /\ Holding(e) => DraftsItsRows(e)
    /\ KnowsTheDays(e)
    /\ HoldsItsNotes(e)

-----------------------------------------------------------------------------
(* What a run of the job, or a page, knows                                   *)

HoldsItsRows(b) ==
    pub[b].pc \in {"locked", "photographed"} =>
        /\ \A c \in DOMAIN pub[b].rows :
              queued[c] = b /\ pending[c] # Nothing /\ pub[b].rows[c] = pending[c].original
        /\ \A c, d \in DOMAIN pub[b].rows : c[1] = d[1]

KnowsTheNews(b) ==
    pub[b].pc = "photographed" =>
        \A c \in DOMAIN pub[b].rows : Concerned(c) =>
            /\ c \in DOMAIN pub[b].news <=> pub[b].rows[c] # Photo(c)
            /\ c \in DOMAIN pub[b].news => pub[b].news[c] = <<pub[b].rows[c], Photo(c)>>

RunKnows(b) == HoldsItsRows(b) /\ KnowsTheNews(b)

\* What waits says what was told, and what does not wait is as it was told.
ToldOrWaiting(c) ==
    Concerned(c) => told[c] = IF pending[c] = Nothing THEN Photo(c) ELSE pending[c].original

KInv ==
    /\ IdsUnique /\ AbsentHaveLeft
    /\ \A e \in Editors : EditKnows(e)
    /\ \A b \in Publishers : RunKnows(b)
    /\ \A c \in Cells : ToldOrWaiting(c)

-----------------------------------------------------------------------------
(* What the others know when somebody goes on                                *)

\* Whoever holds a row of the queue still does, but for x.
QueueKept(x) == \A c \in Cells : queued[c] \notin {x, Nothing} => queued'[c] = queued[c]

LEMMA LettingGo ==
  ASSUME TInv, NEW x
  PROVE  /\ queued' = Released(queued, x) => QueueKept(x)
         /\ queued' = queued => QueueKept(x)
  BY DEF TInv, TypeOK, Released, QueueKept

LEMMA Taking ==
  ASSUME TInv, NEW x, NEW S, \A c \in S : Free(queued, x, c),
         queued' = [c \in Cells |-> IF c \in S THEN x ELSE queued[c]]
  PROVE  QueueKept(x) /\ \A c \in S \cap Cells : queued'[c] = x
  BY DEF TInv, TypeOK, Free, QueueKept

\* A day is over for good, and who has left has left.
FewerConcerned == \A c \in Cells : Concerned(c)' => Concerned(c)

LEMMA EditKept ==
  ASSUME TInv, NEW d \in Editors, EditKnows(d), edit'[d] = edit[d],
         NEW x, QueueKept(x), x # d, FewerConcerned,
         \A c \in About(d) : shift'[c] = shift[c],
         \A c \in About(d) : \A i : Where(i) = {c} => Where(i)' = {c}
  PROVE  EditKnows(d)'
<1>0. /\ About(d) = DOMAIN edit[d].want \cup DOMAIN edit[d].before
      /\ \A c \in About(d) : Photo(c)' = Photo(c) /\ PhotoOf(d, c)' = PhotoOf(d, c)
  BY DEF About, Photo, PhotoOf
<1>1. KnowsItsRow(d)'
  <2>1. Going(d)' = Going(d) /\ (Aiming(d)' <=> Aiming(d)) /\ (Naming(d)' <=> Naming(d))
    BY DEF Going, Aiming, Naming
  <2>2. KnowsItsRow(d)
    BY DEF EditKnows
  <2> QED
    BY <1>0, <2>1, <2>2 DEF KnowsItsRow
<1>2. (Holding(d) => DraftsItsRows(d))'
  <2>1. Holding(d)' <=> Holding(d)
    BY DEF Holding
  <2>2. Holding(d) => DraftsItsRows(d)
    BY DEF EditKnows
  <2> QED
    BY <1>0, <2>1, <2>2 DEF DraftsItsRows
<1>3. KnowsTheDays(d)'
  <2>1. Differs(d)' = Differs(d) /\ Differs(d) \subseteq About(d) /\ About(d) \subseteq Cells
    BY <1>0, EditFacts DEF Differs, TInv
  <2>2. KnowsTheDays(d)
    BY DEF EditKnows
  <2> QED
    BY <1>0, <2>1, <2>2 DEF KnowsTheDays, FewerConcerned
<1>4. HoldsItsNotes(d)'
  <2> SUFFICES ASSUME edit[d].pc = "noted", NEW c \in edit[d].noted PROVE queued'[c] = d
    BY DEF HoldsItsNotes
  <2>1. queued[c] = d /\ c \in Cells
    BY EditFacts DEF EditKnows, HoldsItsNotes, TInv
  <2> QED
    BY <2>1, NothingFacts DEF QueueKept
<1> QED
  BY <1>1, <1>2, <1>3, <1>4 DEF EditKnows

LEMMA RunKept ==
  ASSUME TInv, NEW b \in Publishers, RunKnows(b), pub'[b] = pub[b],
         NEW x, QueueKept(x), x # b, FewerConcerned,
         \A c \in Cells : queued[c] = b =>
            pending'[c] = pending[c] /\ (Concerned(c) => Photo(c)' = Photo(c))
  PROVE  RunKnows(b)'
<1>1. ASSUME pub[b].pc \in {"locked", "photographed"}, NEW c \in DOMAIN pub[b].rows
      PROVE  queued[c] = b /\ queued'[c] = b /\ c \in Cells
  <2>1. queued[c] = b /\ c \in Cells
    BY <1>1, RunFacts DEF RunKnows, HoldsItsRows, TInv
  <2> QED
    BY <2>1, NothingFacts DEF QueueKept
<1>2. HoldsItsRows(b)'
  BY <1>1 DEF RunKnows, HoldsItsRows
<1>3. KnowsTheNews(b)'
  BY <1>1 DEF RunKnows, KnowsTheNews, FewerConcerned
<1> QED
  BY <1>2, <1>3 DEF RunKnows

\* The roster and its queue are left alone.
Untouched == UNCHANGED <<shift, pending, told, left, now>>

LEMMA UntouchedFacts ==
  ASSUME Untouched
  PROVE  /\ FewerConcerned
         /\ \A c \in Cells : Photo(c)' = Photo(c) /\ (Concerned(c)' <=> Concerned(c))
         /\ \A i : Where(i)' = Where(i)
         /\ KInv => IdsUnique' /\ \A c \in Cells : ToldOrWaiting(c)'
<1>1. \A c \in Cells : Photo(c)' = Photo(c) /\ (Concerned(c)' <=> Concerned(c))
  BY DEF Untouched, Photo, Concerned, StillAhead, Today
<1>2. KInv => IdsUnique' /\ \A c \in Cells : ToldOrWaiting(c)'
  BY <1>1 DEF Untouched, KInv, IdsUnique, ToldOrWaiting
<1> QED
  BY <1>1, <1>2 DEF FewerConcerned, Untouched, Where

\* A request goes on: what it knows is left to show.
LEMMA EditStep ==
  ASSUME TInv, KInv, NEW e \in Editors, Untouched, active' = active, pub' = pub,
         \A d \in Editors \ {e} : edit'[d] = edit[d], QueueKept(e), EditKnows(e)'
  PROVE  KInv'
<1>1. \A d \in Editors : EditKnows(d)'
  <2> SUFFICES ASSUME NEW d \in Editors, d # e PROVE EditKnows(d)'
    OBVIOUS
  <2> QED
    BY UntouchedFacts, EditKept DEF KInv, Untouched
<1>2. \A b \in Publishers : RunKnows(b)'
  <2> SUFFICES ASSUME NEW b \in Publishers PROVE RunKnows(b)'
    OBVIOUS
  <2>1. b # e
    BY NothingFacts
  <2> QED
    BY <2>1, UntouchedFacts, RunKept DEF KInv, Untouched
<1> QED
  BY <1>1, <1>2, UntouchedFacts DEF KInv, AbsentHaveLeft, Untouched

\* So with a run.
LEMMA RunStep ==
  ASSUME TInv, KInv, NEW b \in Publishers, Untouched, active' = active, edit' = edit,
         \A d \in Publishers \ {b} : pub'[d] = pub[d], QueueKept(b), RunKnows(b)'
  PROVE  KInv'
<1>1. \A d \in Publishers : RunKnows(d)'
  <2> SUFFICES ASSUME NEW d \in Publishers, d # b PROVE RunKnows(d)'
    OBVIOUS
  <2> QED
    BY UntouchedFacts, RunKept DEF KInv, Untouched
<1>2. \A d \in Editors : EditKnows(d)'
  <2> SUFFICES ASSUME NEW d \in Editors PROVE EditKnows(d)'
    OBVIOUS
  <2>1. d # b
    BY NothingFacts
  <2> QED
    BY <2>1, UntouchedFacts, EditKept DEF KInv, Untouched
<1> QED
  BY <1>1, <1>2, UntouchedFacts DEF KInv, AbsentHaveLeft, Untouched

\* And with a step of nobody of them.
LEMMA NobodyStep ==
  ASSUME TInv, KInv, UNCHANGED <<shift, pending, told, edit, pub, queued>>, FewerConcerned,
         AbsentHaveLeft'
  PROVE  KInv'
<1>0. QueueKept(Nothing)
  BY LettingGo
<1>1. \A i : Where(i)' = Where(i)
  BY DEF Where
<1>2. \A c \in Cells : Photo(c)' = Photo(c)
  BY DEF Photo
<1>3. \A d \in Editors : EditKnows(d)'
  BY <1>0, <1>1, EditKept, NothingFacts DEF KInv
<1>4. \A b \in Publishers : RunKnows(b)'
  BY <1>0, <1>2, RunKept, NothingFacts DEF KInv
<1>5. IdsUnique' /\ \A c \in Cells : ToldOrWaiting(c)'
  BY <1>2 DEF KInv, IdsUnique, ToldOrWaiting, FewerConcerned
<1> QED
  BY <1>3, <1>4, <1>5 DEF KInv

-----------------------------------------------------------------------------
(* Editing                                                                   *)

LEMMA AbortKnows ==
  ASSUME TInv, KInv, NEW e \in Editors, Abort(e), UNCHANGED <<rows, active, told, left, pub, clock>>
  PROVE  KInv'
<1>1. edit'[e] = NoEdit /\ \A d \in Editors \ {e} : edit'[d] = edit[d]
  BY DEF Abort, TInv, TypeOK
<1>2. EditKnows(e)'
  BY <1>1, NoDays DEF EditKnows, KnowsItsRow, Aiming, Holding, KnowsTheDays, HoldsItsNotes, NoEdit
<1>3. Untouched /\ QueueKept(e)
  BY LettingGo DEF Abort, Untouched, rows, clock
<1> QED
  BY <1>1, <1>2, <1>3, EditStep

\* A row is on one day.
LEMMA OneDayOfARow ==
  ASSUME IdsUnique, NEW c \in Cells, shift[c] # Nothing
  PROVE  Where(shift[c].id) = {c}
  BY DEF IdsUnique, Where

LEMMA BeginKnows ==
  ASSUME TInv, KInv, NEW e \in Editors, NEW op, NEW want, NEW id, Begin(e, op, want, id),
         op \notin {"replace", "add"} =>
            /\ \E x \in DOMAIN want : Where(id) = {x}
            /\ \A x, y \in DOMAIN want : want[x] # Nothing /\ want[y] # Nothing => x = y
            /\ op = "move" => \A x, y \in DOMAIN want : x[2] = y[2]
  PROVE  KInv'
<1> DEFINE row == [NoEdit EXCEPT !.pc = "sent", !.op = op, !.want = want, !.id = id]
<1>1. /\ row.pc = "sent" /\ row.op = op /\ row.want = want /\ row.id = id
      /\ row.before = <<>> /\ row.noted = {}
  BY DEF NoEdit
<1> HIDE DEF row
<1>2. edit'[e] = row /\ (\A d \in Editors \ {e} : edit'[d] = edit[d]) /\ shift' = shift
  BY DEF Begin, TInv, TypeOK, rows, row
<1>3. KnowsItsRow(e)'
  BY <1>1, <1>2 DEF KnowsItsRow, Naming, Where, Going
<1>4. EditKnows(e)'
  BY <1>1, <1>2, <1>3, NoDays DEF EditKnows, Holding, KnowsTheDays, HoldsItsNotes
<1>5. Untouched /\ QueueKept(e)
  BY LettingGo DEF Begin, Untouched, rows
<1> QED
  BY <1>2, <1>4, <1>5, EditStep DEF Begin

LEMMA StartKnows ==
  ASSUME TInv, KInv, NEW e \in Editors, StartOf(e)
  PROVE  KInv'
<1>1. ASSUME NEW want \in Strokes, Redraw(e, want) PROVE KInv'
  BY <1>1, BeginKnows DEF Redraw
<1>2. ASSUME NEW c \in Cells, NEW what \in Contents, Add(e, c, what) PROVE KInv'
  BY <1>2, BeginKnows DEF Add
<1>3. ASSUME NEW c \in Cells, NEW to \in Cells, NEW what \in Contents, Change(e, c, to, what) PROVE KInv'
  <2> DEFINE want == [x \in {c, to} |-> IF x = to THEN what ELSE Nothing]
  <2>1. Begin(e, "change", want, shift[c].id) /\ Where(shift[c].id) = {c}
    BY <1>3, OneDayOfARow DEF Change, KInv
  <2>2. c \in DOMAIN want /\ \A x, y \in DOMAIN want : want[x] # Nothing /\ want[y] # Nothing => x = y
    OBVIOUS
  <2> HIDE DEF want
  <2> QED
    BY <2>1, <2>2, BeginKnows
<1>4. ASSUME NEW c \in Cells, Remove(e, c) PROVE KInv'
  <2> DEFINE want == [x \in {c} |-> Nothing]
  <2>1. Begin(e, "remove", want, shift[c].id) /\ Where(shift[c].id) = {c}
    BY <1>4, OneDayOfARow DEF Remove, KInv
  <2>2. c \in DOMAIN want /\ \A x \in DOMAIN want : want[x] = Nothing
    OBVIOUS
  <2> HIDE DEF want
  <2> QED
    BY <2>1, <2>2, BeginKnows
<1>5. ASSUME NEW c \in Cells, NEW p \in People, Reassign(e, c, p) PROVE KInv'
  <2> DEFINE to == <<p, c[2]>>
             want == [x \in {c, to} |-> IF x = to THEN shift[c].what ELSE Nothing]
  <2>1. Begin(e, "move", want, shift[c].id) /\ Where(shift[c].id) = {c} /\ to[2] = c[2]
    BY <1>5, OneDayOfARow DEF Reassign, KInv
  <2> HIDE DEF to
  <2>2. /\ c \in DOMAIN want /\ \A x, y \in DOMAIN want : want[x] # Nothing /\ want[y] # Nothing => x = y
        /\ \A x, y \in DOMAIN want : x[2] = y[2]
    BY <2>1
  <2> HIDE DEF want
  <2> QED
    BY <2>1, <2>2, BeginKnows
<1> QED
  BY <1>1, <1>2, <1>3, <1>4, <1>5 DEF StartOf

\* The photograph before.
LEMMA PhotographKnows ==
  ASSUME TInv, KInv, NEW e \in Editors, Photograph(e)
  PROVE  KInv'
<1> DEFINE before == [c \in DOMAIN edit[e].want |-> Photo(c)]
           row == [edit[e] EXCEPT !.pc = IF edit[e].op = "replace" THEN "photographed" ELSE "aimed",
                                  !.before = before]
<1>1. DOMAIN before = DOMAIN edit[e].want /\ \A c \in DOMAIN before : before[c] = Photo(c)
  OBVIOUS
<1> HIDE DEF before
<1>2. edit[e] \in EditRow
  BY DEF TInv, TypeOK
<1>3. /\ row.pc \in {"photographed", "aimed"} /\ row.before = before
      /\ row.op = edit[e].op /\ row.want = edit[e].want /\ row.id = edit[e].id
  BY <1>2 DEF EditRow
<1> HIDE DEF row
<1>4. edit'[e] = row /\ \A d \in Editors \ {e} : edit'[d] = edit[d]
  BY DEF Photograph, TInv, TypeOK, row, before
<1>5. Untouched /\ QueueKept(e)
  BY LettingGo DEF Photograph, Untouched, rows, clock
<1>6. EditKnows(e)'
  <2>1. KnowsItsRow(e)'
    <3>1. KnowsItsRow(e) /\ Aiming(e)
      BY DEF KInv, EditKnows, Photograph, Aiming
    <3>2. Going(e)' = Going(e) /\ (Naming(e)' <=> Naming(e))
      BY <1>3, <1>4 DEF Going, Naming
    <3> QED
      BY <1>3, <1>4, <1>5, <3>1, <3>2, UntouchedFacts DEF KnowsItsRow
  <2>2. KnowsTheDays(e)' /\ HoldsItsNotes(e)'
    BY <1>1, <1>3, <1>4, <1>5 DEF KnowsTheDays, HoldsItsNotes, Photo, Untouched
  <2> QED
    BY <1>3, <1>4, <2>1, <2>2 DEF EditKnows, Holding
<1> QED
  BY <1>4, <1>5, <1>6, EditStep DEF Photograph

LEMMA AimKnows ==
  ASSUME TInv, KInv, NEW e \in Editors, Aim(e)
  PROVE  KInv'
<1> DEFINE seen == {shift[c].id : c \in {x \in DOMAIN edit[e].want : shift[x] # Nothing}}
           row == [edit[e] EXCEPT !.pc = "aimed", !.seen = seen]
<1>1. edit[e] \in EditRow /\ edit[e].pc = "photographed"
  BY DEF TInv, TypeOK, Aim
<1> HIDE DEF seen
<1>2. /\ row.pc = "aimed" /\ row.before = edit[e].before
      /\ row.op = edit[e].op /\ row.want = edit[e].want /\ row.id = edit[e].id
  BY <1>1 DEF EditRow
<1> HIDE DEF row
<1>3. edit'[e] = row /\ \A d \in Editors \ {e} : edit'[d] = edit[d]
  BY DEF Aim, TInv, TypeOK, row, seen
<1>4. Untouched /\ QueueKept(e)
  BY LettingGo DEF Aim, Untouched, rows, clock
<1>5. EditKnows(e)'
  <2>1. KnowsItsRow(e)'
    BY <1>1, <1>2, <1>3, <1>4, UntouchedFacts
       DEF KInv, EditKnows, KnowsItsRow, Aiming, Naming, Going
  <2>2. KnowsTheDays(e)' /\ HoldsItsNotes(e)'
    BY <1>1, <1>2, <1>3, <1>4 DEF KInv, EditKnows, KnowsTheDays, HoldsItsNotes, Photo, Untouched
  <2> QED
    BY <1>2, <1>3, <2>1, <2>2 DEF EditKnows, Holding
<1> QED
  BY <1>3, <1>4, <1>5, EditStep DEF Aim

\* A request writes on its own days, and moves the row of one of them.
LEMMA WritesItsRows ==
  ASSUME TInv, NEW e \in Editors, EditKnows(e), edit[e].pc = "aimed", ~Refused(e)
  PROVE  /\ Touched(e) \subseteq DOMAIN edit[e].before
         /\ \A c \in Touched(e) : Written(e, c) # Nothing /\ Written(e, c).id # Nothing =>
               /\ \A d \in Touched(e) : Written(e, d) # Nothing => d = c
               /\ \E h \in Touched(e) : Where(Written(e, c).id) = {h}
<1>0. DOMAIN edit[e].before = DOMAIN edit[e].want
  BY DEF EditKnows, KnowsTheDays
<1>1. CASE edit[e].op \in {"replace", "add"}
  <2>1. Touched(e) \subseteq DOMAIN edit[e].want
    BY <1>1 DEF Touched, Going
  <2>2. \A c \in Touched(e) : Written(e, c) # Nothing => Written(e, c).id = Nothing
    BY <1>1 DEF Written
  <2> QED
    BY <1>0, <2>1, <2>2
<1>2. CASE Naming(e)
  <2>1. PICK h \in DOMAIN edit[e].want : Where(edit[e].id) = {h}
    BY <1>2 DEF EditKnows, KnowsItsRow, Aiming
  <2>2. Here(e) = {h} /\ h \in Cells /\ h \in Touched(e)
    BY <1>2, <2>1, EditFacts DEF Here, Touched, Naming, TInv
  <2>3. \A x, y \in Going(e) : x = y
    BY <1>2 DEF EditKnows, KnowsItsRow, Aiming
  <2>4. Target(e) = Going(e)
    <3>1. CASE edit[e].op = "move"
      <4>1. \A to \in Going(e) : to \in Cells /\ to[2] = h[2]
        BY <1>2, <3>1, TargetFacts DEF EditKnows, KnowsItsRow, Aiming, Going, TInv
      <4>2. \A to \in Going(e) : <<to[1], h[2]>> = to
        BY <4>1 DEF Cells
      <4>3. Target(e) = {<<to[1], h[2]>> : to \in Going(e)}
        BY <2>2, <3>1 DEF Target
      <4> QED
        BY <4>2, <4>3
    <3> QED
      BY <3>1 DEF Target
  <2>5. Touched(e) \subseteq DOMAIN edit[e].want
    BY <1>2, <2>1, <2>2, <2>4 DEF Touched, Naming, Going
  <2>6. \A c \in Touched(e) : Written(e, c) # Nothing => c \in Going(e) /\ Written(e, c).id = edit[e].id
    <3> SUFFICES ASSUME NEW c \in Touched(e), Written(e, c) # Nothing
                 PROVE  c \in Going(e) /\ Written(e, c).id = edit[e].id
      OBVIOUS
    <3>1. CASE edit[e].op = "change"
      BY <2>4, <3>1 DEF Written
    <3>2. CASE edit[e].op = "move"
      <4>1. (CHOOSE x \in Here(e) : TRUE) = h /\ shift[h].id = edit[e].id
        BY <2>1, <2>2 DEF Where
      <4> QED
        BY <2>4, <3>2, <4>1 DEF Written
    <3> QED
      BY <1>2, <3>1, <3>2 DEF Written, Naming
  <2> QED
    BY <1>0, <2>1, <2>2, <2>3, <2>5, <2>6
<1> QED
  BY <1>1, <1>2 DEF Naming

LEMMA WriteKnows ==
  ASSUME TInv, KInv, NEW e \in Editors, Write(e)
  PROVE  KInv'
<1>1. CASE Refused(e)
  BY <1>1, AbortKnows DEF Write
<1>2. CASE ~Refused(e)
  <2> DEFINE draft == [c \in Touched(e) |-> Written(e, c)]
             row == [NoEdit EXCEPT !.pc = "written", !.before = edit[e].before, !.draft = draft]
  <2>1. DOMAIN draft = Touched(e) /\ \A c \in Touched(e) : draft[c] = Written(e, c)
    OBVIOUS
  <2> HIDE DEF draft
  <2>2. row.pc = "written" /\ row.before = edit[e].before /\ row.draft = draft
    BY DEF NoEdit
  <2> HIDE DEF row
  <2>3. edit'[e] = row /\ \A d \in Editors \ {e} : edit'[d] = edit[d]
    BY <1>2 DEF Write, TInv, TypeOK, row, draft
  <2>4. Untouched /\ QueueKept(e)
    BY <1>2, LettingGo DEF Write, Untouched, rows, clock
  <2>5. EditKnows(e)'
    <3>1. KnowsItsRow(e)' /\ HoldsItsNotes(e)'
      BY <2>2, <2>3 DEF KnowsItsRow, HoldsItsNotes, Aiming
    <3>2. DraftsItsRows(e)'
      <4>1. \A i : Where(i)' = Where(i)
        BY <2>4, UntouchedFacts
      <4> QED
        BY <1>2, <2>1, <2>2, <2>3, <4>1, WritesItsRows DEF DraftsItsRows, KInv, Write
    <3>3. KnowsTheDays(e)'
      BY <2>2, <2>3, <2>4 DEF KnowsTheDays, KInv, EditKnows, Photo, Untouched
    <3> QED
      BY <3>1, <3>2, <3>3 DEF EditKnows
  <2> QED
    BY <1>2, <2>3, <2>4, <2>5, EditStep DEF Write
<1> QED
  BY <1>1, <1>2

\* A request that only takes notes.
LEMMA NotingKnows ==
  ASSUME TInv, KInv, NEW e \in Editors, Holding(e), EditKnows(e), Untouched,
         edit'[e].pc \in {"looked", "noted"}, edit'[e].before = edit[e].before,
         edit'[e].draft = edit[e].draft, edit'[e].noted \subseteq Differs(e),
         \A c \in Differs(e) : Concerned(c) => c \in edit'[e].noted,
         HoldsItsNotes(e)'
  PROVE  EditKnows(e)'
<1>1. KnowsItsRow(e)'
  BY DEF KnowsItsRow, Aiming
<1>2. DraftsItsRows(e)'
  BY UntouchedFacts DEF EditKnows, DraftsItsRows
<1>3. Differs(e)' = Differs(e)
  BY DEF Differs, PhotoOf, Photo, Untouched
<1>4. KnowsTheDays(e)'
  <2>1. Differs(e) \subseteq Cells
    BY EditFacts DEF Differs, TInv
  <2> QED
    BY <1>3, <2>1, UntouchedFacts DEF EditKnows, KnowsTheDays, Photo, Untouched
<1> QED
  BY <1>1, <1>2, <1>4 DEF EditKnows

LEMMA LookUpKnows ==
  ASSUME TInv, KInv, NEW e \in Editors, LookUp(e)
  PROVE  KInv'
<1> DEFINE pc == IF ToTell(e) = {} THEN "noted" ELSE "looked"
           found == [c \in {x \in ToTell(e) : pending[x] # Nothing} |-> pending[c].born]
           row == [edit[e] EXCEPT !.pc = pc, !.noted = ToTell(e), !.found = found]
<1>1. edit[e] \in EditRow /\ edit[e].pc = "written"
  BY DEF TInv, TypeOK, LookUp
<1> HIDE DEF found
<1>2. /\ row.pc = pc /\ row.before = edit[e].before /\ row.draft = edit[e].draft
      /\ row.noted = ToTell(e)
  BY <1>1 DEF EditRow
<1> HIDE DEF row
<1>3. edit'[e] = row /\ \A d \in Editors \ {e} : edit'[d] = edit[d]
  BY DEF LookUp, TInv, TypeOK, row, found
<1>4. Untouched /\ QueueKept(e)
  BY LettingGo DEF LookUp, Untouched, rows, clock
<1>5. \A c \in Differs(e) : Concerned(c) => c \in ToTell(e)
  <2> SUFFICES ASSUME NEW c \in Differs(e), Concerned(c) PROVE c \in ToTell(e)
    OBVIOUS
  <2>1. c \in Cells /\ c[1] \in People
    BY EditFacts DEF Differs, TInv, Cells
  <2> QED
    BY <2>1 DEF Concerned, ToTell, KInv, AbsentHaveLeft
<1>6. HoldsItsNotes(e)'
  BY <1>2, <1>3 DEF HoldsItsNotes
<1>7. EditKnows(e)'
  <2>1. Holding(e) /\ EditKnows(e) /\ ToTell(e) \subseteq Differs(e)
    BY <1>1 DEF KInv, Holding, ToTell
  <2> QED
    BY <1>2, <1>3, <1>4, <1>5, <1>6, <2>1, NotingKnows
<1> QED
  BY <1>3, <1>4, <1>7, EditStep DEF LookUp

LEMMA NoteKnows ==
  ASSUME TInv, KInv, NEW e \in Editors, Note(e)
  PROVE  KInv'
<1>1. CASE Gone(e)
  BY <1>1, AbortKnows DEF Note
<1>2. CASE ~Gone(e)
  <2> DEFINE row == [edit[e] EXCEPT !.pc = "noted", !.at = now, !.found = <<>>]
  <2>1. edit[e] \in EditRow /\ edit[e].pc = "looked"
    BY DEF TInv, TypeOK, Note
  <2>2. /\ row.pc = "noted" /\ row.before = edit[e].before /\ row.draft = edit[e].draft
        /\ row.noted = edit[e].noted
    BY <2>1 DEF EditRow
  <2> HIDE DEF row
  <2>3. edit'[e] = row /\ \A d \in Editors \ {e} : edit'[d] = edit[d]
    BY <1>2 DEF Note, TInv, TypeOK, row
  <2>4. Untouched
    BY DEF Note, Untouched, rows, clock
  <2>5. QueueKept(e) /\ \A c \in edit[e].noted \cap Cells : queued'[c] = e
    <3>1. /\ \A c \in edit[e].noted : Free(queued, e, c)
          /\ queued' = [c \in Cells |-> IF c \in edit[e].noted THEN e ELSE queued[c]]
      BY <1>2 DEF Note
    <3> QED
      BY <3>1, Taking
  <2>6. HoldsItsNotes(e)'
    BY <2>2, <2>3, <2>5, EditFacts DEF HoldsItsNotes, TInv
  <2>7. EditKnows(e)'
    <3>1. Holding(e) /\ EditKnows(e) /\ KnowsTheDays(e)
      BY <2>1 DEF KInv, Holding, EditKnows
    <3> QED
      BY <2>1, <2>2, <2>3, <2>4, <2>6, <3>1, NotingKnows DEF KnowsTheDays
  <2> QED
    BY <2>3, <2>4, <2>5, <2>7, EditStep DEF Note
<1> QED
  BY <1>1, <1>2

-----------------------------------------------------------------------------
(* A request commits                                                         *)

\* The roster after it is the photograph after.
LEMMA CommitShift ==
  ASSUME TInv, NEW e \in Editors, Commit(e), NEW c \in Cells
  PROVE  /\ Photo(c)' = PhotoOf(e, c)
         /\ c \notin DOMAIN edit[e].draft => shift'[c] = shift[c]
         /\ c \in DOMAIN edit[e].draft => shift'[c] = Keyed(e, c, edit[e].draft[c])
<1>1. /\ c \notin DOMAIN edit[e].draft => shift'[c] = shift[c]
      /\ c \in DOMAIN edit[e].draft => shift'[c] = Keyed(e, c, edit[e].draft[c])
  BY DEF Commit
<1>2. CASE c \in DOMAIN edit[e].draft
  <2>1. edit[e].draft[c] \in Draft \cup {Nothing}
    BY <1>2, EditFacts DEF TInv
  <2> QED
    BY <1>1, <1>2, <2>1, KeyedFacts DEF Photo, PhotoOf
<1>3. CASE c \notin DOMAIN edit[e].draft
  BY <1>1, <1>3 DEF Photo, PhotoOf
<1> QED
  BY <1>1, <1>2, <1>3

\* A row it inserts has a new key, and a row it keeps was on one of its days.
LEMMA CommitKey ==
  ASSUME TInv, NEW e \in Editors, EditKnows(e), Commit(e), NEW c \in DOMAIN edit[e].draft,
         shift'[c] # Nothing
  PROVE  \/ /\ edit[e].draft[c] # Nothing /\ edit[e].draft[c].id = Nothing
            /\ shift'[c].id \in {c} \X Numbers /\ shift'[c].id \notin KnownRows(e)
         \/ /\ edit[e].draft[c] # Nothing /\ edit[e].draft[c].id # Nothing
            /\ shift'[c].id = edit[e].draft[c].id
            /\ \A d \in DOMAIN edit[e].draft : edit[e].draft[d] # Nothing => d = c
            /\ \E h \in DOMAIN edit[e].draft : Where(shift'[c].id) = {h}
<1>1. c \in Cells /\ edit[e].draft[c] \in Draft \cup {Nothing}
  BY EditFacts DEF TInv
<1>2. shift'[c] = Keyed(e, c, edit[e].draft[c])
  BY <1>1, CommitShift
<1>3. DraftsItsRows(e)
  BY DEF EditKnows, Holding, Commit
<1> QED
  BY <1>1, <1>2, <1>3, KeyedFacts DEF DraftsItsRows

LEMMA CommitIds ==
  ASSUME TInv, NEW e \in Editors, EditKnows(e), IdsUnique, Commit(e)
  PROVE  IdsUnique'
<1> SUFFICES ASSUME NEW c \in Cells, NEW d \in Cells, shift'[c] # Nothing, shift'[d] # Nothing,
                    shift'[c].id = shift'[d].id, c # d
             PROVE  FALSE
  BY DEF IdsUnique
<1>1. ASSUME NEW x \in DOMAIN edit[e].draft, NEW y \in DOMAIN edit[e].draft,
             shift'[x] # Nothing, shift'[y] # Nothing, shift'[x].id = shift'[y].id, x # y
      PROVE  FALSE
  BY <1>1, CommitKey
<1>2. ASSUME NEW x \in DOMAIN edit[e].draft, NEW y \in Cells \ DOMAIN edit[e].draft,
             shift'[x] # Nothing, shift'[y] # Nothing, shift'[x].id = shift'[y].id
      PROVE  FALSE
  <2>1. shift'[y] = shift[y] /\ shift[y].id \in KnownRows(e) /\ y \in Where(shift[y].id)
    BY <1>2, CommitShift DEF KnownRows, Where
  <2>2. ~\E h \in DOMAIN edit[e].draft : Where(shift'[x].id) = {h}
    BY <1>2, <2>1
  <2> QED
    BY <1>2, <2>1, <2>2, CommitKey
<1>3. CASE c \notin DOMAIN edit[e].draft /\ d \notin DOMAIN edit[e].draft
  BY <1>3, CommitShift DEF IdsUnique
<1> QED
  BY <1>1, <1>2, <1>3

\* The row of another day stays the row of that day alone.
LEMMA CommitWhere ==
  ASSUME TInv, NEW e \in Editors, EditKnows(e), Commit(e), NEW h \in Cells \ DOMAIN edit[e].draft,
         NEW i, Where(i) = {h}
  PROVE  Where(i)' = {h}
<1>1. h \in Where(i) /\ shift[h] # Nothing /\ shift[h].id = i /\ i \in KnownRows(e)
  BY DEF Where, KnownRows
<1>2. shift'[h] = shift[h]
  BY CommitShift
<1>3. ASSUME NEW c \in Cells, shift'[c] # Nothing, shift'[c].id = i PROVE c = h
  <2>1. CASE c \in DOMAIN edit[e].draft
    BY <1>1, <1>3, <2>1, CommitKey
  <2>2. CASE c \notin DOMAIN edit[e].draft
    BY <1>3, <2>2, CommitShift DEF Where
  <2> QED
    BY <2>1, <2>2
<1> QED
  BY <1>1, <1>2, <1>3 DEF Where

\* What it writes and will not tell, nobody is to be told.
LEMMA CommitTells ==
  ASSUME TInv, NEW e \in Editors, EditKnows(e), Commit(e), NEW c \in Cells, Concerned(c)
  PROVE  /\ c \notin Differs(e) \ edit[e].noted
         /\ Photo(c)' # Photo(c) => c \in edit[e].noted
         /\ c \in edit[e].noted => c \in DOMAIN edit[e].before /\ edit[e].before[c] = Photo(c)
                                   /\ queued[c] = e
<1>1. /\ edit[e].pc = "noted" /\ KnowsTheDays(e) /\ DraftsItsRows(e) /\ HoldsItsNotes(e)
  BY DEF Commit, EditKnows, Holding
<1>2. /\ edit[e].noted \subseteq Differs(e)
      /\ c \in Differs(e) => c \in edit[e].noted
      /\ c \in DOMAIN edit[e].before => edit[e].before[c] = Photo(c)
  BY <1>1 DEF KnowsTheDays
<1>3. Photo(c)' # Photo(c) => c \in Differs(e)
  <2> SUFFICES ASSUME Photo(c)' # Photo(c) PROVE c \in Differs(e)
    OBVIOUS
  <2>1. PhotoOf(e, c) # Photo(c)
    BY CommitShift
  <2>2. c \in DOMAIN edit[e].draft
    BY <2>1 DEF PhotoOf
  <2>3. c \in DOMAIN edit[e].before
    BY <1>1, <2>2 DEF DraftsItsRows
  <2> QED
    BY <1>2, <2>1, <2>3 DEF Differs
<1>4. c \in edit[e].noted => c \in DOMAIN edit[e].before /\ queued[c] = e
  BY <1>1, <1>2 DEF Differs, HoldsItsNotes
<1> QED
  BY <1>2, <1>3, <1>4

LEMMA CommitKnows ==
  ASSUME TInv, KInv, EditsApart, NEW e \in Editors, Commit(e)
  PROVE  KInv'
<1>0. EditKnows(e) /\ IdsUnique
  BY DEF KInv
<1>1. \A c \in Cells : Concerned(c)' <=> Concerned(c)
  BY DEF Commit, clock, Concerned, StillAhead, Today
<1>2. edit'[e] = NoEdit /\ (\A d \in Editors \ {e} : edit'[d] = edit[d]) /\ QueueKept(e)
  BY LettingGo DEF Commit, Abort, TInv, TypeOK
<1>3. \A d \in Editors : EditKnows(d)'
  <2>1. EditKnows(e)'
    BY <1>2, NoDays DEF EditKnows, KnowsItsRow, Aiming, Holding, KnowsTheDays, HoldsItsNotes, NoEdit
  <2>2. ASSUME NEW d \in Editors, d # e PROVE EditKnows(d)'
    <3>1. About(d) \subseteq Cells \ DOMAIN edit[e].draft
      <4>1. DOMAIN edit[e].draft \subseteq About(e)
        BY <1>0 DEF EditKnows, DraftsItsRows, Holding, Commit, About
      <4>2. About(d) \subseteq Cells
        BY EditFacts DEF About, TInv
      <4> QED
        BY <2>2, <4>1, <4>2 DEF EditsApart
    <3>2. \A c \in About(d) : shift'[c] = shift[c]
      BY <3>1, CommitShift
    <3>3. \A c \in About(d) : \A i : Where(i) = {c} => Where(i)' = {c}
      BY <1>0, <3>1, CommitWhere
    <3> QED
      BY <1>1, <1>2, <2>2, <3>2, <3>3, EditKept DEF KInv, FewerConcerned
  <2> QED
    BY <2>1, <2>2
<1>4. \A b \in Publishers : RunKnows(b)'
  <2> SUFFICES ASSUME NEW b \in Publishers PROVE RunKnows(b)'
    OBVIOUS
  <2>1. b # e
    BY NothingFacts
  <2>2. ASSUME NEW c \in Cells, queued[c] = b PROVE pending'[c] = pending[c]
    <3>1. c \notin edit[e].noted
      BY <1>0, <2>1, <2>2 DEF EditKnows, HoldsItsNotes, Commit
    <3> QED
      BY <3>1 DEF Commit
  <2>3. ASSUME NEW c \in Cells, queued[c] = b, Concerned(c) PROVE Photo(c)' = Photo(c)
    BY <1>0, <2>1, <2>3, CommitTells
  <2> QED
    BY <1>1, <1>2, <2>1, <2>2, <2>3, RunKept DEF KInv, FewerConcerned, Commit
<1>5. \A c \in Cells : ToldOrWaiting(c)'
  <2> SUFFICES ASSUME NEW c \in Cells, Concerned(c)
               PROVE  told'[c] = IF pending'[c] = Nothing THEN Photo(c)' ELSE pending'[c].original
    BY <1>1 DEF ToldOrWaiting
  <2>1. told'[c] = told[c]
    BY <1>0, CommitTells DEF Commit
  <2>2. ToldOrWaiting(c)
    BY DEF KInv
  <2>3. CASE c \in edit[e].noted
    <3>1. pending'[c] = Queue(e, c)
      BY <2>3 DEF Commit
    <3>2. pending'[c] # Nothing
      BY <3>1, NothingFacts, ANewNote, PendingFacts, EditFacts, <1>0, CommitTells, <2>3
         DEF Queue, Waiter, TInv
    <3>3. edit[e].before[c] = Photo(c)
      BY <1>0, <2>3, CommitTells
    <3> QED
      BY <2>1, <2>2, <3>1, <3>2, <3>3 DEF Queue, ToldOrWaiting
  <2>4. CASE c \notin edit[e].noted
    <3>1. pending'[c] = pending[c] /\ Photo(c)' = Photo(c)
      BY <1>0, <2>4, CommitTells DEF Commit
    <3> QED
      BY <2>1, <2>2, <3>1 DEF ToldOrWaiting
  <2> QED
    BY <2>3, <2>4
<1>6. IdsUnique' /\ AbsentHaveLeft'
  BY <1>0, CommitIds DEF KInv, AbsentHaveLeft, Commit
<1> QED
  BY <1>3, <1>4, <1>5, <1>6 DEF KInv

-----------------------------------------------------------------------------
(* Publishing                                                                *)

LEMMA LoadKnows ==
  ASSUME TInv, KInv, NEW b \in Publishers, NEW of, NEW wait, Load(b, of, wait)
  PROVE  KInv'
<1>1. pub'[b].pc = "loaded" /\ \A d \in Publishers \ {b} : pub'[d] = pub[d]
  <2>1. pub[b] \in RunRow
    BY DEF TInv, TypeOK
  <2>2. [pub[b] EXCEPT !.pc = "loaded", !.of = of, !.todo = Waiting(of, wait)].pc = "loaded"
    BY <2>1 DEF RunRow
  <2> QED
    BY <2>2 DEF Load, TInv, TypeOK
<1>2. RunKnows(b)'
  BY <1>1 DEF RunKnows, HoldsItsRows, KnowsTheNews
<1>3. Untouched /\ QueueKept(b)
  BY LettingGo DEF Load, Untouched, rows, clock
<1> QED
  BY <1>1, <1>2, <1>3, RunStep DEF Load

LEMMA LockRowsKnows ==
  ASSUME TInv, KInv, NEW b \in Publishers, NEW p \in People, LockRows(b, p)
  PROVE  KInv'
<1> DEFINE theirs == {t \in pub[b].todo : t[1][1] = p}
           there  == {t \in theirs : StillThere(t)}
           days   == {t[1] : t \in there}
           taken  == [c \in days |-> pending[c].original]
<1>1. pub[b] \in RunRow /\ pub[b].pc = "loaded" /\ TakeRows(b, there)
  BY DEF TInv, TypeOK, LockRows
<1>2. days \subseteq Cells /\ \A c \in days : pending[c] # Nothing /\ c[1] = p
  BY ThereFacts
<1>3. QueueKept(b) /\ \A c \in days : queued'[c] = b
  <2>1. /\ \A c \in days : Free(queued, b, c)
        /\ queued' = [c \in Cells |-> IF c \in days THEN b ELSE queued[c]]
    BY <1>1 DEF TakeRows
  <2> HIDE DEF days
  <2> QED
    BY <1>2, <2>1, Taking
<1>4. (\A d \in Publishers \ {b} : pub'[d] = pub[d])
  BY DEF LockRows, TInv, TypeOK
<1>5. Untouched
  BY DEF LockRows, Untouched, rows, clock
<1>6. RunKnows(b)'
  <2>1. CASE there = {}
    <3>1. pub'[b] = [pub[b] EXCEPT !.todo = pub[b].todo \ theirs]
      BY <2>1 DEF LockRows, TInv, TypeOK
    <3>2. pub'[b].pc = "loaded"
      BY <1>1, <3>1 DEF RunRow
    <3> QED
      BY <3>2 DEF RunKnows, HoldsItsRows, KnowsTheNews
  <2>2. CASE there # {}
    <3>1. pub'[b] = [pub[b] EXCEPT !.todo = pub[b].todo \ theirs, !.pc = "locked", !.rows = taken]
      BY <2>2 DEF LockRows, TInv, TypeOK
    <3>2. DOMAIN taken = days /\ \A c \in days : taken[c] = pending[c].original
      OBVIOUS
    <3> HIDE DEF taken, days, there, theirs
    <3>3. pub'[b].pc = "locked" /\ pub'[b].rows = taken
      BY <1>1, <3>1 DEF RunRow
    <3> QED
      BY <1>2, <1>3, <1>5, <3>2, <3>3 DEF RunKnows, HoldsItsRows, KnowsTheNews, Untouched
  <2> QED
    BY <2>1, <2>2
<1> QED
  BY <1>3, <1>4, <1>5, <1>6, RunStep DEF LockRows

LEMMA PhotographNowKnows ==
  ASSUME TInv, KInv, NEW b \in Publishers, PhotographNow(b)
  PROVE  KInv'
<1> DEFINE news == {c \in DOMAIN pub[b].rows : StillAhead(c) /\ pub[b].rows[c] # Photo(c)}
           what == [c \in news |-> <<pub[b].rows[c], Photo(c)>>]
           row  == [pub[b] EXCEPT !.pc = "photographed", !.news = what]
<1>1. pub[b] \in RunRow /\ pub[b].pc = "locked" /\ RunKnows(b)
  BY DEF TInv, TypeOK, PhotographNow, KInv
<1>2. DOMAIN what = news /\ \A c \in news : what[c] = <<pub[b].rows[c], Photo(c)>>
  OBVIOUS
<1> HIDE DEF what
<1>3. row.pc = "photographed" /\ row.rows = pub[b].rows /\ row.news = what
  BY <1>1 DEF RunRow
<1> HIDE DEF row
<1>4. pub'[b] = row /\ \A d \in Publishers \ {b} : pub'[d] = pub[d]
  BY DEF PhotographNow, TInv, TypeOK, row, what
<1>5. Untouched /\ QueueKept(b) /\ queued' = queued
  BY LettingGo DEF PhotographNow, Untouched, rows, clock
<1>6. RunKnows(b)'
  <2>1. HoldsItsRows(b)'
    BY <1>1, <1>3, <1>4, <1>5 DEF RunKnows, HoldsItsRows, Untouched
  <2>2. KnowsTheNews(b)'
    <3>1. \A c \in DOMAIN pub[b].rows : c \in Cells
      BY RunFacts DEF TInv
    <3> QED
      BY <1>2, <1>3, <1>4, <1>5, <3>1, UntouchedFacts DEF KnowsTheNews, Concerned
  <2> QED
    BY <2>1, <2>2 DEF RunKnows
<1> QED
  BY <1>4, <1>5, <1>6, RunStep DEF PhotographNow

\* What a run publishes: nothing else changes for those it is about.
LEMMA PublishFacts ==
  ASSUME TInv, NEW b \in Publishers, Publish(b)
  PROVE  /\ shift' = shift /\ edit' = edit /\ active' = active /\ left' = left /\ now' = now
         /\ \A c \in Cells : pending'[c] = IF c \in DOMAIN pub[b].rows THEN Nothing ELSE pending[c]
         /\ \A c \in Cells : told'[c] = IF c \in DOMAIN pub[b].news THEN pub[b].news[c][2] ELSE told[c]
         /\ DOMAIN pub[b].news \subseteq DOMAIN pub[b].rows
         /\ pub'[b].pc \in {"idle", "loaded"} /\ \A d \in Publishers \ {b} : pub'[d] = pub[d]
         /\ QueueKept(b)
<1>1. /\ shift' = shift /\ edit' = edit /\ active' = active /\ left' = left /\ now' = now
      /\ \A c \in Cells : pending'[c] = IF c \in DOMAIN pub[b].rows THEN Nothing ELSE pending[c]
      /\ \A c \in Cells : told'[c] = IF c \in DOMAIN pub[b].news THEN pub[b].news[c][2] ELSE told[c]
  BY DEF Publish, clock, Forgotten
<1>2. DOMAIN pub[b].news \subseteq DOMAIN pub[b].rows
  BY DEF TInv, SoundRun
<1>3. pub'[b].pc \in {"idle", "loaded"} /\ \A d \in Publishers \ {b} : pub'[d] = pub[d]
  BY DEF Publish, TInv, TypeOK, NoRun
<1>4. QueueKept(b)
  BY LettingGo DEF Publish
<1> QED
  BY <1>1, <1>2, <1>3, <1>4

LEMMA PublishKnows ==
  ASSUME TInv, KInv, NEW b \in Publishers, Publish(b)
  PROVE  KInv'
<1>1. /\ \A c \in Cells : Photo(c)' = Photo(c) /\ (Concerned(c)' <=> Concerned(c))
      /\ \A i : Where(i)' = Where(i)
  BY PublishFacts DEF Photo, Concerned, StillAhead, Today, Where
<1>2. pub[b].pc = "photographed" /\ HoldsItsRows(b) /\ KnowsTheNews(b)
  BY DEF Publish, KInv, RunKnows
<1>3. \A d \in Editors : EditKnows(d)'
  <2> SUFFICES ASSUME NEW d \in Editors PROVE EditKnows(d)'
    OBVIOUS
  <2>1. d # b
    BY NothingFacts
  <2> QED
    BY <1>1, <2>1, PublishFacts, EditKept DEF KInv, FewerConcerned
<1>4. \A d \in Publishers : RunKnows(d)'
  <2>1. RunKnows(b)'
    BY PublishFacts DEF RunKnows, HoldsItsRows, KnowsTheNews
  <2>2. ASSUME NEW d \in Publishers, d # b PROVE RunKnows(d)'
    <3>1. \A c \in Cells : queued[c] = d => pending'[c] = pending[c]
      BY <1>2, <2>2, PublishFacts DEF HoldsItsRows
    <3> QED
      BY <1>1, <2>2, <3>1, PublishFacts, RunKept DEF KInv, FewerConcerned
  <2> QED
    BY <2>1, <2>2
<1>5. \A c \in Cells : ToldOrWaiting(c)'
  <2> SUFFICES ASSUME NEW c \in Cells, Concerned(c)
               PROVE  told'[c] = IF pending'[c] = Nothing THEN Photo(c) ELSE pending'[c].original
    BY <1>1 DEF ToldOrWaiting
  <2>1. ToldOrWaiting(c)
    BY DEF KInv
  <2>2. CASE c \in DOMAIN pub[b].rows
    <3>1. pending'[c] = Nothing /\ pending[c] # Nothing /\ pub[b].rows[c] = pending[c].original
      BY <1>2, <2>2, PublishFacts DEF HoldsItsRows
    <3>2. told[c] = pub[b].rows[c]
      BY <2>1, <3>1 DEF ToldOrWaiting
    <3>3. told'[c] = Photo(c)
      BY <1>2, <2>2, <3>2, PublishFacts DEF KnowsTheNews
    <3> QED
      BY <3>1, <3>3
  <2>3. CASE c \notin DOMAIN pub[b].rows
    BY <2>1, <2>3, PublishFacts DEF ToldOrWaiting
  <2> QED
    BY <2>2, <2>3
<1>6. IdsUnique' /\ AbsentHaveLeft'
  BY PublishFacts DEF KInv, IdsUnique, AbsentHaveLeft
<1> QED
  BY <1>3, <1>4, <1>5, <1>6 DEF KInv

LEMMA RunEnds ==
  ASSUME TInv, KInv, NEW b \in Publishers, Finish(b) \/ CrashRun(b)
  PROVE  KInv'
<1>1. pub'[b] = NoRun /\ \A d \in Publishers \ {b} : pub'[d] = pub[d]
  BY DEF Finish, CrashRun, TInv, TypeOK
<1>2. RunKnows(b)'
  BY <1>1 DEF RunKnows, HoldsItsRows, KnowsTheNews, NoRun
<1>3. Untouched /\ QueueKept(b) /\ active' = active /\ edit' = edit
  BY LettingGo DEF Finish, CrashRun, Untouched, rows, clock
<1> QED
  BY <1>1, <1>2, <1>3, RunStep

LEMMA SendKnows ==
  ASSUME TInv, KInv, NEW b \in Publishers, NEW i \in DOMAIN notices, Send(b, i)
  PROVE  KInv'
<1> DEFINE row == [pub[b] EXCEPT !.sends = pub[b].sends \ {i}]
<1>1. pub[b] \in RunRow
  BY DEF TInv, TypeOK
<1>2. row.pc = pub[b].pc /\ row.rows = pub[b].rows /\ row.news = pub[b].news
  BY <1>1 DEF RunRow
<1>3. pub'[b] = row /\ \A d \in Publishers \ {b} : pub'[d] = pub[d]
  BY DEF Send, TInv, TypeOK
<1> HIDE DEF row
<1>4. Untouched /\ QueueKept(b) /\ queued' = queued
  BY LettingGo DEF Send, Untouched, clock
<1>5. RunKnows(b)'
  <2>1. \A c \in DOMAIN pub[b].rows : c \in Cells
    BY RunFacts DEF TInv
  <2>2. RunKnows(b)
    BY DEF KInv
  <2>3. HoldsItsRows(b)'
    BY <1>2, <1>3, <1>4, <2>2 DEF RunKnows, HoldsItsRows, Untouched
  <2>4. KnowsTheNews(b)'
    BY <1>2, <1>3, <1>4, <2>1, <2>2, UntouchedFacts DEF RunKnows, KnowsTheNews
  <2> QED
    BY <2>3, <2>4 DEF RunKnows
<1> QED
  BY <1>3, <1>4, <1>5, RunStep DEF Send

-----------------------------------------------------------------------------
(* The staff and the clock                                                   *)

LEMMA OthersKnow ==
  ASSUME TInv, KInv,
         \/ \E p \in People, i \in DOMAIN notices : Read(p, i)
         \/ \E p \in People : ShowPage(p) \/ Reactivate(p)
  PROVE  KInv'
<1>1. UNCHANGED <<shift, pending, told, edit, pub, queued, left, now>> /\ active \subseteq active'
  BY DEF Read, ShowPage, Reactivate, rows, clock
<1>2. FewerConcerned /\ AbsentHaveLeft'
  BY <1>1 DEF FewerConcerned, Concerned, StillAhead, Today, AbsentHaveLeft, KInv
<1> QED
  BY <1>1, <1>2, NobodyStep

LEMMA DeactivateKnows ==
  ASSUME TInv, KInv, NEW p \in People, Deactivate(p)
  PROVE  KInv'
<1>1. UNCHANGED <<shift, pending, told, edit, pub, queued, now>>
  BY DEF Deactivate, rows
<1>2. FewerConcerned /\ AbsentHaveLeft'
  BY <1>1 DEF Deactivate, FewerConcerned, Concerned, StillAhead, Today, AbsentHaveLeft, KInv
<1> QED
  BY <1>1, <1>2, NobodyStep

LEMMA LaterDays ==
  ASSUME TInv, Tick
  PROVE  Today' >= Today /\ \A c \in Cells : c[2] >= Today' => c[2] >= Today
<1>1. now \in Nat /\ DayLength \in Nat /\ DayLength > 0 /\ now' = now + 1
  BY TimeFacts DEF TInv, TypeOK, Tick
<1>2. \A n, d \in Nat : d > 0 => (n + 1) \div d >= n \div d /\ (n + 1) \div d \in Nat /\ n \div d \in Nat
  OBVIOUS
<1>3. Today' >= Today /\ Today' \in Nat /\ Today \in Nat
  BY <1>1, <1>2 DEF Today
<1>4. \A c \in Cells : c[2] \in Nat
  BY TimeFacts DEF Cells
<1> QED
  BY <1>3, <1>4

LEMMA TickKnows ==
  ASSUME TInv, KInv, Tick
  PROVE  KInv'
<1>1. UNCHANGED <<shift, pending, told, edit, pub, queued, left, active>>
  BY DEF Tick, rows
<1>2. FewerConcerned /\ AbsentHaveLeft'
  BY <1>1, LaterDays DEF FewerConcerned, Concerned, StillAhead, AbsentHaveLeft, KInv
<1> QED
  BY <1>1, <1>2, NobodyStep

-----------------------------------------------------------------------------
(* Nobody is left untold                                                     *)

LEMMA StartShift ==
  ASSUME Init, NEW c \in Cells
  PROVE  Photo(c) = Start[c] /\ (shift[c] # Nothing => shift[c].id = <<c, 0>>)
<1>1. CASE Start[c] = Nothing
  BY <1>1 DEF Init, Photo
<1>2. CASE Start[c] # Nothing
  <2>1. shift[c] = [what |-> Start[c], id |-> <<c, 0>>]
    BY <1>2 DEF Init
  <2>2. shift[c] \in Row
    BY <2>1, <1>2, RosterAssumption, Counting DEF Row, Ids, Numbers
  <2> QED
    BY <2>1, <2>2, NothingFacts DEF Photo
<1> QED
  BY <1>1, <1>2

LEMMA InitKnows == Init => KInv
<1> SUFFICES ASSUME Init PROVE KInv
  OBVIOUS
<1>1. TInv
  BY InitTypes
<1>2. \A e \in Editors : EditKnows(e)
  <2>1. \A e \in Editors : edit[e] = NoEdit
    BY DEF Init
  <2> QED
    BY <2>1, NoDays DEF EditKnows, KnowsItsRow, Aiming, Holding, KnowsTheDays, HoldsItsNotes, NoEdit
<1>3. \A b \in Publishers : RunKnows(b)
  BY DEF Init, RunKnows, HoldsItsRows, KnowsTheNews, NoRun
<1>4. \A c \in Cells : Photo(c) = Start[c] /\ (shift[c] # Nothing => shift[c].id = <<c, 0>>)
  BY StartShift
<1>5. IdsUnique /\ \A c \in Cells : ToldOrWaiting(c)
  BY <1>4 DEF Init, IdsUnique, ToldOrWaiting
<1>6. AbsentHaveLeft
  BY DEF Init, AbsentHaveLeft
<1> QED
  BY <1>2, <1>3, <1>5, <1>6 DEF KInv

LEMMA KnowsStep == TInv /\ KInv /\ EditsApart /\ [Next]_vars => KInv'
<1> SUFFICES ASSUME TInv, KInv, EditsApart, [Next]_vars PROVE KInv'
  OBVIOUS
<1>1. CASE UNCHANGED vars
  <2>1. UNCHANGED <<shift, pending, told, edit, pub, queued, left, now, active>>
    BY <1>1 DEF vars
  <2>2. FewerConcerned /\ AbsentHaveLeft'
    BY <2>1 DEF FewerConcerned, Concerned, StillAhead, Today, AbsentHaveLeft, KInv
  <2> QED
    BY <2>1, <2>2, NobodyStep
<1>2. ASSUME NEW e \in Editors, StartOf(e) \/ Editing(e) \/ CrashEdit(e) PROVE KInv'
  BY <1>2, StartKnows, PhotographKnows, AimKnows, WriteKnows, LookUpKnows, NoteKnows, CommitKnows,
     AbortKnows DEF Editing, CrashEdit
<1>3. ASSUME NEW b \in Publishers, Publishing(b) \/ CrashRun(b) PROVE KInv'
  BY <1>3, LockRowsKnows, PhotographNowKnows, PublishKnows, RunEnds, SendKnows DEF Publishing
<1> QED
  BY <1>1, <1>2, <1>3, Steps, LoadKnows, OthersKnow, DeactivateKnows, TickKnows

LEMMA Knowing == Spec /\ []EditsApart => [](TInv /\ KInv)
<1>1. Init => TInv /\ KInv
  BY InitTypes, InitKnows
<1>2. TInv /\ KInv /\ EditsApart /\ [Next]_vars => (TInv /\ KInv)'
  BY TypesStep, KnowsStep
<1> QED
  BY <1>1, <1>2, PTL DEF Spec

\* As long as no two edits under way are about the same day, whoever's day is
\* not as they were last told of it is waiting to be told (notices.py).
THEOREM NobodyWaitsInVain == Spec /\ []EditsApart => []NobodyIsLeftUntold
<1>1. KInv => NobodyIsLeftUntold
  BY DEF KInv, ToldOrWaiting, NobodyIsLeftUntold, Concerned
<1> QED
  BY <1>1, Knowing, PTL

-----------------------------------------------------------------------------
(* What the queue and the notices implement                                  *)

Roster  == [c \in Cells |-> Photo(c)]
Excused == {c \in Cells : ~StillAhead(c) \/ c[1] \in left}
Said(log) == [i \in DOMAIN log |-> [who |-> log[i].who, says |-> log[i].says]]

\* Marking a notice does not change what it says.
LEMMA MarkedSays ==
  ASSUME NEW log \in Seq(Notice), NEW m, NEW n \in Notice
  PROVE  Marked(n, m).who = n.who /\ Marked(n, m).says = n.says
<1>1. n = [who |-> n.who, says |-> n.says, marks |-> n.marks]
  BY DEF Notice
<1> QED
  BY <1>1 DEF Marked

LEMMA ShownSays ==
  ASSUME NEW log \in Seq(Notice), NEW p
  PROVE  Said(Shown(log, p)) = Said(log)
<1>1. \A i \in DOMAIN log : log[i] \in Notice
  OBVIOUS
<1>2. DOMAIN Shown(log, p) = DOMAIN log
  BY DEF Shown
<1>3. \A i \in DOMAIN log : Shown(log, p)[i].who = log[i].who /\ Shown(log, p)[i].says = log[i].says
  BY <1>1, MarkedSays DEF Shown
<1> QED
  BY <1>2, <1>3 DEF Said

LEMMA AppendedSays ==
  ASSUME NEW log \in Seq(Notice), NEW n \in Notice
  PROVE  Said(Append(log, n)) = Append(Said(log), [who |-> n.who, says |-> n.says])
<1>1. DOMAIN Append(log, n) = 1 .. Len(log) + 1 /\ DOMAIN log = 1 .. Len(log) /\ Len(log) \in Nat
  OBVIOUS
<1>2. /\ \A i \in 1 .. Len(log) : Append(log, n)[i] = log[i]
      /\ Append(log, n)[Len(log) + 1] = n
  OBVIOUS
<1> DEFINE T == {[who |-> log[i].who, says |-> log[i].says] : i \in DOMAIN log}
<1>3. Said(log) \in Seq(T) /\ Len(Said(log)) = Len(log)
  BY <1>1 DEF Said
<1> QED
  BY <1>1, <1>2, <1>3 DEF Said

\* What nobody reads of a step: the roster, what was told, who is to be told,
\* and what the notices say are as they were.
Unread == UNCHANGED <<Roster, told, Excused, Said(notices)>>

LEMMA SameRoster ==
  ASSUME shift' = shift, now' = now, left' = left
  PROVE  Roster' = Roster /\ Excused' = Excused
  BY DEF Roster, Excused, Photo, StillAhead, Today

LEMMA StartUnread ==
  ASSUME NEW e \in Editors, StartOf(e)
  PROVE  Unread
<1>1. UNCHANGED <<shift, told, left, now, notices>>
  BY DEF StartOf, Redraw, Add, Change, Remove, Reassign, Begin, rows
<1> QED
  BY <1>1, SameRoster DEF Unread, Said

LEMMA EditingUnread ==
  ASSUME NEW e \in Editors, Photograph(e) \/ Aim(e) \/ Write(e) \/ LookUp(e) \/ Note(e) \/ CrashEdit(e)
  PROVE  Unread
<1>1. UNCHANGED <<shift, told, left, now, notices>>
  BY DEF Photograph, Aim, Write, LookUp, Note, CrashEdit, rows, clock
<1> QED
  BY <1>1, SameRoster DEF Unread, Said

LEMMA RunningUnread ==
  ASSUME NEW b \in Publishers,
         \/ \E of, wait : Load(b, of, wait)
         \/ \E p \in People : LockRows(b, p)
         \/ PhotographNow(b) \/ CrashRun(b)
  PROVE  Unread
<1>1. UNCHANGED <<shift, told, left, now, notices>>
  BY DEF Load, LockRows, PhotographNow, CrashRun, rows, clock
<1> QED
  BY <1>1, SameRoster DEF Unread, Said

LEMMA ShowingUnread ==
  ASSUME TInv, \/ \E b \in Publishers : Finish(b)
               \/ \E p \in People : ShowPage(p) \/ Reactivate(p)
  PROVE  Unread
<1>1. UNCHANGED <<shift, told, left, now>>
  BY DEF Finish, ShowPage, Reactivate, rows, clock
<1>2. notices \in Seq(Notice)
  BY DEF TInv, TypeOK
<1>3. notices' = notices \/ \E p : notices' = Shown(notices, p)
  BY DEF Finish, ShowPage, Reactivate, rows
<1>4. Said(notices') = Said(notices)
  BY <1>2, <1>3, ShownSays
<1> QED
  BY <1>1, <1>4, SameRoster DEF Unread, Said

LEMMA SendUnread ==
  ASSUME TInv, NEW b \in Publishers, NEW i \in DOMAIN notices, Send(b, i)
  PROVE  Unread
<1>1. UNCHANGED <<shift, told, left, now>>
  BY DEF Send, clock
<1>2. notices \in Seq(Notice) /\ notices[i] \in Notice
  BY DEF TInv, TypeOK
<1>3. PICK marks : notices' = [notices EXCEPT ![i].marks = marks]
  BY DEF Send
<1>4. \A j \in DOMAIN notices : notices'[j].who = notices[j].who /\ notices'[j].says = notices[j].says
  BY <1>2, <1>3 DEF Notice
<1>5. DOMAIN notices' = DOMAIN notices
  BY <1>3
<1> QED
  BY <1>1, <1>4, <1>5, SameRoster DEF Unread, Said

LEMMA ReadUnread ==
  ASSUME TInv, NEW p \in People, NEW i \in DOMAIN notices, Read(p, i)
  PROVE  Unread
<1>1. UNCHANGED <<shift, told, left, now>>
  BY DEF Read, clock
<1>2. notices \in Seq(Notice) /\ notices[i] \in Notice /\ now \in Time
  BY DEF TInv, TypeOK
<1> DEFINE n == Marked(Marked(notices[i], "delivered"), "read")
<1>3. notices' = [notices EXCEPT ![i] = n]
  BY DEF Read
<1>4. n.who = notices[i].who /\ n.says = notices[i].says
  BY <1>2, MarkedType, MarkedSays DEF Media
<1> HIDE DEF n
<1>5. /\ DOMAIN notices' = DOMAIN notices
      /\ \A j \in DOMAIN notices : notices'[j].who = notices[j].who /\ notices'[j].says = notices[j].says
  BY <1>2, <1>3, <1>4
<1> QED
  BY <1>1, <1>5, SameRoster DEF Unread, Said

\* A commit is an edit, which only those who need not be told learn by themselves.
LEMMA CommitEdits ==
  ASSUME TInv, KInv, NEW e \in Editors, Commit(e)
  PROVE  Promise!Edit
<1>1. EditKnows(e) /\ UNCHANGED <<left, now, notices>>
  BY DEF KInv, Commit, clock
<1>2. \A c \in Cells : Photo(c)' = PhotoOf(e, c) /\ PhotoOf(e, c) \in Contents
  BY CommitShift, DraftFacts DEF TInv
<1>3. Roster' \in [Cells -> Contents] /\ \A c \in Cells : Roster'[c] = PhotoOf(e, c)
  BY <1>2 DEF Roster
<1> DEFINE quietly == {c \in Cells : c \in Differs(e) \ edit[e].noted /\ pending[c] = Nothing}
<1>4. quietly \in SUBSET Excused
  BY <1>1, CommitTells DEF Excused, Concerned
<1>5. told' = [c \in Cells |-> IF c \in quietly THEN Roster'[c] ELSE told[c]]
  <2>1. told' = [c \in Cells |-> IF c \in Differs(e) \ edit[e].noted /\ pending[c] = Nothing
                                THEN PhotoOf(e, c) ELSE told[c]]
    BY DEF Commit
  <2> QED
    BY <1>3, <2>1
<1>6. Excused' = Excused /\ Said(notices)' = Said(notices)
  BY <1>1 DEF Excused, Said, StillAhead, Today
<1> HIDE DEF quietly
<1> QED
  BY <1>3, <1>4, <1>5, <1>6 DEF Promise!Edit, Roster, Excused, Said

\* Publishing tells one person what they had been told and what holds now, or
\* nothing at all.
LEMMA PublishTells ==
  ASSUME TInv, KInv, NEW b \in Publishers, Publish(b)
  PROVE  Promise!Next \/ Unread
<1> DEFINE news == pub[b].news
           who == (CHOOSE c \in DOMAIN pub[b].rows : TRUE)[1]
           n == [who |-> who, says |-> news, marks |-> NoMarks]
           log == IF news = <<>> THEN notices ELSE Append(notices, n)
<1>0. notices \in Seq(Notice)
  BY DEF TInv, TypeOK
<1>1. /\ Roster' = Roster /\ Excused' = Excused
  BY PublishFacts, SameRoster
<1>2. log \in Seq(Notice)
  <2>1. CASE news = <<>>
    BY <1>0, <2>1
  <2>2. CASE news # <<>>
    <3>1. n \in Notice
      BY <2>2, NewNotice
    <3> HIDE DEF n, news
    <3> QED
      BY <1>0, <2>2, <3>1
  <2> QED
    BY <2>1, <2>2
<1>3. Said(notices)' = Said(log)
  <2>1. notices' = IF b \in Pages THEN Shown(log, pub[b].of) ELSE log
    BY DEF Publish
  <2> HIDE DEF log
  <2>2. Said(notices') = Said(log)
    BY <1>2, <2>1, ShownSays
  <2> QED
    BY <2>2 DEF Said
<1>4. told' = [c \in Cells |-> IF c \in DOMAIN news THEN news[c][2] ELSE told[c]]
  BY DEF Publish
<1>5. CASE news = <<>>
  <2>1. told' = told
    BY <1>4, <1>5, NoDays DEF TInv, TypeOK
  <2> QED
    BY <1>1, <1>3, <1>5, <2>1 DEF Unread
<1>6. CASE news # <<>>
  <2>1. /\ DOMAIN news # {} /\ DOMAIN news \subseteq DOMAIN pub[b].rows
        /\ \E c \in DOMAIN pub[b].rows : c = (CHOOSE x \in DOMAIN pub[b].rows : TRUE)
        /\ n \in Notice
    BY <1>6, NewNotice
  <2>2. PICK c \in DOMAIN news : TRUE
    BY <2>1
  <2>3. pub[b].pc = "photographed" /\ HoldsItsRows(b) /\ KnowsTheNews(b)
    BY DEF Publish, KInv, RunKnows
  <2>4. \A d \in DOMAIN news : d[1] = c[1]
    BY <2>1, <2>2, <2>3 DEF HoldsItsRows
  <2>5. who = c[1]
    BY <2>1, <2>2, <2>3 DEF HoldsItsRows
  <2>6. DOMAIN news \in SUBSET Cells /\ news \in [DOMAIN news -> Contents \X Contents]
    BY RunFacts DEF TInv
  <2>7. \A d \in DOMAIN news \ Excused : told[d] # Roster[d] /\ news[d] = <<told[d], Roster[d]>>
    <3> SUFFICES ASSUME NEW d \in DOMAIN news \ Excused
                 PROVE  told[d] # Photo(d) /\ news[d] = <<told[d], Photo(d)>>
      BY <2>6 DEF Roster
    <3>1. d \in Cells /\ Concerned(d) /\ d \in DOMAIN pub[b].rows
      BY <2>1, <2>6 DEF Excused, Concerned
    <3>2. told[d] = pub[b].rows[d]
      BY <2>3, <3>1 DEF HoldsItsRows, KInv, ToldOrWaiting
    <3> QED
      BY <2>3, <3>1, <3>2 DEF KnowsTheNews
  <2>8. Said(notices)' = Append(Said(notices), [who |-> c[1], says |-> news])
    <3>1. n.who = c[1] /\ n.says = news /\ log = Append(notices, n)
      BY <1>6, <2>5
    <3> HIDE DEF n, news, log
    <3> QED
      BY <1>0, <1>3, <2>1, <3>1, AppendedSays
  <2>9. PICK S, says : S = DOMAIN news /\ says = news
    OBVIOUS
  <2>10. S \in SUBSET Cells /\ c \in S /\ says \in [S -> Contents \X Contents]
    BY <2>6, <2>9
  <2> HIDE DEF news
  <2>11. Promise!Tell(c[1], says)
    BY <1>1, <1>4, <2>4, <2>7, <2>8, <2>9 DEF Promise!Tell, Roster, Excused, Said
  <2> QED
    BY <2>10, <2>11 DEF Promise!Next
<1> QED
  BY <1>5, <1>6

\* A day that goes by, and somebody who leaves, excuses.
LEMMA ExcusingSteps ==
  ASSUME TInv, Tick \/ \E p \in People : Deactivate(p)
  PROVE  Promise!Excuse
<1>1. UNCHANGED <<shift, told, notices>>
  BY DEF Tick, Deactivate, rows
<1>2. Roster' = Roster /\ Said(notices)' = Said(notices)
  BY <1>1 DEF Roster, Photo, Said
<1>3. Excused \subseteq Excused' /\ Excused' \subseteq Cells
  <2>1. CASE Tick
    <3>1. \A c \in Cells : StillAhead(c)' => StillAhead(c)
      BY <2>1, LaterDays DEF StillAhead
    <3> QED
      BY <2>1, <3>1 DEF Excused, Tick
  <2>2. ASSUME NEW p \in People, Deactivate(p) PROVE Excused \subseteq Excused' /\ Excused' \subseteq Cells
    BY <2>2 DEF Deactivate, Excused, StillAhead, Today
  <2> QED
    BY <2>1, <2>2
<1> QED
  BY <1>1, <1>2, <1>3 DEF Promise!Excuse, Roster, Excused, Said

LEMMA InitPromise == Init => Promise!Init
<1> SUFFICES ASSUME Init PROVE Promise!Init
  OBVIOUS
<1>1. TInv
  BY InitTypes
<1>2. Roster \in [Cells -> Contents]
  BY <1>1, ShiftFacts DEF Roster, TInv
<1>3. told = Roster
  <2>1. \A c \in Cells : Photo(c) = Start[c]
    BY StartShift
  <2>2. Start \in [Cells -> Contents]
    BY RosterAssumption DEF Contents
  <2> QED
    BY <2>1, <2>2 DEF Init, Roster
<1>4. Excused \in SUBSET Cells /\ Said(notices) = <<>>
  BY NoDays DEF Excused, Init, Said
<1> QED
  BY <1>2, <1>3, <1>4 DEF Promise!Init, Roster, Excused, Said

LEMMA StepPromise == TInv /\ KInv /\ [Next]_vars => [Promise!Next]_(Promise!vars)
<1> SUFFICES ASSUME TInv, KInv, [Next]_vars PROVE Promise!Next \/ Unread
  BY DEF Promise!vars, Unread, Roster, Excused, Said
<1>1. CASE UNCHANGED vars
  BY <1>1, SameRoster DEF vars, Unread, Said
<1>2. ASSUME NEW e \in Editors, StartOf(e) \/ Editing(e) \/ CrashEdit(e) PROVE Promise!Next \/ Unread
  BY <1>2, StartUnread, EditingUnread, CommitEdits DEF Editing, Promise!Next
<1>3. ASSUME NEW b \in Publishers, Publishing(b) \/ CrashRun(b) PROVE Promise!Next \/ Unread
  BY <1>3, RunningUnread, ShowingUnread, SendUnread, PublishTells DEF Publishing
<1>4. Tick \/ (\E p \in People : Deactivate(p)) => Promise!Next
  BY ExcusingSteps DEF Promise!Next
<1> QED
  BY <1>1, <1>2, <1>3, <1>4, Steps, RunningUnread, ShowingUnread, ReadUnread

\* As long as no two edits under way are about the same day, every notice says
\* what its person had been told before and what holds now, and nothing else
\* changes what they have been told.
THEOREM NoticesKeepThePromise == Spec /\ []EditsApart => ImplementsTelling
<1>1. [](TInv /\ KInv) /\ [][Next]_vars => [][Promise!Next]_(Promise!vars)
  BY StepPromise, PTL
<1> QED
  BY <1>1, InitPromise, Knowing, PTL DEF Spec, ImplementsTelling, Promise!Spec

-----------------------------------------------------------------------------
(* What proves that somebody knew                                            *)

InOrder(n) ==
    /\ \A m \in Media : n.marks[m] # Nothing => n.marks[m] <= now
    /\ n.marks["read"] # Nothing =>
          n.marks["delivered"] # Nothing /\ n.marks["delivered"] <= n.marks["read"]

AllInOrder == \A i \in DOMAIN notices : InOrder(notices[i])

\* A notice after something is marked on it.
KeptAs(n, k) ==
    /\ k \in Notice /\ InOrder(k) /\ k.says = n.says
    /\ \A m \in Media : n.marks[m] # Nothing => k.marks[m] = n.marks[m]

LEMMA MarksType ==
  ASSUME now \in Time, NEW n \in Notice
  PROVE  /\ n.marks \in [Media -> Time \cup {Nothing}] /\ DOMAIN n.marks = Media
         /\ \A m \in Media : n.marks[m] # Nothing => n.marks[m] \in Nat
         /\ now \in Nat /\ now # Nothing
  BY TimeFacts, NothingFacts DEF Notice

LEMMA MarkedMarks ==
  ASSUME now \in Time, NEW n \in Notice, NEW m \in Media
  PROVE  /\ Marked(n, m).says = n.says
         /\ \A x \in Media : Marked(n, m).marks[x] = IF x = m /\ n.marks[x] = Nothing THEN now ELSE n.marks[x]
<1>1. n = [who |-> n.who, says |-> n.says, marks |-> n.marks] /\ n.marks \in [Media -> Time \cup {Nothing}]
  BY DEF Notice
<1> QED
  BY <1>1 DEF Marked

LEMMA DeliveredKept ==
  ASSUME now \in Time, NEW n \in Notice, InOrder(n)
  PROVE  KeptAs(n, n) /\ KeptAs(n, Marked(n, "delivered"))
<1>1. "delivered" \in Media /\ "read" \in Media
  BY DEF Media
<1>2. KeptAs(n, n)
  BY DEF KeptAs
<1> DEFINE k == Marked(n, "delivered")
<1>3. /\ k \in Notice /\ k.says = n.says
      /\ \A x \in Media : k.marks[x] = IF x = "delivered" /\ n.marks[x] = Nothing THEN now ELSE n.marks[x]
  BY <1>1, MarkedType, MarkedMarks
<1> HIDE DEF k
<1>4. InOrder(k)
  BY <1>1, <1>3, MarksType DEF InOrder
<1>5. KeptAs(n, k)
  BY <1>3, <1>4 DEF KeptAs
<1> QED
  BY <1>2, <1>5 DEF k

LEMMA ReadKept ==
  ASSUME now \in Time, NEW n \in Notice, InOrder(n), n.marks["read"] = Nothing
  PROVE  KeptAs(n, Marked(Marked(n, "delivered"), "read"))
<1>1. "delivered" \in Media /\ "read" \in Media
  BY DEF Media
<1> DEFINE d == Marked(n, "delivered")
           k == Marked(d, "read")
<1>2. /\ d \in Notice /\ InOrder(d) /\ d.says = n.says
      /\ \A x \in Media : d.marks[x] = IF x = "delivered" /\ n.marks[x] = Nothing THEN now ELSE n.marks[x]
  BY <1>1, MarkedMarks, DeliveredKept DEF KeptAs
<1> HIDE DEF d
<1>3. /\ k \in Notice /\ k.says = d.says
      /\ \A x \in Media : k.marks[x] = IF x = "read" /\ d.marks[x] = Nothing THEN now ELSE d.marks[x]
  BY <1>1, <1>2, MarkedType, MarkedMarks
<1> HIDE DEF k
<1>4. d.marks["delivered"] # Nothing /\ d.marks["delivered"] <= now
  BY <1>1, <1>2, MarksType DEF InOrder
<1>5. InOrder(k)
  BY <1>1, <1>2, <1>3, <1>4, MarksType DEF InOrder
<1>6. KeptAs(n, k)
  BY <1>2, <1>3, <1>5 DEF KeptAs
<1> QED
  BY <1>6 DEF k, d

\* A step that keeps every notice, and what it adds, in order.
Keeps == /\ DOMAIN notices \subseteq DOMAIN notices'
         /\ \A i \in DOMAIN notices : KeptAs(notices[i], notices'[i])
         /\ \A i \in DOMAIN notices' : InOrder(notices'[i])

LEMMA ShownKeeps ==
  ASSUME now \in Time, NEW log \in Seq(Notice), NEW p, \A i \in DOMAIN log : InOrder(log[i])
  PROVE  /\ DOMAIN Shown(log, p) = DOMAIN log
         /\ \A i \in DOMAIN log : KeptAs(log[i], Shown(log, p)[i])
<1>1. \A i \in DOMAIN log : log[i] \in Notice
  OBVIOUS
<1>2. \A i \in DOMAIN log : KeptAs(log[i], log[i]) /\ KeptAs(log[i], Marked(log[i], "delivered"))
  BY <1>1, DeliveredKept
<1> QED
  BY <1>2 DEF Shown

LEMMA SameKeeps ==
  ASSUME TInv, AllInOrder, notices' = notices
  PROVE  Keeps
<1>1. now \in Time /\ \A i \in DOMAIN notices : notices[i] \in Notice
  BY DEF TInv, TypeOK
<1> QED
  BY <1>1, DeliveredKept DEF AllInOrder, Keeps

LEMMA ShowingKeeps ==
  ASSUME TInv, AllInOrder, NEW p, notices' = Shown(notices, p)
  PROVE  Keeps
<1>1. now \in Time /\ notices \in Seq(Notice)
  BY DEF TInv, TypeOK
<1> QED
  BY <1>1, ShownKeeps DEF AllInOrder, Keeps, KeptAs

LEMMA PublishKeeps ==
  ASSUME TInv, AllInOrder, NEW b \in Publishers, Publish(b)
  PROVE  Keeps
<1> DEFINE who == (CHOOSE c \in DOMAIN pub[b].rows : TRUE)[1]
           n == [who |-> who, says |-> pub[b].news, marks |-> NoMarks]
           log == IF pub[b].news = <<>> THEN notices ELSE Append(notices, n)
<1>1. now \in Time /\ notices \in Seq(Notice)
  BY DEF TInv, TypeOK
<1>2. pub[b].news # <<>> => n \in Notice /\ InOrder(n)
  <2>1. \A m \in Media : n.marks[m] = Nothing
    BY DEF NoMarks
  <2>2. "read" \in Media
    BY DEF Media
  <2>3. pub[b].news # <<>> => n \in Notice
    BY NewNotice
  <2> HIDE DEF n
  <2> QED
    BY <2>1, <2>2, <2>3 DEF InOrder
<1>3. notices' = IF b \in Pages THEN Shown(log, pub[b].of) ELSE log
  BY DEF Publish
<1> HIDE DEF n
<1>4. /\ log \in Seq(Notice) /\ DOMAIN notices \subseteq DOMAIN log
      /\ \A i \in DOMAIN notices : log[i] = notices[i]
      /\ \A i \in DOMAIN log : InOrder(log[i])
  <2>1. CASE pub[b].news = <<>>
    BY <1>1, <2>1 DEF AllInOrder
  <2>2. CASE pub[b].news # <<>>
    <3>1. log = Append(notices, n) /\ n \in Notice /\ InOrder(n)
      BY <1>2, <2>2
    <3> HIDE DEF log
    <3>2. /\ log \in Seq(Notice) /\ DOMAIN notices = 1 .. Len(notices) /\ Len(notices) \in Nat
          /\ DOMAIN log = 1 .. Len(notices) + 1
          /\ \A i \in 1 .. Len(notices) : log[i] = notices[i]
          /\ log[Len(notices) + 1] = n
      BY <1>1, <3>1
    <3> QED
      BY <3>1, <3>2 DEF AllInOrder
  <2> QED
    BY <2>1, <2>2
<1> HIDE DEF log
<1>5. \A i \in DOMAIN log : KeptAs(log[i], log[i])
  BY <1>1, <1>4, DeliveredKept
<1>6. DOMAIN notices' = DOMAIN log /\ \A i \in DOMAIN log : KeptAs(log[i], notices'[i])
  BY <1>1, <1>3, <1>4, <1>5, ShownKeeps
<1> QED
  BY <1>4, <1>6 DEF Keeps, KeptAs

LEMMA SendKeeps ==
  ASSUME TInv, AllInOrder, NEW b \in Publishers, NEW i \in DOMAIN notices, Send(b, i)
  PROVE  Keeps
<1>1. now \in Time /\ notices \in Seq(Notice) /\ notices[i] \in Notice /\ InOrder(notices[i])
  BY DEF TInv, TypeOK, AllInOrder
<1>2. PICK through \in SUBSET Channels :
         notices' = [notices EXCEPT ![i].marks =
            [m \in DOMAIN @ |-> IF m \in through /\ @[m] = Nothing THEN now ELSE @[m]]]
  BY DEF Send
<1> DEFINE marks == [m \in DOMAIN notices[i].marks |->
                       IF m \in through /\ notices[i].marks[m] = Nothing THEN now ELSE notices[i].marks[m]]
           k == [notices[i] EXCEPT !.marks = marks]
<1>3. notices' = [notices EXCEPT ![i] = k]
  BY <1>2
<1>4. /\ marks \in [Media -> Time \cup {Nothing}]
      /\ \A m \in Media : marks[m] = IF m \in through /\ notices[i].marks[m] = Nothing
                                    THEN now ELSE notices[i].marks[m]
  BY <1>1, MarksType
<1> HIDE DEF marks
<1>5. k \in Notice /\ k.says = notices[i].says /\ k.marks = marks
  BY <1>1, <1>4 DEF Notice
<1> HIDE DEF k
<1>6. "read" \in Media \ through /\ "delivered" \in Media \ through
  BY RosterAssumption DEF Media
<1>7. KeptAs(notices[i], k)
  <2>1. InOrder(k)
    BY <1>1, <1>4, <1>5, <1>6, MarksType DEF InOrder
  <2> QED
    BY <1>4, <1>5, <2>1 DEF KeptAs
<1>8. \A j \in DOMAIN notices : KeptAs(notices[j], notices[j])
  BY <1>1, DeliveredKept DEF AllInOrder
<1>9. DOMAIN notices' = DOMAIN notices /\ \A j \in DOMAIN notices : KeptAs(notices[j], notices'[j])
  BY <1>1, <1>3, <1>7, <1>8
<1> QED
  BY <1>9 DEF Keeps, KeptAs

LEMMA ReadKeeps ==
  ASSUME TInv, AllInOrder, NEW p \in People, NEW i \in DOMAIN notices, Read(p, i)
  PROVE  Keeps
<1>1. now \in Time /\ notices \in Seq(Notice) /\ notices[i] \in Notice /\ InOrder(notices[i])
  BY DEF TInv, TypeOK, AllInOrder
<1> DEFINE k == Marked(Marked(notices[i], "delivered"), "read")
<1>2. notices' = [notices EXCEPT ![i] = k] /\ notices[i].marks["read"] = Nothing
  BY DEF Read
<1>3. KeptAs(notices[i], k)
  BY <1>1, <1>2, ReadKept
<1> HIDE DEF k
<1>4. \A j \in DOMAIN notices : KeptAs(notices[j], notices[j])
  BY <1>1, DeliveredKept DEF AllInOrder
<1>5. DOMAIN notices' = DOMAIN notices /\ \A j \in DOMAIN notices : KeptAs(notices[j], notices'[j])
  BY <1>1, <1>2, <1>3, <1>4
<1> QED
  BY <1>5 DEF Keeps, KeptAs

LEMMA StepKeeps ==
  ASSUME TInv, AllInOrder, [Next]_vars
  PROVE  Keeps
<1>1. CASE UNCHANGED vars
  BY <1>1, SameKeeps DEF vars
<1>2. ASSUME NEW e \in Editors, StartOf(e) \/ Editing(e) \/ CrashEdit(e) PROVE Keeps
  <2>1. notices' = notices
    BY <1>2 DEF StartOf, Redraw, Add, Change, Remove, Reassign, Begin, Editing, Photograph, Aim,
                Write, LookUp, Note, Commit, CrashEdit, rows
  <2> QED
    BY <2>1, SameKeeps
<1>3. ASSUME NEW b \in Publishers, Publishing(b) \/ CrashRun(b) PROVE Keeps
  <2>1. ASSUME (\E p \in People : LockRows(b, p)) \/ PhotographNow(b) \/ CrashRun(b) PROVE Keeps
    BY <2>1, SameKeeps DEF LockRows, PhotographNow, CrashRun, rows
  <2>2. CASE Finish(b)
    BY <2>2, SameKeeps, ShowingKeeps DEF Finish
  <2> QED
    BY <1>3, <2>1, <2>2, PublishKeeps, SendKeeps DEF Publishing
<1>4. ASSUME NEW b, NEW of, NEW wait, Load(b, of, wait) PROVE Keeps
  BY <1>4, SameKeeps DEF Load, rows
<1>5. ASSUME NEW p \in People, ShowPage(p) \/ Deactivate(p) \/ Reactivate(p) PROVE Keeps
  BY <1>5, SameKeeps, ShowingKeeps DEF ShowPage, Deactivate, Reactivate, rows
<1>6. CASE Tick
  BY <1>6, SameKeeps DEF Tick, rows
<1> QED
  BY <1>1, <1>2, <1>3, <1>4, <1>5, <1>6, Steps, ReadKeeps

LEMMA OrderStep == TInv /\ AllInOrder /\ [Next]_vars => AllInOrder'
<1> SUFFICES ASSUME TInv, AllInOrder, [Next]_vars PROVE AllInOrder'
  OBVIOUS
<1>1. \A i \in DOMAIN notices' : InOrder(notices'[i])
  BY StepKeeps DEF Keeps
<1>2. now \in Nat /\ (now' = now \/ now' = now + 1)
  <2>1. now' = now \/ Tick
    <3>1. ASSUME UNCHANGED vars PROVE now' = now
      BY <3>1 DEF vars
    <3>2. ASSUME NEW e \in Editors, StartOf(e) PROVE now' = now
      BY <3>2 DEF StartOf, Redraw, Add, Change, Remove, Reassign, Begin, clock
    <3>3. ASSUME NEW e \in Editors, Editing(e) \/ CrashEdit(e) PROVE now' = now
      BY <3>3 DEF Editing, Photograph, Aim, Write, LookUp, Note, Commit, CrashEdit, clock
    <3>4. ASSUME NEW b \in Publishers, Publishing(b) \/ CrashRun(b) PROVE now' = now
      BY <3>4 DEF Publishing, LockRows, PhotographNow, Publish, Finish, Send, CrashRun, clock
    <3>5. ASSUME NEW b, NEW of, NEW wait, Load(b, of, wait) PROVE now' = now
      BY <3>5 DEF Load, clock
    <3>6. ASSUME NEW p, NEW i, Read(p, i) PROVE now' = now
      BY <3>6 DEF Read, clock
    <3>7. ASSUME NEW p, ShowPage(p) \/ Deactivate(p) \/ Reactivate(p) PROVE now' = now
      BY <3>7 DEF ShowPage, Deactivate, Reactivate, clock
    <3> QED
      BY <3>1, <3>2, <3>3, <3>4, <3>5, <3>6, <3>7, Steps
  <2> QED
    BY <2>1, TimeFacts DEF Tick, TInv, TypeOK
<1>3. \A i \in DOMAIN notices' : notices'[i] \in Notice
  <2>1. TInv'
    BY TypesStep
  <2> QED
    BY <2>1 DEF TInv, TypeOK
<1>4. ASSUME NEW i \in DOMAIN notices', NEW m \in Media, notices'[i].marks[m] # Nothing
      PROVE  notices'[i].marks[m] <= now'
  <2>1. notices'[i].marks[m] <= now
    BY <1>1, <1>4 DEF InOrder
  <2>2. notices'[i].marks[m] \in Nat
    BY <1>3, <1>4, TimeFacts DEF Notice
  <2> QED
    BY <1>2, <2>1, <2>2
<1> QED
  BY <1>1, <1>4 DEF AllInOrder, InOrder

\* What proves that somebody knew is written once, and nothing is read before
\* it arrives, whichever of the job, the page and another application comes
\* first (migration 0004).
THEOREM MarksAreWrittenOnce == Spec => ProofStands
<1> DEFINE Kept ==
      \A i \in DOMAIN notices :
          /\ notices'[i].says = notices[i].says
          /\ \A m \in DOMAIN notices[i].marks :
                notices[i].marks[m] # Nothing => notices'[i].marks[m] = notices[i].marks[m]
          /\ notices'[i].marks["read"] # Nothing =>
                /\ notices'[i].marks["delivered"] # Nothing
                /\ notices'[i].marks["delivered"] <= notices'[i].marks["read"]
<1>1. Init => TInv /\ AllInOrder
  BY InitTypes DEF Init, AllInOrder
<1>2. TInv /\ AllInOrder /\ [Next]_vars => (TInv /\ AllInOrder)'
  BY TypesStep, OrderStep
<1>3. TInv /\ AllInOrder /\ [Next]_vars => Kept
  <2> SUFFICES ASSUME TInv, AllInOrder, [Next]_vars PROVE Kept
    OBVIOUS
  <2>1. \A i \in DOMAIN notices : DOMAIN notices[i].marks = Media
    <3>1. now \in Time /\ \A i \in DOMAIN notices : notices[i] \in Notice
      BY DEF TInv, TypeOK
    <3> QED
      BY <3>1, MarksType
  <2> QED
    BY <2>1, StepKeeps DEF Keeps, KeptAs, InOrder
<1> QED
  BY <1>1, <1>2, <1>3, PTL DEF Spec, ProofStands

=============================================================================
