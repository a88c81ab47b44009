-------------------------------- MODULE TimeProofs --------------------------------
(***************************************************************************)
(* Proofs about the time of people, for any company, calendar and          *)
(* requests: how leave is asked for and decided (Absences), what it costs  *)
(* (LeaveBalance), the hours read in a register (Hours, WorkingDay) and    *)
(* the review of a roster (RosterReview).                                  *)
(*                                                                         *)
(* A row belongs to the request that files it until it is filed, because   *)
(* nobody else knows it, and from then on to the one that holds its lock:  *)
(* between the claim and the commit nobody else settles it, so a leave is  *)
(* settled once and each note once.  A document is only removed on behalf  *)
(* of a row that is already withdrawn and points at it no more.            *)
(*                                                                         *)
(* The balance adds up days.  The sum of the community modules is a        *)
(* recursive function chosen to satisfy its equation; that there is one is *)
(* shown set by set, from a least set that would have none, and so is what *)
(* the sums are used for: they grow with what they add, and the sum of the *)
(* sizes of sets that do not meet is the size of all of them.              *)
(*                                                                         *)
(* The hours are read by two loops over the events in order.  The fold is  *)
(* unfolded in the same way, event by event, and what the loop of the days *)
(* carries is shown to be the entry that is open at that moment: recent,   *)
(* with no exit since, and the only one when no two entries follow each    *)
(* other.  That says which day an event is of without the loop, so a       *)
(* window that leaves room for an opening on each side of a day reads in   *)
(* it the events the whole register has there.                             *)
(*                                                                         *)
(* The review of a roster reads beyond the window it is asked about, far   *)
(* enough for every week that meets it and for the shift before each of    *)
(* its days.  A reduction of hours that meets a window and a week meets    *)
(* them on a day of both, so the half with that day says what the whole.   *)
(***************************************************************************)
EXTENDS Absences, LeaveBalance, Hours, RosterReview, TLAPS, FiniteSetTheorems

RequestRecords ==
    [pc : Stages, op : Ops \cup {"none"}, on : Absences \cup Treads \cup {Nothing},
     form : Forms \cup {Nothing}, who : People \cup {Nothing}, grant : BOOLEAN]

Busy(r)   == req[r].pc \notin Over
Filing(r) == Busy(r) /\ req[r].op = "file"
Judging(r) == Busy(r) /\ req[r].op \in {"approve", "reject", "cancel"}
Claimed(r) == req[r].pc \in {"held", "cleared"} /\ req[r].op # "file"

\* What each request is about.
Shaped(r) ==
    /\ Busy(r) => req[r].op \in Ops /\ req[r].who \in People
    /\ Filing(r) => /\ req[r].on \in Absences /\ req[r].form \in Forms
                    /\ status[req[r].on] = "UNFILED"
    /\ Judging(r) => req[r].on \in Absences /\ status[req[r].on] # "UNFILED"
    /\ Busy(r) /\ Settling(r) => req[r].on \in Treads
    /\ req[r].pc = "sweeping" => req[r].op = "cancel" /\ req[r].on \notin paper

AllShaped == \A r \in Requests : Shaped(r)

OneFiling == \A q, r \in Requests : Filing(q) /\ Filing(r) /\ req[q].on = req[r].on => q = r

\* Whoever has claimed a row holds it, and it is still open.
ClaimsHold == \A r \in Requests : Claimed(r) => lock[req[r].on] = r /\ StillOpen(r)

IInv == TypeOK /\ AllShaped /\ OneFiling /\ ClaimsHold /\ NoRowWithoutItsDocument

-----------------------------------------------------------------------------
LEMMA NothingIsNoRequest == Nothing \notin Requests /\ Nothing \notin People /\ Nothing \notin Forms
  BY CompanyAssumption

LEMMA NotSentType ==
  /\ NotSent \in RequestRecords
  /\ NotSent.pc = "idle"
  /\ \A how \in Over : /\ [NotSent EXCEPT !.pc = how] \in RequestRecords
                       /\ [NotSent EXCEPT !.pc = how].pc = how
  BY DEF NotSent, RequestRecords, Stages, Over

LEMMA ReleasedType ==
  ASSUME TypeOK, NEW r \in Requests
  PROVE  /\ Released(r) \in [Lockable -> Requests \cup {Nothing}]
         /\ \A x \in Lockable : lock[x] \in Requests \ {r} => Released(r)[x] = lock[x]
  BY NothingIsNoRequest DEF TypeOK, Released

LEMMA InitIInv == Init => IInv
<1> SUFFICES ASSUME Init PROVE IInv
  OBVIOUS
<1>1. \A r \in Requests : req[r] = NotSent
  BY DEF Init
<1>2. TypeOK
  BY NotSentType DEF Init, TypeOK, Statuses, RequestRecords
<1>3. AllShaped /\ OneFiling /\ ClaimsHold
  BY <1>1, NotSentType DEF AllShaped, Shaped, Busy, Filing, Judging, Over, OneFiling, ClaimsHold,
                          Claimed
<1> QED
  BY <1>2, <1>3 DEF IInv, NoRowWithoutItsDocument, Init

-----------------------------------------------------------------------------
(* Steps that write no row.                                                *)

\* Nobody else loses a lock.
LocksOfOthersStay(r) ==
    /\ lock' \in [Lockable -> Requests \cup {Nothing}]
    /\ \A x \in Lockable : lock[x] \in Requests \ {r} => lock'[x] = lock[x]

OpenFor(b) ==
    IF b.op \in {"confirm", "dismiss"} THEN back[b.on] = "PENDING" ELSE status[b.on] = "PENDING"

\* What a request may come to be about.
WellMade(r, b) ==
    b.pc \notin Over =>
        /\ b.op \in Ops /\ b.who \in People /\ b.pc # "sweeping"
        /\ b.op = "file" =>
              /\ b.on \in Absences /\ b.form \in Forms /\ status[b.on] = "UNFILED"
              /\ \A q \in Requests \ {r} : Filing(q) => req[q].on # b.on
        /\ b.op \in {"approve", "reject", "cancel"} => b.on \in Absences /\ status[b.on] # "UNFILED"
        /\ b.op \in {"confirm", "dismiss"} => b.on \in Treads
        /\ b.pc \in {"held", "cleared"} /\ b.op # "file" => lock'[b.on] = r /\ OpenFor(b)

LEMMA QuietIInv ==
  ASSUME IInv, NEW r \in Requests, NEW b \in RequestRecords,
         req' = [req EXCEPT ![r] = b], UNCHANGED <<rows, paper>>,
         store \subseteq store', store' \subseteq Absences,
         LocksOfOthersStay(r), WellMade(r, b)
  PROVE  IInv'
<1> USE DEF IInv
<1>1. UNCHANGED <<leave, status, judge, back, paper>>
  BY DEF rows
<1>2. /\ req'[r] = b /\ req' \in [Requests -> RequestRecords]
      /\ \A q \in Requests \ {r} : req'[q] = req[q]
  BY DEF TypeOK, RequestRecords
<1>3. TypeOK'
  BY <1>1, <1>2 DEF TypeOK, LocksOfOthersStay, RequestRecords
<1>4. AllShaped'
  <2> SUFFICES ASSUME NEW q \in Requests PROVE Shaped(q)'
    BY DEF AllShaped
  <2>1. CASE q = r
    BY <2>1, <1>1, <1>2 DEF Shaped, WellMade, Busy, Filing, Judging, Settling, Over
  <2>2. CASE q # r
    BY <2>2, <1>1, <1>2 DEF AllShaped, Shaped, Busy, Filing, Judging, Settling
  <2> QED
    BY <2>1, <2>2
<1>5. OneFiling'
  BY <1>2 DEF OneFiling, Filing, Busy, WellMade
<1>6. ClaimsHold'
  <2> SUFFICES ASSUME NEW q \in Requests, Claimed(q)' PROVE lock'[req'[q].on] = q /\ StillOpen(q)'
    BY DEF ClaimsHold
  <2>1. CASE q = r
    BY <2>1, <1>1, <1>2 DEF Claimed, WellMade, Over, StillOpen, Settling, OpenFor
  <2>2. CASE q # r
    <3>1. Claimed(q) /\ req'[q] = req[q] /\ lock[req[q].on] = q /\ StillOpen(q)
      BY <2>2, <1>2 DEF Claimed, ClaimsHold
    <3>2. req[q].on \in Lockable
      BY <3>1 DEF AllShaped, Shaped, Busy, Judging, Settling, Lockable, Claimed, Over, Ops
    <3> QED
      BY <3>1, <3>2, <2>2, <1>1 DEF LocksOfOthersStay, StillOpen, Settling
  <2> QED
    BY <2>1, <2>2
<1> QED
  BY <1>1, <1>3, <1>4, <1>5, <1>6 DEF NoRowWithoutItsDocument

LEMMA LockingKeeps ==
  ASSUME TypeOK, NEW r \in Requests
  PROVE  /\ lock' = lock => LocksOfOthersStay(r)
         /\ lock' = Released(r) => LocksOfOthersStay(r)
         /\ \A x \in Lockable :
               lock[x] = Nothing /\ lock' = [lock EXCEPT ![x] = r] => LocksOfOthersStay(r)
  BY ReleasedType, NothingIsNoRequest DEF TypeOK, LocksOfOthersStay

\* Ending without having written.
LEMMA LeaveIInv ==
  ASSUME IInv, NEW r \in Requests, NEW how \in Over, Leave(r, how), UNCHANGED <<rows, paper, store>>
  PROVE  IInv'
<1> DEFINE b == [NotSent EXCEPT !.pc = how]
<1>1. b \in RequestRecords /\ b.pc = how
  BY NotSentType
<1>2. req' = [req EXCEPT ![r] = b] /\ lock' = Released(r)
  BY DEF Leave
<1>3. WellMade(r, b)
  BY <1>1 DEF WellMade
<1>4. LocksOfOthersStay(r) /\ store' = store /\ store \subseteq Absences
  BY <1>2, LockingKeeps DEF IInv, TypeOK
<1> QED
  BY <1>1, <1>2, <1>3, <1>4, QuietIInv

\* Going on to another stage of the same request.
LEMMA AdvanceIInv ==
  ASSUME IInv, NEW r \in Requests, NEW to \in {"held", "checked", "cleared"}, NEW grant \in BOOLEAN,
         Busy(r), req[r].pc # "sweeping",
         req' = [req EXCEPT ![r].pc = to, ![r].grant = grant], UNCHANGED <<rows, paper, store>>,
         LocksOfOthersStay(r),
         to # "checked" /\ req[r].op # "file" => lock'[req[r].on] = r /\ StillOpen(r)
  PROVE  IInv'
<1> DEFINE b == [req[r] EXCEPT !.pc = to, !.grant = grant]
<1>1. req[r] \in RequestRecords
  BY DEF IInv, TypeOK, RequestRecords
<1>2. /\ b \in RequestRecords /\ b.pc = to /\ b.op = req[r].op /\ b.on = req[r].on
      /\ b.form = req[r].form /\ b.who = req[r].who
  BY <1>1 DEF RequestRecords, Stages
<1>3. req' = [req EXCEPT ![r] = b]
  OBVIOUS
<1> HIDE DEF b
<1>4. WellMade(r, b)
  <2>1. Shaped(r) /\ (Filing(r) => \A q \in Requests \ {r} : Filing(q) => req[q].on # req[r].on)
    BY DEF IInv, AllShaped, OneFiling
  <2> QED
    BY <2>1, <1>2 DEF WellMade, Shaped, Filing, Judging, Settling, StillOpen, OpenFor
<1>5. store' = store /\ store \subseteq Absences
  BY DEF IInv, TypeOK
<1> QED
  BY <1>2, <1>3, <1>4, <1>5, QuietIInv

LEMMA OnlyTheStage ==
  ASSUME TypeOK, NEW r \in Requests, NEW to, req' = [req EXCEPT ![r].pc = to]
  PROVE  /\ req[r].grant \in BOOLEAN
         /\ req' = [req EXCEPT ![r].pc = to, ![r].grant = req[r].grant]
<1>1. req[r] \in RequestRecords
  BY DEF TypeOK, RequestRecords
<1>2. [req[r] EXCEPT !.pc = to] = [req[r] EXCEPT !.pc = to, !.grant = req[r].grant]
  BY <1>1 DEF RequestRecords
<1>3. req' = [req EXCEPT ![r] = [req[r] EXCEPT !.pc = to]]
  OBVIOUS
<1>4. [req EXCEPT ![r].pc = to, ![r].grant = req[r].grant]
        = [req EXCEPT ![r] = [req[r] EXCEPT !.pc = to, !.grant = req[r].grant]]
  BY DEF TypeOK
<1> QED
  BY <1>1, <1>2, <1>3, <1>4 DEF RequestRecords

LEMMA StartsIInv ==
  ASSUME IInv, NEW r \in Requests, NEW who \in People,
         \/ \E a \in Absences, f \in Forms : StartFiling(r, a, who, f)
         \/ \E a \in Absences, op \in Ops : Start(r, op, a, who)
         \/ \E t \in Treads, op \in Ops : StartSettling(r, op, t, who)
  PROVE  IInv'
<1>1. /\ UNCHANGED <<rows, paper, store>> /\ LocksOfOthersStay(r)
      /\ store' = store /\ store \subseteq Absences
  BY LockingKeeps DEF StartFiling, Start, StartSettling, IInv, TypeOK
<1>2. CASE \E a \in Absences, f \in Forms : StartFiling(r, a, who, f)
  <2>1. PICK a \in Absences, f \in Forms : StartFiling(r, a, who, f)
    BY <1>2
  <2> DEFINE b == [pc |-> "sent", op |-> "file", on |-> a, form |-> f, who |-> who, grant |-> FALSE]
  <2>2. b \in RequestRecords
    BY DEF RequestRecords, Stages, Ops
  <2>3. WellMade(r, b)
    BY <2>1 DEF WellMade, StartFiling, Ops, Filing
  <2>4. req' = [req EXCEPT ![r] = b]
    BY <2>1 DEF StartFiling
  <2> QED
    BY <1>1, <2>2, <2>3, <2>4, QuietIInv
<1>3. CASE \E a \in Absences, op \in Ops : Start(r, op, a, who)
  <2>1. PICK a \in Absences, op \in Ops : Start(r, op, a, who)
    BY <1>3
  <2> DEFINE b == [NotSent EXCEPT !.pc = "sent", !.op = op, !.on = a, !.who = who]
  <2>2. b \in RequestRecords /\ b.pc = "sent" /\ b.op = op /\ b.on = a /\ b.who = who
    BY DEF NotSent, RequestRecords, Stages
  <2>3. req' = [req EXCEPT ![r] = b]
    BY <2>1 DEF Start
  <2> HIDE DEF b
  <2>4. WellMade(r, b)
    BY <2>1, <2>2 DEF WellMade, Start
  <2> QED
    BY <1>1, <2>2, <2>3, <2>4, QuietIInv
<1>4. CASE \E t \in Treads, op \in Ops : StartSettling(r, op, t, who)
  <2>1. PICK t \in Treads, op \in Ops : StartSettling(r, op, t, who)
    BY <1>4
  <2> DEFINE b == [NotSent EXCEPT !.pc = "sent", !.op = op, !.on = t, !.who = who]
  <2>2. b \in RequestRecords /\ b.pc = "sent" /\ b.op = op /\ b.on = t /\ b.who = who
    BY DEF NotSent, RequestRecords, Stages
  <2>3. req' = [req EXCEPT ![r] = b]
    BY <2>1 DEF StartSettling
  <2> HIDE DEF b
  <2>4. WellMade(r, b)
    BY <2>1, <2>2 DEF WellMade, StartSettling
  <2> QED
    BY <1>1, <2>2, <2>3, <2>4, QuietIInv
<1> QED
  BY <1>2, <1>3, <1>4

LEMMA HoldPersonIInv ==
  ASSUME IInv, NEW r \in Requests, HoldPerson(r)
  PROVE  IInv'
<1>1. Busy(r) /\ req[r].op = "file" /\ req[r].pc = "sent"
  BY DEF HoldPerson, At, Busy, Over
<1>2. req' = [req EXCEPT ![r].pc = "held"] /\ UNCHANGED <<rows, paper, store>>
  BY DEF HoldPerson, Take
<1>3. LocksOfOthersStay(r)
  <2>1. req[r].form.who \in Lockable
    BY <1>1, FormsAssumption DEF IInv, AllShaped, Shaped, Filing, FormShape, Lockable
  <2> QED
    BY <2>1, LockingKeeps DEF IInv, HoldPerson, Take
<1> QED
  BY <1>1, <1>2, <1>3, OnlyTheStage, AdvanceIInv DEF IInv

LEMMA CheckClashIInv ==
  ASSUME IInv, NEW r \in Requests, CheckClash(r)
  PROVE  IInv'
<1>1. Busy(r) /\ req[r].op = "file" /\ req[r].pc = "held" /\ UNCHANGED <<rows, paper, store>>
  BY DEF CheckClash, At, Busy, Over
<1>2. \/ req' = [req EXCEPT ![r].pc = "checked"] /\ lock' = lock
      \/ Leave(r, "idle")
  BY DEF CheckClash
<1>3. CASE req' = [req EXCEPT ![r].pc = "checked"] /\ lock' = lock
  BY <1>1, <1>3, OnlyTheStage, LockingKeeps, AdvanceIInv DEF IInv
<1>4. CASE Leave(r, "idle")
  BY <1>1, <1>4, LeaveIInv DEF Over
<1> QED
  BY <1>2, <1>3, <1>4

LEMMA RecordedByCompanyIInv ==
  ASSUME IInv, NEW r \in Requests, RecordedByCompany(r)
  PROVE  IInv'
<1>1. Busy(r) /\ req[r].op = "file" /\ req[r].pc = "checked" /\ UNCHANGED <<rows, paper, store>>
  BY DEF RecordedByCompany, At, Busy, Over
<1> DEFINE grant == /\ ~MustLeaveIt(req[r].who, req[r].form.who)
                    /\ NobodyElseGranted(req[r].on, req[r].form)
<1>2. grant \in BOOLEAN
  OBVIOUS
<1>3. req' = [req EXCEPT ![r].pc = "cleared", ![r].grant = grant] /\ lock' = lock
  BY DEF RecordedByCompany
<1> HIDE DEF grant
<1> QED
  BY <1>1, <1>2, <1>3, LockingKeeps, AdvanceIInv DEF IInv

LEMMA ClaimIInv ==
  ASSUME IInv, NEW r \in Requests, Claim(r)
  PROVE  IInv'
<1>1. Busy(r) /\ req[r].op # "file" /\ req[r].pc = "sent" /\ UNCHANGED <<rows, paper, store>>
  BY DEF Claim, Busy, Over
<1>2. CASE StillOpen(r)
  <2>1. req[r].on \in Lockable
    BY <1>1 DEF IInv, AllShaped, Shaped, Judging, Settling, Ops, Lockable
  <2>2. /\ lock[req[r].on] = Nothing /\ lock' = [lock EXCEPT ![req[r].on] = r]
        /\ req' = [req EXCEPT ![r].pc = "held"]
    BY <1>2 DEF Claim, Take
  <2>3. LocksOfOthersStay(r) /\ lock'[req[r].on] = r
    BY <2>1, <2>2, LockingKeeps DEF IInv, TypeOK
  <2> QED
    BY <1>1, <1>2, <2>2, <2>3, OnlyTheStage, AdvanceIInv DEF IInv
<1>3. CASE ~StillOpen(r)
  BY <1>1, <1>3, LeaveIInv DEF Claim, Over
<1> QED
  BY <1>2, <1>3

LEMMA CheckGrantIInv ==
  ASSUME IInv, NEW r \in Requests, CheckGrant(r)
  PROVE  IInv'
<1>1. Busy(r) /\ req[r].op = "approve" /\ req[r].pc = "held" /\ UNCHANGED <<rows, paper, store>>
  BY DEF CheckGrant, At, Busy, Over
<1>2. \/ Leave(r, "idle") \/ Leave(r, "clashed")
      \/ req' = [req EXCEPT ![r].pc = "cleared"] /\ lock' = lock
  BY DEF CheckGrant
<1>3. CASE Leave(r, "idle") \/ Leave(r, "clashed")
  BY <1>1, <1>3, LeaveIInv DEF Over
<1>4. CASE req' = [req EXCEPT ![r].pc = "cleared"] /\ lock' = lock
  <2>1. lock[req[r].on] = r /\ StillOpen(r)
    BY <1>1 DEF IInv, ClaimsHold, Claimed
  <2> QED
    BY <1>1, <1>4, <2>1, OnlyTheStage, LockingKeeps, AdvanceIInv DEF IInv
<1> QED
  BY <1>2, <1>3, <1>4

LEMMA StoreDocumentIInv ==
  ASSUME IInv, NEW r \in Requests, StoreDocument(r)
  PROVE  IInv'
<1>1. UNCHANGED <<leave, status, judge, back, paper, lock, req>>
  BY DEF StoreDocument, rows
<1>2. store' = store \cup {req[r].on} /\ req[r].on \in Absences
  BY DEF StoreDocument, At, IInv, AllShaped, Shaped, Filing, Busy, Over
<1> QED
  BY <1>1, <1>2 DEF IInv, TypeOK, AllShaped, Shaped, Busy, Filing, Judging, Settling, OneFiling,
                    ClaimsHold, Claimed, StillOpen, NoRowWithoutItsDocument

-----------------------------------------------------------------------------
(* Steps that write and end the request.                                   *)

\* One row is written: the one it files, or one it holds.  No open note is
\* touched but the one it holds.
WritesItsOwn(r) ==
    /\ \A x \in Absences : status'[x] # status[x] =>
          /\ status'[x] # "UNFILED"
          /\ \/ Filing(r) /\ x = req[r].on
             \/ Claimed(r) /\ ~Settling(r) /\ x = req[r].on
    /\ \A t \in Treads : back[t] = "PENDING" =>
          \/ back'[t] = "PENDING"
          \/ Claimed(r) /\ Settling(r) /\ t = req[r].on
    /\ \A x \in paper' \ paper : Filing(r) /\ x = req[r].on /\ status'[x] # "UNFILED"

\* How it ends: over, or with the document of a withdrawn row to remove.
Ends(r, b) ==
    \/ b.pc \in Over
    \/ /\ b.pc = "sweeping" /\ b.op = "cancel" /\ b.who \in People
       /\ b.on \in Absences /\ status'[b.on] # "UNFILED" /\ b.on \notin paper'

RowsTyped ==
    /\ leave' \in [Absences -> Forms \cup {Nothing}]
    /\ status' \in [Absences -> Statuses]
    /\ judge' \in [Absences -> People \cup {Nothing}]
    /\ back' \in [Treads -> {"none", "PENDING", "CONFIRMED", "DISMISSED"}]
    /\ paper' \subseteq Absences /\ store' \subseteq Absences
    /\ paper' \subseteq store'

LEMMA WriteIInv ==
  ASSUME IInv, NEW r \in Requests, NEW b \in RequestRecords, req' = [req EXCEPT ![r] = b],
         LocksOfOthersStay(r), WritesItsOwn(r), Ends(r, b), RowsTyped
  PROVE  IInv'
<1> USE DEF IInv
<1>1. /\ req'[r] = b /\ req' \in [Requests -> RequestRecords]
      /\ \A q \in Requests \ {r} : req'[q] = req[q]
  BY DEF TypeOK, RequestRecords
<1>2. TypeOK'
  BY <1>1 DEF TypeOK, RowsTyped, LocksOfOthersStay, RequestRecords
<1>3. AllShaped'
  <2> SUFFICES ASSUME NEW q \in Requests PROVE Shaped(q)'
    BY DEF AllShaped
  <2>1. CASE q = r
    BY <2>1, <1>1 DEF Shaped, Ends, Busy, Filing, Judging, Settling, Over, Ops
  <2>2. CASE q # r
    <3>1. Shaped(q) /\ req'[q] = req[q]
      BY <2>2, <1>1 DEF AllShaped
    <3>2. Filing(q) => status'[req[q].on] = "UNFILED"
      <4> SUFFICES ASSUME Filing(q), status'[req[q].on] # "UNFILED" PROVE FALSE
        OBVIOUS
      <4>1. req[q].on \in Absences /\ status[req[q].on] = "UNFILED"
        BY <3>1 DEF Shaped
      <4>2. CASE Filing(r) /\ req[q].on = req[r].on
        BY <4>2, <2>2 DEF OneFiling
      <4>3. CASE Claimed(r) /\ ~Settling(r) /\ req[q].on = req[r].on
        BY <4>1, <4>3 DEF ClaimsHold, StillOpen
      <4> QED
        BY <4>1, <4>2, <4>3 DEF WritesItsOwn
    <3>3. Judging(q) => status'[req[q].on] # "UNFILED"
      BY <3>1 DEF Shaped, WritesItsOwn
    <3>4. req[q].pc = "sweeping" => req[q].on \notin paper'
      <4> SUFFICES ASSUME req[q].pc = "sweeping", req[q].on \in paper' PROVE FALSE
        OBVIOUS
      <4>1. Judging(q) /\ req[q].on \notin paper
        BY <3>1 DEF Shaped, Judging, Busy, Over
      <4>2. Filing(r) /\ req[q].on = req[r].on
        BY <4>1 DEF WritesItsOwn
      <4> QED
        BY <3>1, <4>1, <4>2 DEF AllShaped, Shaped
    <3> QED
      BY <3>1, <3>2, <3>3, <3>4 DEF Shaped, Busy, Filing, Judging, Settling
  <2> QED
    BY <2>1, <2>2
<1>4. OneFiling'
  BY <1>1 DEF OneFiling, Filing, Busy, Ends, Over
<1>5. ClaimsHold'
  <2> SUFFICES ASSUME NEW q \in Requests, Claimed(q)' PROVE lock'[req'[q].on] = q /\ StillOpen(q)'
    BY DEF ClaimsHold
  <2>1. q # r
    BY <1>1 DEF Claimed, Ends, Over
  <2>2. Claimed(q) /\ req'[q] = req[q] /\ lock[req[q].on] = q /\ StillOpen(q)
    BY <2>1, <1>1 DEF Claimed, ClaimsHold
  <2>3. /\ Settling(q) => req[q].on \in Treads
        /\ ~Settling(q) => req[q].on \in Absences
    BY <2>2 DEF AllShaped, Shaped, Busy, Judging, Settling, Claimed, Over, Ops
  <2>4. lock'[req[q].on] = q
    BY <2>1, <2>2, <2>3 DEF LocksOfOthersStay, Lockable
  <2>5. Claimed(r) => lock[req[r].on] = r
    BY DEF ClaimsHold
  <2>6. Filing(r) => status[req[r].on] = "UNFILED"
    BY DEF AllShaped, Shaped
  <2>7. CASE Settling(q)
    <3>1. req[q].on \in Treads /\ back[req[q].on] = "PENDING"
      BY <2>2, <2>3, <2>7 DEF StillOpen
    <3>2. back'[req[q].on] = "PENDING"
      BY <3>1, <2>1, <2>2, <2>5 DEF WritesItsOwn
    <3> QED
      BY <3>2, <2>2, <2>4, <2>7 DEF StillOpen, Settling
  <2>8. CASE ~Settling(q)
    <3>1. req[q].on \in Absences /\ status[req[q].on] = "PENDING"
      BY <2>2, <2>3, <2>8 DEF StillOpen
    <3>2. status'[req[q].on] = status[req[q].on]
      BY <3>1, <2>1, <2>2, <2>5, <2>6 DEF WritesItsOwn
    <3> QED
      BY <3>1, <3>2, <2>2, <2>4, <2>8 DEF StillOpen, Settling
  <2> QED
    BY <2>2, <2>4, <2>7, <2>8
<1> QED
  BY <1>2, <1>3, <1>4, <1>5 DEF NoRowWithoutItsDocument, RowsTyped

\* The request ends and lets its locks go.
LEMMA EndIInv ==
  ASSUME IInv, NEW r \in Requests, Leave(r, "idle"), WritesItsOwn(r), RowsTyped
  PROVE  IInv'
<1> DEFINE b == [NotSent EXCEPT !.pc = "idle"]
<1>1. b \in RequestRecords /\ b.pc = "idle" /\ req' = [req EXCEPT ![r] = b]
  BY NotSentType DEF Leave, Over
<1>2. LocksOfOthersStay(r)
  BY LockingKeeps DEF Leave, IInv
<1>3. Ends(r, b)
  BY <1>1 DEF Ends, Over
<1> QED
  BY <1>1, <1>2, <1>3, WriteIInv

LEMMA NoteType ==
  ASSUME TypeOK, NEW a, NEW f, Note(a, f)
  PROVE  /\ back' \in [Treads -> {"none", "PENDING", "CONFIRMED", "DISMISSED"}]
         /\ \A t \in Treads : back[t] = "PENDING" => back'[t] = "PENDING"
  BY DEF TypeOK, Note

LEMMA FileIInv ==
  ASSUME IInv, NEW r \in Requests, File(r)
  PROVE  IInv'
<1>1. Filing(r) /\ req[r].on \in Absences /\ req[r].form \in Forms /\ req[r].who \in People
  BY DEF File, Filing, Busy, Over, IInv, AllShaped, Shaped
<1>2. /\ status' \in [Absences -> Statuses] /\ judge' \in [Absences -> People \cup {Nothing}]
      /\ status'[req[r].on] # "UNFILED"
      /\ \A x \in Absences : x # req[r].on => status'[x] = status[x]
  BY <1>1 DEF File, IInv, TypeOK, Statuses, Live
<1>3. /\ back' \in [Treads -> {"none", "PENDING", "CONFIRMED", "DISMISSED"}]
      /\ \A t \in Treads : back[t] = "PENDING" => back'[t] = "PENDING"
  BY NoteType DEF File, IInv, TypeOK
<1>4. /\ leave' \in [Absences -> Forms \cup {Nothing}] /\ store' = store
  BY <1>1 DEF File, IInv, TypeOK
<1>5. /\ paper' \subseteq paper \cup {req[r].on} /\ paper' \subseteq store'
  BY <1>4 DEF File, DocumentStored, IInv, NoRowWithoutItsDocument
<1>6. WritesItsOwn(r)
  BY <1>1, <1>2, <1>3, <1>5 DEF WritesItsOwn
<1>7. RowsTyped
  BY <1>2, <1>3, <1>4, <1>5 DEF RowsTyped, IInv, TypeOK
<1> QED
  BY <1>6, <1>7, EndIInv DEF File

LEMMA ApproveIInv ==
  ASSUME IInv, NEW r \in Requests, Approve(r)
  PROVE  IInv'
<1>1. /\ Claimed(r) /\ ~Settling(r) /\ req[r].on \in Absences /\ req[r].who \in People
  BY DEF Approve, At, Claimed, Settling, IInv, AllShaped, Shaped, Judging, Busy, Over
<1>2. /\ status' \in [Absences -> Statuses] /\ judge' \in [Absences -> People \cup {Nothing}]
      /\ status'[req[r].on] = "APPROVED"
      /\ \A x \in Absences : x # req[r].on => status'[x] = status[x]
      /\ UNCHANGED <<leave, paper, store>>
  BY <1>1 DEF Approve, IInv, TypeOK, Statuses, Live
<1>3. /\ back' \in [Treads -> {"none", "PENDING", "CONFIRMED", "DISMISSED"}]
      /\ \A t \in Treads : back[t] = "PENDING" => back'[t] = "PENDING"
  BY NoteType DEF Approve, IInv
<1>4. WritesItsOwn(r) /\ RowsTyped
  BY <1>1, <1>2, <1>3 DEF WritesItsOwn, RowsTyped, IInv, TypeOK, NoRowWithoutItsDocument
<1> QED
  BY <1>4, EndIInv DEF Approve

LEMMA RejectIInv ==
  ASSUME IInv, NEW r \in Requests, Reject(r)
  PROVE  IInv'
<1>1. /\ Claimed(r) /\ ~Settling(r) /\ req[r].on \in Absences /\ req[r].who \in People
  BY DEF Reject, At, Claimed, Settling, IInv, AllShaped, Shaped, Judging, Busy, Over
<1>2. /\ status' \in [Absences -> Statuses] /\ judge' \in [Absences -> People \cup {Nothing}]
      /\ status'[req[r].on] # status[req[r].on] => status'[req[r].on] = "REJECTED"
      /\ \A x \in Absences : x # req[r].on => status'[x] = status[x]
      /\ UNCHANGED <<leave, back, paper, store>>
  BY <1>1 DEF Reject, IInv, TypeOK, Statuses
<1>3. WritesItsOwn(r) /\ RowsTyped
  BY <1>1, <1>2 DEF WritesItsOwn, RowsTyped, IInv, TypeOK, NoRowWithoutItsDocument
<1> QED
  BY <1>3, EndIInv DEF Reject

LEMMA CancelIInv ==
  ASSUME IInv, NEW r \in Requests, Cancel(r)
  PROVE  IInv'
<1>1. /\ Claimed(r) /\ ~Settling(r) /\ req[r].on \in Absences /\ req[r].who \in People
      /\ req[r].op = "cancel"
  BY DEF Cancel, At, Claimed, Settling, IInv, AllShaped, Shaped, Judging, Busy, Over
<1>2. /\ status' \in [Absences -> Statuses] /\ judge' \in [Absences -> People \cup {Nothing}]
      /\ status'[req[r].on] # status[req[r].on] => status'[req[r].on] = "CANCELLED"
      /\ \A x \in Absences : x # req[r].on => status'[x] = status[x]
      /\ paper' \subseteq paper /\ UNCHANGED <<leave, back, store>>
  BY <1>1 DEF Cancel, IInv, TypeOK, Statuses
<1>3. WritesItsOwn(r) /\ RowsTyped
  BY <1>1, <1>2 DEF WritesItsOwn, RowsTyped, IInv, TypeOK, NoRowWithoutItsDocument
<1>4. CASE Leave(r, "idle")
  BY <1>3, <1>4, EndIInv
<1>5. CASE ~Leave(r, "idle")
  <2> DEFINE b == [req[r] EXCEPT !.pc = "sweeping"]
  <2>1. /\ req' = [req EXCEPT ![r].pc = "sweeping"] /\ lock' = Released(r)
        /\ req[r].on \notin paper' /\ status'[req[r].on] = "CANCELLED"
    BY <1>1, <1>5 DEF Cancel, IInv, TypeOK
  <2>2. req[r] \in RequestRecords
    BY DEF IInv, TypeOK, RequestRecords
  <2>3. /\ b \in RequestRecords /\ b.pc = "sweeping" /\ b.op = req[r].op /\ b.on = req[r].on
        /\ b.who = req[r].who
    BY <2>2 DEF RequestRecords, Stages
  <2>4. req' = [req EXCEPT ![r] = b]
    BY <2>1
  <2> HIDE DEF b
  <2>5. Ends(r, b)
    BY <1>1, <2>1, <2>3 DEF Ends
  <2>6. LocksOfOthersStay(r)
    BY <2>1, LockingKeeps DEF IInv
  <2> QED
    BY <1>3, <2>3, <2>4, <2>5, <2>6, WriteIInv
<1> QED
  BY <1>4, <1>5

LEMMA SweepIInv ==
  ASSUME IInv, NEW r \in Requests, Sweep(r)
  PROVE  IInv'
<1>1. req[r].on \notin paper /\ Leave(r, "idle") /\ UNCHANGED <<rows, paper>>
  BY DEF Sweep, IInv, AllShaped, Shaped
<1>2. UNCHANGED <<leave, status, judge, back, paper>>
  BY <1>1 DEF rows
<1>3. RowsTyped
  BY <1>1, <1>2 DEF Sweep, RowsTyped, IInv, TypeOK, NoRowWithoutItsDocument
<1>4. WritesItsOwn(r)
  BY <1>2 DEF WritesItsOwn
<1> QED
  BY <1>1, <1>3, <1>4, EndIInv

LEMMA SettleRecoveryIInv ==
  ASSUME IInv, NEW r \in Requests, SettleRecovery(r)
  PROVE  IInv'
<1>1. Claimed(r) /\ Settling(r) /\ req[r].on \in Treads
  BY DEF SettleRecovery, Claimed, Settling, IInv, AllShaped, Shaped, Busy, Over
<1>2. /\ back' \in [Treads -> {"none", "PENDING", "CONFIRMED", "DISMISSED"}]
      /\ \A t \in Treads : t # req[r].on => back'[t] = back[t]
      /\ UNCHANGED <<leave, status, judge, paper, store>>
  BY <1>1 DEF SettleRecovery, IInv, TypeOK
<1>3. WritesItsOwn(r) /\ RowsTyped
  BY <1>1, <1>2 DEF WritesItsOwn, RowsTyped, IInv, TypeOK, NoRowWithoutItsDocument
<1> QED
  BY <1>3, EndIInv DEF SettleRecovery

LEMMA CrashIInv ==
  ASSUME IInv, NEW r \in Requests, Crash(r)
  PROVE  IInv'
  BY LeaveIInv DEF Crash, Over

-----------------------------------------------------------------------------
LEMMA StepIInv ==
  ASSUME IInv, [Next]_vars
  PROVE  IInv'
<1>1. CASE UNCHANGED vars
  BY <1>1 DEF vars, rows, IInv, TypeOK, AllShaped, Shaped, Busy, Filing, Judging, Settling,
              OneFiling, ClaimsHold, Claimed, StillOpen, NoRowWithoutItsDocument
<1>2. ASSUME NEW r \in Requests, NEW who \in People,
             \/ \E a \in Absences, f \in Forms : StartFiling(r, a, who, f)
             \/ \E a \in Absences, op \in Ops : Start(r, op, a, who)
             \/ \E t \in Treads, op \in Ops : StartSettling(r, op, t, who)
      PROVE  IInv'
  BY <1>2, StartsIInv
<1>3. ASSUME NEW r \in Requests,
             \/ HoldPerson(r) \/ CheckClash(r) \/ StoreDocument(r) \/ RecordedByCompany(r)
             \/ Claim(r) \/ CheckGrant(r)
      PROVE  IInv'
  BY <1>3, HoldPersonIInv, CheckClashIInv, StoreDocumentIInv, RecordedByCompanyIInv, ClaimIInv,
     CheckGrantIInv
<1>4. ASSUME NEW r \in Requests,
             \/ File(r) \/ Approve(r) \/ Reject(r) \/ Cancel(r) \/ Sweep(r)
             \/ SettleRecovery(r) \/ Crash(r)
      PROVE  IInv'
  BY <1>4, FileIInv, ApproveIInv, RejectIInv, CancelIInv, SweepIInv, SettleRecoveryIInv, CrashIInv
<1> QED
  BY <1>1, <1>2, <1>3, <1>4 DEF Next, Step

\* The variables of the leave procedure hold what the program can hold.
THEOREM TypeCorrect == Spec => []TypeOK
<1>1. IInv => TypeOK
  BY DEF IInv
<1> QED
  BY <1>1, InitIInv, StepIInv, PTL DEF Spec

\* Whatever fails and whenever, no row points at a document that was removed:
\* it is only removed for a row whose withdrawal is already committed.
THEOREM DocumentsStand == Spec => []NoRowWithoutItsDocument
<1>1. IInv => NoRowWithoutItsDocument
  BY DEF IInv
<1> QED
  BY <1>1, InitIInv, StepIInv, PTL DEF Spec

-----------------------------------------------------------------------------
(* The procedure implements the leave book.                                *)

Book    == [a \in Absences |-> BookOf(a)]
Judges  == [a \in Absences |-> IF judge[a] = Nothing THEN {} ELSE {judge[a]}]
Credit  == [t \in Treads |-> CreditOf(t)]

\* The words of the leave book for what a row says.
InTheBook(s) ==
    CASE s = "UNFILED"   -> "none"
      [] s = "PENDING"   -> "asked"
      [] s = "APPROVED"  -> "granted"
      [] s = "REJECTED"  -> "refused"
      [] s = "CANCELLED" -> "withdrawn"

InCredit(s) ==
    CASE s = "none"      -> "none"
      [] s = "PENDING"   -> "noted"
      [] s = "CONFIRMED" -> "given back"
      [] s = "DISMISSED" -> "dismissed"

LEMMA TheWords ==
  /\ InTheBook("UNFILED") = "none" /\ InTheBook("PENDING") = "asked"
  /\ InTheBook("APPROVED") = "granted" /\ InTheBook("REJECTED") = "refused"
  /\ InTheBook("CANCELLED") = "withdrawn"
  /\ InCredit("PENDING") = "noted"
  /\ InCredit("CONFIRMED") = "given back" /\ InCredit("DISMISSED") = "dismissed"
  BY DEF InTheBook, InCredit

LEMMA TheBookIsWritten ==
  /\ Book = [a \in Absences |-> InTheBook(status[a])]
  /\ Book' = [a \in Absences |-> InTheBook(status'[a])]
  /\ Credit = [t \in Treads |-> InCredit(back[t])]
  /\ Credit' = [t \in Treads |-> InCredit(back'[t])]
<1>1. \A a \in Absences : /\ BookOf(a) = InTheBook(status[a])
                          /\ BookOf(a)' = InTheBook(status'[a])
  BY DEF BookOf, InTheBook
<1>2. \A t \in Treads : /\ CreditOf(t) = InCredit(back[t])
                        /\ CreditOf(t)' = InCredit(back'[t])
  BY DEF CreditOf, InCredit
<1> QED
  BY <1>1, <1>2 DEF Book, Credit

\* One leave moves on, and the rest of the book stays.
LEMMA BookMoves ==
  ASSUME TypeOK, NEW a \in Absences, NEW to, status' = [status EXCEPT ![a] = to]
  PROVE  Book[a] = InTheBook(status[a]) /\ Book' = [Book EXCEPT ![a] = InTheBook(to)]
<1>1. \A x \in Absences : status'[x] = IF x = a THEN to ELSE status[x]
  BY DEF TypeOK
<1> QED
  BY <1>1, TheBookIsWritten

LEMMA JudgesMove ==
  ASSUME TypeOK, NEW a \in Absences, NEW p \in People, judge' = [judge EXCEPT ![a] = p]
  PROVE  Judges' = [Judges EXCEPT ![a] = {p}]
<1>1. p # Nothing
  BY NothingIsNoRequest
<1>2. \A x \in Absences : judge'[x] = IF x = a THEN p ELSE judge[x]
  BY DEF TypeOK
<1> QED
  BY <1>1, <1>2 DEF Judges

LEMMA NothingMoves ==
  /\ UNCHANGED status => UNCHANGED Book
  /\ UNCHANGED judge => UNCHANGED Judges
  /\ UNCHANGED back => UNCHANGED Credit
  BY TheBookIsWritten DEF Judges

\* The steps of the book, said of these three functions.
LEMMA AskAbove ==
  ASSUME NEW a \in Absences, Book[a] = "none", Book' = [Book EXCEPT ![a] = "asked"],
         UNCHANGED <<Judges, Credit>>
  PROVE  Promise!Next
<1>1. Promise!Ask(a)
  BY DEF Promise!Ask, Book, Judges, Credit
<1> QED
  BY <1>1 DEF Promise!Next

LEMMA GrantingAbove ==
  ASSUME NEW a \in Absences, NEW p \in People, NEW noted,
         noted \in SUBSET {t \in Treads : t[2] = a /\ Book[t[1]] = "granted"},
         Book[a] \in {"none", "asked"}, Book' = [Book EXCEPT ![a] = "granted"],
         Judges' = [Judges EXCEPT ![a] = {p}],
         Credit' = [t \in Treads |-> IF t \in noted THEN "noted" ELSE Credit[t]]
  PROVE  Promise!Next
<1>1. Promise!Grant(a, p)
  BY DEF Promise!Grant, Book, Judges, Credit
<1> QED
  BY <1>1 DEF Promise!Next

LEMMA TurningDownAbove ==
  ASSUME NEW a \in Absences, NEW p \in People, NEW how \in {"refused", "withdrawn"},
         Book[a] = "asked", Book' = [Book EXCEPT ![a] = how],
         Judges' = [Judges EXCEPT ![a] = {p}], UNCHANGED Credit
  PROVE  Promise!Next
<1>1. Promise!TurnDown(a, p, how)
  BY DEF Promise!TurnDown, Book, Judges, Credit
<1> QED
  BY <1>1 DEF Promise!Next

LEMMA SettlingAbove ==
  ASSUME NEW t \in Treads, NEW how \in {"given back", "dismissed"},
         Credit[t] = "noted", Credit' = [Credit EXCEPT ![t] = how], UNCHANGED <<Book, Judges>>
  PROVE  Promise!Next
<1>1. Promise!SettleNote(t, how)
  BY DEF Promise!SettleNote, Book, Judges, Credit
<1> QED
  BY <1>1 DEF Promise!Next

\* A grant: the leave, who granted it, and the notes about holiday granted before.
Granting(a, p, f) ==
    /\ status[a] \in {"UNFILED", "PENDING"} /\ status' = [status EXCEPT ![a] = "APPROVED"]
    /\ judge' = [judge EXCEPT ![a] = p]
    /\ Note(a, f)

LEMMA GrantAbove ==
  ASSUME TypeOK, NEW a \in Absences, NEW p \in People, NEW f, Granting(a, p, f)
  PROVE  Promise!Next
<1> DEFINE noted == {t \in Eaten(a, f) : back[t] = "none"}
<1>1. Book[a] \in {"none", "asked"} /\ Book' = [Book EXCEPT ![a] = "granted"]
  BY BookMoves, TheWords DEF Granting
<1>2. Judges' = [Judges EXCEPT ![a] = {p}]
  BY JudgesMove DEF Granting
<1>3. noted \in SUBSET {t \in Treads : t[2] = a /\ Book[t[1]] = "granted"}
  <2>1. \A x \in Absences : x \in Granted => Book[x] = "granted"
    BY TheBookIsWritten, TheWords DEF Granted
  <2> QED
    BY <2>1 DEF Eaten, Treads, Granted
<1>4. \A t \in Treads : back'[t] = IF t \in noted THEN "PENDING" ELSE back[t]
  BY DEF Note, Granting
<1> HIDE DEF noted
<1>5. Credit' = [t \in Treads |-> IF t \in noted THEN "noted" ELSE Credit[t]]
  <2>1. \A t \in Treads : InCredit(back'[t]) = IF t \in noted THEN "noted" ELSE InCredit(back[t])
    BY <1>4, TheWords
  <2> QED
    BY <2>1, TheBookIsWritten
<1> QED
  BY <1>1, <1>2, <1>3, <1>5, GrantingAbove

LEMMA FileAbove ==
  ASSUME IInv, NEW r \in Requests, File(r)
  PROVE  Promise!Next
<1>1. /\ req[r].on \in Absences /\ status[req[r].on] = "UNFILED" /\ req[r].who \in People
      /\ TypeOK
  BY DEF File, Filing, Busy, Over, IInv, AllShaped, Shaped
<1>2. CASE req[r].grant
  <2>1. Granting(req[r].on, req[r].who, req[r].form)
    BY <1>1, <1>2 DEF File, Granting
  <2> QED
    BY <1>1, <2>1, GrantAbove
<1>3. CASE ~req[r].grant
  <2>1. PICK a \in Absences : a = req[r].on
    BY <1>1
  <2>2. status' = [status EXCEPT ![a] = "PENDING"] /\ UNCHANGED <<judge, back>>
    BY <1>3, <2>1 DEF File
  <2>3. Book[a] = InTheBook(status[a]) /\ Book' = [Book EXCEPT ![a] = InTheBook("PENDING")]
    BY <1>1, <2>2, BookMoves
  <2>4. Book[a] = "none" /\ Book' = [Book EXCEPT ![a] = "asked"]
    BY <1>1, <2>1, <2>3, TheWords
  <2> QED
    BY <2>2, <2>4, NothingMoves, AskAbove
<1> QED
  BY <1>2, <1>3

\* A row that is claimed is open, and its request is about a leave.
LEMMA ClaimedLeave ==
  ASSUME IInv, NEW r \in Requests, req[r].pc \in {"held", "cleared"},
         req[r].op \in {"approve", "reject", "cancel"}
  PROVE  req[r].on \in Absences /\ req[r].who \in People /\ status[req[r].on] = "PENDING"
<1>1. Busy(r) /\ Judging(r) /\ Claimed(r) /\ ~Settling(r)
  BY DEF Busy, Judging, Claimed, Settling, Over
<1> QED
  BY <1>1 DEF IInv, AllShaped, Shaped, ClaimsHold, StillOpen

LEMMA ApproveAbove ==
  ASSUME IInv, NEW r \in Requests, Approve(r)
  PROVE  Promise!Next
<1>1. req[r].on \in Absences /\ req[r].who \in People /\ status[req[r].on] = "PENDING"
  BY ClaimedLeave DEF Approve, At
<1>2. Granting(req[r].on, req[r].who, leave[req[r].on])
  BY <1>1 DEF Approve, Granting
<1> QED
  BY <1>1, <1>2, GrantAbove DEF IInv

LEMMA TurnDownAbove ==
  ASSUME IInv, NEW r \in Requests, Reject(r) \/ Cancel(r)
  PROVE  Promise!Next \/ UNCHANGED <<Book, Judges, Credit>>
<1>1. req[r].on \in Absences /\ req[r].who \in People /\ status[req[r].on] = "PENDING"
  BY ClaimedLeave DEF Reject, Cancel, At
<1>2. UNCHANGED back
  BY DEF Reject, Cancel
<1>3. \/ UNCHANGED <<status, judge>>
      \/ \E to \in {"REJECTED", "CANCELLED"} :
            /\ status' = [status EXCEPT ![req[r].on] = to]
            /\ judge' = [judge EXCEPT ![req[r].on] = req[r].who]
  BY DEF Reject, Cancel
<1>4. CASE UNCHANGED <<status, judge>>
  BY <1>2, <1>4, NothingMoves
<1>5. ASSUME NEW to \in {"REJECTED", "CANCELLED"},
             status' = [status EXCEPT ![req[r].on] = to],
             judge' = [judge EXCEPT ![req[r].on] = req[r].who]
      PROVE  Promise!Next
  <2>1. Book[req[r].on] = "asked" /\ Book' = [Book EXCEPT ![req[r].on] = InTheBook(to)]
    BY <1>1, <1>5, BookMoves, TheWords DEF IInv
  <2>2. Judges' = [Judges EXCEPT ![req[r].on] = {req[r].who}] /\ UNCHANGED Credit
    BY <1>1, <1>2, <1>5, JudgesMove, NothingMoves DEF IInv
  <2>3. InTheBook(to) \in {"refused", "withdrawn"}
    BY TheWords
  <2> QED
    BY <1>1, <2>1, <2>2, <2>3, TurningDownAbove
<1> QED
  BY <1>3, <1>4, <1>5

LEMMA SettleAbove ==
  ASSUME IInv, NEW r \in Requests, SettleRecovery(r)
  PROVE  Promise!Next \/ UNCHANGED <<Book, Judges, Credit>>
<1>1. req[r].on \in Treads /\ back[req[r].on] = "PENDING"
  <2>1. Busy(r) /\ Claimed(r) /\ Settling(r)
    BY DEF SettleRecovery, Claimed, Settling, Busy, Over
  <2> QED
    BY <2>1 DEF IInv, AllShaped, Shaped, ClaimsHold, StillOpen
<1>2. UNCHANGED <<status, judge>>
  BY DEF SettleRecovery
<1>3. \/ UNCHANGED back
      \/ \E to \in {"CONFIRMED", "DISMISSED"} : back' = [back EXCEPT ![req[r].on] = to]
  BY DEF SettleRecovery
<1>4. CASE UNCHANGED back
  BY <1>2, <1>4, NothingMoves
<1>5. ASSUME NEW to \in {"CONFIRMED", "DISMISSED"}, back' = [back EXCEPT ![req[r].on] = to]
      PROVE  Promise!Next
  <2>1. \A x \in Treads : back'[x] = IF x = req[r].on THEN to ELSE back[x]
    BY <1>1, <1>5 DEF IInv, TypeOK
  <2>2. Credit' = [Credit EXCEPT ![req[r].on] = InCredit(to)]
    BY <2>1, TheBookIsWritten
  <2>3. Credit[req[r].on] = "noted"
    BY <1>1, TheBookIsWritten, TheWords
  <2>4. InCredit(to) \in {"given back", "dismissed"}
    BY TheWords
  <2> QED
    BY <1>1, <1>2, <2>2, <2>3, <2>4, NothingMoves, SettlingAbove
<1> QED
  BY <1>3, <1>4, <1>5

LEMMA StepAbove ==
  ASSUME IInv, [Next]_vars
  PROVE  Promise!Next \/ UNCHANGED <<Book, Judges, Credit>>
<1>1. CASE UNCHANGED <<status, judge, back>>
  BY <1>1, NothingMoves
<1>2. ASSUME NEW r \in Requests, File(r) \/ Approve(r)
      PROVE  Promise!Next
  BY <1>2, FileAbove, ApproveAbove
<1>3. ASSUME NEW r \in Requests, Reject(r) \/ Cancel(r) \/ SettleRecovery(r)
      PROVE  Promise!Next \/ UNCHANGED <<Book, Judges, Credit>>
  BY <1>3, TurnDownAbove, SettleAbove
<1>4. ASSUME NEW r \in Requests,
             \/ HoldPerson(r) \/ CheckClash(r) \/ StoreDocument(r) \/ RecordedByCompany(r)
             \/ Claim(r) \/ CheckGrant(r) \/ Sweep(r) \/ Crash(r)
      PROVE  UNCHANGED <<status, judge, back>>
  BY <1>4 DEF HoldPerson, CheckClash, StoreDocument, RecordedByCompany, Claim, CheckGrant, Sweep,
              Crash, rows
<1>5. ASSUME NEW r \in Requests, NEW who \in People,
             \/ \E a \in Absences, f \in Forms : StartFiling(r, a, who, f)
             \/ \E a \in Absences, op \in Ops : Start(r, op, a, who)
             \/ \E t \in Treads, op \in Ops : StartSettling(r, op, t, who)
      PROVE  UNCHANGED <<status, judge, back>>
  BY <1>5 DEF StartFiling, Start, StartSettling, rows
<1>6. CASE UNCHANGED vars
  BY <1>1, <1>6 DEF vars
<1>7. CASE Next
  BY <1>1, <1>2, <1>3, <1>4, <1>5, <1>7 DEF Next, Step
<1> QED
  BY <1>6, <1>7

\* Every behaviour of the overlapping requests is a behaviour of the leave
\* book: each leave is settled once, by somebody, and notes are made with a
\* grant, about holiday granted before, and settled once.
THEOREM ProcedureKeepsTheBook == Spec => ImplementsLeaveBook
<1>1. Init => Promise!Init
  BY DEF Init, Promise!Init, BookOf, CreditOf
<1>2. IInv /\ [Next]_vars => [Promise!Next]_(Promise!vars)
  <2>1. SUFFICES ASSUME IInv, [Next]_vars
                 PROVE  Promise!Next \/ UNCHANGED <<Book, Judges, Credit>>
    BY DEF Promise!vars, Book, Judges, Credit
  <2> QED
    BY <2>1, StepAbove
<1> QED
  BY <1>1, <1>2, InitIInv, StepIInv, PTL DEF Spec, ImplementsLeaveBook, Promise!Spec

-----------------------------------------------------------------------------
(* Nobody is away twice.  Whoever files for a person holds that person from *)
(* before it looks until it commits, so what it found clear stays clear:    *)
(* nobody else adds leave of that person, and deciding adds none.           *)

FormsKept == \A a \in Absences : status[a] # "UNFILED" => leave[a] \in Forms

\* The filings that have the person, and those that have looked.
HasPerson(r) == req[r].op = "file" /\ req[r].pc \in {"held", "checked", "cleared"}
HasLooked(r) == req[r].op = "file" /\ req[r].pc \in {"checked", "cleared"}

FilesAlone(r) ==
    /\ HasPerson(r) => lock[req[r].form.who] = r
    /\ HasLooked(r) => \A b \in InTheWay : MayStand(req[r].form, leave[b])

AllFileAlone == \A r \in Requests : FilesAlone(r)

\* A note is about leave that was granted, and that gives back holiday of its
\* own person.
NotesAreOfGranted ==
    \A t \in Treads : back[t] # "none" =>
        /\ status[t[1]] # "UNFILED" /\ status[t[2]] = "APPROVED"
        /\ leave[t[2]].recovers /\ leave[t[2]].who = leave[t[1]].who

AloneInv == IInv /\ FormsKept /\ AllFileAlone /\ NotesAreOfGranted /\ LiveLeavesDoNotClash

LEMMA FormsAreShaped ==
  ASSUME NEW f \in Forms
  PROVE  /\ f.from \in Nat /\ f.to \in Nat /\ f.who \in People
         /\ f.reduces \in BOOLEAN /\ f.recovers \in BOOLEAN
         /\ f.hours # Nothing => f.hours[1] \in Nat /\ f.hours[2] \in Nat
  BY FormsAssumption DEF FormShape

LEMMA ClashIsMutual ==
  ASSUME NEW f \in Forms, NEW g \in Forms
  PROVE  /\ Clash(f, g) => Clash(g, f)
         /\ MayStand(f, g) => MayStand(g, f)
  BY FormsAreShaped DEF Clash, DatesMeet, HoursMeet, MayStand

LEMMA LiveHasAForm ==
  ASSUME FormsKept, NEW b \in InTheWay
  PROVE  b \in Absences /\ status[b] # "UNFILED" /\ leave[b] \in Forms
  BY DEF FormsKept, InTheWay, OnRecord, Live

LEMMA AllStand ==
  LiveLeavesDoNotClash <=> \A a, b \in InTheWay : a # b => MayStand(leave[a], leave[b])
  BY DEF LiveLeavesDoNotClash, MayStand

\* What is clear of the first leave in the way is clear of all of them.
LEMMA TheFirstIsEnough ==
  ASSUME NothingHidesBehindHoliday, FormsKept, LiveLeavesDoNotClash, NEW f \in Forms,
         LET found == Overlapping(f, InTheWay)
         IN  found = {} \/ \E b \in LatestOf(found) : MayOverlapHoliday(f, leave[b])
  PROVE  \A c \in InTheWay : MayStand(f, leave[c])
<1> SUFFICES ASSUME NEW c \in InTheWay, Clash(f, leave[c]) PROVE MayStand(f, leave[c])
  BY DEF MayStand
<1>1. c \in Overlapping(f, InTheWay)
  BY DEF Overlapping
<1>2. PICK b \in InTheWay : /\ Clash(f, leave[b]) /\ MayOverlapHoliday(f, leave[b])
                            /\ leave[c].from <= leave[b].from
  BY <1>1 DEF LatestOf, Overlapping
<1>3. leave[b] \in Forms /\ leave[c] \in Forms
  BY LiveHasAForm
<1>4. CASE b = c
  BY <1>2, <1>4 DEF MayStand
<1>5. CASE b # c
  <2>1. MayStand(leave[b], leave[c])
    BY <1>5, AllStand
  <2> QED
    BY <1>2, <1>3, <2>1 DEF NothingHidesBehindHoliday
<1> QED
  BY <1>4, <1>5

LEMMA InitAlone == Init => AloneInv
<1> SUFFICES ASSUME Init PROVE AloneInv
  OBVIOUS
<1>1. IInv
  BY InitIInv
<1>2. InTheWay = {}
  BY DEF Init, InTheWay, OnRecord, Live
<1>3. AllFileAlone
  BY NotSentType DEF Init, AllFileAlone, FilesAlone, HasPerson, HasLooked, NotSent
<1> QED
  BY <1>1, <1>2, <1>3 DEF AloneInv, FormsKept, NotesAreOfGranted, LiveLeavesDoNotClash, Init

\* A step that writes no row: what is asked of its own request is left to show.
LEMMA QuietAlone ==
  ASSUME AloneInv, IInv', NEW r \in Requests, UNCHANGED rows, LocksOfOthersStay(r),
         \A q \in Requests \ {r} : req'[q] = req[q], FilesAlone(r)'
  PROVE  AloneInv'
<1>1. UNCHANGED <<leave, status, judge, back>> /\ InTheWay' = InTheWay
  BY DEF rows, InTheWay, OnRecord
<1>2. AllFileAlone'
  <2> SUFFICES ASSUME NEW q \in Requests, q # r PROVE FilesAlone(q)'
    BY DEF AllFileAlone
  <2>1. FilesAlone(q) /\ req'[q] = req[q]
    BY DEF AloneInv, AllFileAlone
  <2>2. HasPerson(q) => req[q].form.who \in Lockable
    BY FormsAreShaped DEF AloneInv, IInv, AllShaped, Shaped, Filing, Busy, Over, HasPerson, Lockable
  <2>3. HasPerson(q) => lock'[req[q].form.who] = q
    BY <2>1, <2>2 DEF FilesAlone, LocksOfOthersStay
  <2>4. HasLooked(q) => \A b \in InTheWay : MayStand(req[q].form, leave[b])
    BY <2>1 DEF FilesAlone
  <2> QED
    BY <1>1, <2>1, <2>3, <2>4 DEF FilesAlone, HasPerson, HasLooked
<1> QED
  BY <1>1, <1>2 DEF AloneInv, FormsKept, NotesAreOfGranted, LiveLeavesDoNotClash

LEMMA LeaveAlone ==
  ASSUME TypeOK, NEW r \in Requests, NEW how \in Over, Leave(r, how)
  PROVE  /\ FilesAlone(r)' /\ LocksOfOthersStay(r)
         /\ \A q \in Requests \ {r} : req'[q] = req[q]
<1>1. req'[r].pc \in Over /\ \A q \in Requests \ {r} : req'[q] = req[q]
  BY NotSentType DEF Leave, TypeOK
<1> QED
  BY <1>1, LockingKeeps DEF Leave, FilesAlone, HasPerson, HasLooked, Over

\* Beginning, waiting and looking.
LEMMA WaitingAlone ==
  ASSUME AloneInv, IInv', NEW r \in Requests, NothingHidesBehindHoliday,
         \/ \E a \in Absences, who \in People, f \in Forms : StartFiling(r, a, who, f)
         \/ \E op \in Ops, a \in Absences, who \in People : Start(r, op, a, who)
         \/ \E op \in Ops, t \in Treads, who \in People : StartSettling(r, op, t, who)
         \/ HoldPerson(r) \/ CheckClash(r) \/ StoreDocument(r) \/ RecordedByCompany(r)
         \/ Claim(r) \/ CheckGrant(r) \/ Sweep(r) \/ Crash(r)
  PROVE  AloneInv'
<1> USE DEF AloneInv, IInv
<1>1. /\ UNCHANGED rows /\ InTheWay' = InTheWay /\ leave' = leave
      /\ req \in [Requests -> RequestRecords]
  BY DEF StartFiling, Start, StartSettling, HoldPerson, CheckClash, StoreDocument, RecordedByCompany,
         Claim, CheckGrant, Sweep, Crash, InTheWay, OnRecord, rows, TypeOK, RequestRecords
<1>2. CASE \E how \in Over : Leave(r, how)
  BY <1>1, <1>2, LeaveAlone, QuietAlone
<1>3. CASE \/ \E a \in Absences, who \in People, f \in Forms : StartFiling(r, a, who, f)
           \/ \E op \in Ops, a \in Absences, who \in People : Start(r, op, a, who)
           \/ \E op \in Ops, t \in Treads, who \in People : StartSettling(r, op, t, who)
  <2>1. \E b : b.pc = "sent" /\ req' = [req EXCEPT ![r] = b] /\ lock' = lock
    <3>1. CASE \E a \in Absences, who \in People, f \in Forms : StartFiling(r, a, who, f)
      BY <3>1 DEF StartFiling
    <3>2. CASE \E op \in Ops, a \in Absences, who \in People : Start(r, op, a, who)
      BY <3>2 DEF Start, NotSent
    <3>3. CASE \E op \in Ops, t \in Treads, who \in People : StartSettling(r, op, t, who)
      BY <3>3 DEF StartSettling, NotSent
    <3> QED
      BY <1>3, <3>1, <3>2, <3>3
  <2>2. req'[r].pc = "sent" /\ lock' = lock /\ \A q \in Requests \ {r} : req'[q] = req[q]
    BY <1>1, <2>1
  <2> QED
    BY <1>1, <2>2, LockingKeeps, QuietAlone DEF FilesAlone, HasPerson, HasLooked
<1>4. CASE HoldPerson(r)
  <2>1. /\ req[r].form.who \in Lockable /\ lock[req[r].form.who] = Nothing
        /\ lock' = [lock EXCEPT ![req[r].form.who] = r]
        /\ req' = [req EXCEPT ![r].pc = "held"]
    BY <1>4, FormsAreShaped
       DEF HoldPerson, At, Take, AllShaped, Shaped, Filing, Busy, Over, Lockable
  <2>2. /\ req'[r].pc = "held" /\ req'[r].form = req[r].form
        /\ \A q \in Requests \ {r} : req'[q] = req[q]
    BY <1>1, <2>1 DEF RequestRecords
  <2>3. lock'[req[r].form.who] = r /\ LocksOfOthersStay(r)
    BY <2>1, LockingKeeps DEF TypeOK
  <2> QED
    BY <1>1, <2>2, <2>3, QuietAlone DEF FilesAlone, HasPerson, HasLooked
<1>5. CASE CheckClash(r) /\ ~Leave(r, "idle")
  <2>1. /\ At(r, "file", "held") /\ lock' = lock /\ req' = [req EXCEPT ![r].pc = "checked"]
        /\ \/ Overlapping(req[r].form, InTheWay) = {}
           \/ \E b \in LatestOf(Overlapping(req[r].form, InTheWay)) :
                 MayOverlapHoliday(req[r].form, leave[b])
    BY <1>5 DEF CheckClash
  <2>2. req[r].form \in Forms /\ HasPerson(r)
    BY <2>1 DEF At, AllShaped, Shaped, Filing, Busy, Over, HasPerson
  <2>3. \A b \in InTheWay : MayStand(req[r].form, leave[b])
    BY <2>1, <2>2, TheFirstIsEnough
  <2>4. /\ req'[r].form = req[r].form /\ \A q \in Requests \ {r} : req'[q] = req[q]
    BY <1>1, <2>1 DEF RequestRecords
  <2> QED
    BY <1>1, <2>1, <2>2, <2>3, <2>4, LockingKeeps, QuietAlone
       DEF FilesAlone, HasPerson, HasLooked, AllFileAlone
<1>6. CASE StoreDocument(r)
  BY <1>1, <1>6, LockingKeeps, QuietAlone DEF StoreDocument, AllFileAlone, FilesAlone, HasPerson, HasLooked
<1>7. CASE RecordedByCompany(r)
  <2>1. /\ HasLooked(r) /\ HasPerson(r) /\ lock' = lock
        /\ req'[r].form = req[r].form /\ \A q \in Requests \ {r} : req'[q] = req[q]
    BY <1>1, <1>7 DEF RecordedByCompany, At, HasPerson, HasLooked, RequestRecords
  <2> QED
    BY <1>1, <2>1, LockingKeeps, QuietAlone DEF AllFileAlone, FilesAlone
<1>8. CASE Claim(r) /\ ~Leave(r, "idle")
  <2>1. /\ req[r].op # "file" /\ req[r].on \in Lockable /\ lock[req[r].on] = Nothing
        /\ lock' = [lock EXCEPT ![req[r].on] = r] /\ req' = [req EXCEPT ![r].pc = "held"]
    BY <1>8 DEF Claim, Take, AllShaped, Shaped, Judging, Settling, Busy, Over, Ops, Lockable
  <2>2. req'[r].op # "file" /\ \A q \in Requests \ {r} : req'[q] = req[q]
    BY <1>1, <2>1 DEF RequestRecords
  <2> QED
    BY <1>1, <2>1, <2>2, LockingKeeps, QuietAlone DEF FilesAlone, HasPerson, HasLooked
<1>9. CASE CheckGrant(r) /\ ~(\E how \in Over : Leave(r, how))
  <2>1. req[r].op # "file" /\ lock' = lock /\ req' = [req EXCEPT ![r].pc = "cleared"]
    BY <1>9 DEF CheckGrant, At, Over
  <2>2. req'[r].op # "file" /\ \A q \in Requests \ {r} : req'[q] = req[q]
    BY <1>1, <2>1 DEF RequestRecords
  <2> QED
    BY <1>1, <2>1, <2>2, LockingKeeps, QuietAlone DEF FilesAlone, HasPerson, HasLooked
<1>10. Sweep(r) \/ Crash(r) => Leave(r, "idle")
  BY DEF Sweep, Crash
<1> QED
  BY <1>2, <1>3, <1>4, <1>5, <1>6, <1>7, <1>8, <1>9, <1>10 DEF Over

\* Nobody else's filing is of the person r holds.
LEMMA OthersFileForOthers ==
  ASSUME AloneInv, NEW q \in Requests, NEW r \in Requests, q # r, HasLooked(q), HasPerson(r)
  PROVE  req[q].form.who # req[r].form.who
  BY DEF AloneInv, AllFileAlone, FilesAlone, HasPerson, HasLooked

\* What is kept when one more leave comes to be live, which stands beside the
\* rest, or some stop being live.
LEMMA WrittenAlone ==
  ASSUME AloneInv, IInv', NEW r \in Requests, NEW a \in Absences, LocksOfOthersStay(r),
         \A q \in Requests \ {r} : req'[q] = req[q],
         req'[r].pc \in Over \cup {"sweeping"},
         \A x \in Absences \ {a} : leave'[x] = leave[x] /\ status'[x] = status[x],
         leave'[a] \in Forms,
         status'[a] \in Live => \A b \in InTheWay \ {a} : MayStand(leave'[a], leave[b]),
         \A q \in Requests \ {r} : HasLooked(q) /\ status'[a] \in Live =>
            MayStand(req[q].form, leave'[a])
  PROVE  AllFileAlone' /\ FormsKept' /\ LiveLeavesDoNotClash'
<1>1. \A x \in InTheWay' : /\ x \in Absences
                           /\ x # a => x \in InTheWay /\ leave'[x] = leave[x] /\ leave[x] \in Forms
                           /\ x = a => status'[a] \in Live
  BY DEF InTheWay, OnRecord, AloneInv, FormsKept, Live
<1>2. FormsKept'
  BY DEF FormsKept, AloneInv
<1>3. ASSUME NEW x \in InTheWay', NEW y \in InTheWay', x # y
      PROVE  MayStand(leave'[x], leave'[y])
  <2>1. CASE x # a /\ y # a
    BY <1>1, <1>3, <2>1, AllStand DEF AloneInv
  <2>2. CASE x = a
    BY <1>1, <1>3, <2>2
  <2>3. CASE y = a
    BY <1>1, <1>3, <2>3, ClashIsMutual
  <2> QED
    BY <2>1, <2>2, <2>3
<1>4. LiveLeavesDoNotClash'
  BY <1>3 DEF LiveLeavesDoNotClash, MayStand
<1>5. ASSUME NEW q \in Requests PROVE FilesAlone(q)'
  <2>1. CASE q = r
    BY <2>1 DEF FilesAlone, HasPerson, HasLooked, Over
  <2>2. CASE q # r
    <3>1. FilesAlone(q) /\ req'[q] = req[q]
      BY <2>2 DEF AloneInv, AllFileAlone
    <3>2. HasPerson(q) => req[q].form.who \in Lockable
      BY FormsAreShaped DEF AloneInv, IInv, AllShaped, Shaped, Filing, Busy, Over, HasPerson, Lockable
    <3>3. HasPerson(q) => lock'[req[q].form.who] = q
      BY <2>2, <3>1, <3>2 DEF FilesAlone, LocksOfOthersStay
    <3>4. HasLooked(q) => \A b \in InTheWay' : MayStand(req[q].form, leave'[b])
      BY <1>1, <2>2, <3>1 DEF FilesAlone
    <3> QED
      BY <3>1, <3>3, <3>4 DEF FilesAlone, HasPerson, HasLooked, MayStand, Clash, MayOverlapHoliday,
         DatesMeet, HoursMeet
  <2> QED
    BY <2>1, <2>2
<1> QED
  BY <1>2, <1>4, <1>5 DEF AllFileAlone

LEMMA NotesStayTrue ==
  ASSUME AloneInv, NEW a \in Absences, NEW f \in Forms, status[a] \in {"UNFILED", "PENDING"},
         status' = [status EXCEPT ![a] = "APPROVED"], leave' = [leave EXCEPT ![a] = f],
         status[a] = "PENDING" => f = leave[a],
         Note(a, f)
  PROVE  NotesAreOfGranted'
<1> USE DEF AloneInv, IInv, TypeOK
<1> SUFFICES ASSUME NEW t \in Treads, back'[t] # "none"
             PROVE  /\ status'[t[1]] # "UNFILED" /\ status'[t[2]] = "APPROVED"
                    /\ leave'[t[2]].recovers /\ leave'[t[2]].who = leave'[t[1]].who
  BY DEF NotesAreOfGranted
<1>1. t[1] \in Absences /\ t[2] \in Absences /\ t[1] # t[2]
  BY DEF Treads
<1>2. CASE back[t] # "none"
  <2>1. /\ status[t[1]] # "UNFILED" /\ status[t[2]] = "APPROVED"
        /\ leave[t[2]].recovers /\ leave[t[2]].who = leave[t[1]].who
    BY <1>2 DEF NotesAreOfGranted
  <2> QED
    BY <1>1, <2>1
<1>3. CASE back[t] = "none"
  <2>1. t \in Eaten(a, f)
    BY <1>3 DEF Note
  <2> QED
    BY <1>1, <2>1 DEF Eaten, Granted
<1> QED
  BY <1>2, <1>3

LEMMA FileAlone ==
  ASSUME AloneInv, IInv', NEW r \in Requests, File(r)
  PROVE  AloneInv'
<1> DEFINE a == req[r].on
           f == req[r].form
<1>1. /\ HasLooked(r) /\ HasPerson(r) /\ a \in Absences /\ f \in Forms /\ status[a] = "UNFILED"
  BY DEF File, HasLooked, HasPerson, AloneInv, IInv, AllShaped, Shaped, Filing, Busy, Over
<1>2. /\ LocksOfOthersStay(r) /\ \A q \in Requests \ {r} : req'[q] = req[q]
      /\ req'[r].pc \in Over
  BY NotSentType, LeaveAlone DEF File, Leave, AloneInv, IInv, TypeOK, Over
<1>3. leave' = [leave EXCEPT ![a] = f]
  BY DEF File
<1>4. \/ status' = [status EXCEPT ![a] = "APPROVED"] /\ Note(a, f)
      \/ status' = [status EXCEPT ![a] = "PENDING"] /\ back' = back
  BY DEF File
<1>5. \A b \in InTheWay : MayStand(f, leave[b])
  BY <1>1 DEF AloneInv, AllFileAlone, FilesAlone
<1>6. \A q \in Requests \ {r} : HasLooked(q) => MayStand(req[q].form, f)
  BY <1>1, OthersFileForOthers DEF MayStand, Clash
<1>7. /\ leave'[a] = f /\ \A x \in Absences \ {a} : leave'[x] = leave[x] /\ status'[x] = status[x]
  BY <1>1, <1>3, <1>4 DEF AloneInv, IInv, TypeOK
<1>8. NotesAreOfGranted'
  <2>1. CASE status' = [status EXCEPT ![a] = "APPROVED"] /\ Note(a, f)
    BY <1>1, <1>3, <2>1, NotesStayTrue
  <2>2. CASE status' = [status EXCEPT ![a] = "PENDING"] /\ back' = back
    <3> SUFFICES ASSUME NEW t \in Treads, back[t] # "none"
                 PROVE  /\ status'[t[1]] # "UNFILED" /\ status'[t[2]] = "APPROVED"
                        /\ leave'[t[2]].recovers /\ leave'[t[2]].who = leave'[t[1]].who
      BY <2>2 DEF NotesAreOfGranted
    <3>1. /\ t[1] \in Absences \ {a} /\ t[2] \in Absences \ {a}
      BY <1>1 DEF AloneInv, NotesAreOfGranted, Treads
    <3> QED
      BY <1>7, <3>1 DEF AloneInv, NotesAreOfGranted
  <2> QED
    BY <1>4, <2>1, <2>2
<1> HIDE DEF a, f
<1>9. AllFileAlone' /\ FormsKept' /\ LiveLeavesDoNotClash'
  BY <1>1, <1>2, <1>5, <1>6, <1>7, WrittenAlone
<1> QED
  BY <1>8, <1>9 DEF AloneInv

\* Deciding a leave adds none.
LEMMA DecideAlone ==
  ASSUME AloneInv, IInv', NEW r \in Requests, Approve(r) \/ Reject(r) \/ Cancel(r)
  PROVE  AloneInv'
<1> DEFINE a == req[r].on
<1>1. a \in Absences /\ status[a] = "PENDING"
  BY ClaimedLeave DEF AloneInv, Approve, Reject, Cancel, At
<1>2. /\ LocksOfOthersStay(r) /\ \A q \in Requests \ {r} : req'[q] = req[q]
      /\ req'[r].pc \in Over \cup {"sweeping"}
  <2>1. CASE Leave(r, "idle")
    BY <2>1, NotSentType, LeaveAlone DEF Leave, AloneInv, IInv, TypeOK, Over
  <2>2. CASE req' = [req EXCEPT ![r].pc = "sweeping"] /\ lock' = Released(r)
    BY <2>2, LockingKeeps DEF AloneInv, IInv, TypeOK
  <2> QED
    BY <2>1, <2>2 DEF Approve, Reject, Cancel
<1>3. /\ leave' = leave
      /\ \/ status' = [status EXCEPT ![a] = "APPROVED"] /\ Note(a, leave[a])
         \/ status' \in {status, [status EXCEPT ![a] = "REJECTED"], [status EXCEPT ![a] = "CANCELLED"]}
            /\ back' = back
  BY DEF Approve, Reject, Cancel
<1>4. /\ leave[a] \in Forms /\ a \in InTheWay
      /\ \A x \in Absences \ {a} : leave'[x] = leave[x] /\ status'[x] = status[x]
  BY <1>1, <1>3 DEF AloneInv, FormsKept, InTheWay, OnRecord, Live, IInv, TypeOK
<1>5. \A b \in InTheWay \ {a} : MayStand(leave[a], leave[b])
  BY <1>4, AllStand DEF AloneInv
<1>6. \A q \in Requests : HasLooked(q) => MayStand(req[q].form, leave[a])
  BY <1>4 DEF AloneInv, AllFileAlone, FilesAlone
<1>7. NotesAreOfGranted'
  <2>1. CASE status' = [status EXCEPT ![a] = "APPROVED"] /\ Note(a, leave[a])
    <3>1. leave' = [leave EXCEPT ![a] = leave[a]]
      BY <1>3 DEF AloneInv, IInv, TypeOK
    <3> QED
      BY <1>1, <1>4, <2>1, <3>1, NotesStayTrue
  <2>2. CASE /\ status' \in {status, [status EXCEPT ![a] = "REJECTED"],
                             [status EXCEPT ![a] = "CANCELLED"]}
             /\ back' = back
    <3> SUFFICES ASSUME NEW t \in Treads, back[t] # "none"
                 PROVE  /\ status'[t[1]] # "UNFILED" /\ status'[t[2]] = "APPROVED"
                        /\ leave'[t[2]].recovers /\ leave'[t[2]].who = leave'[t[1]].who
      BY <2>2 DEF NotesAreOfGranted
    <3>1. /\ t[1] \in Absences /\ t[2] \in Absences /\ status[t[1]] # "UNFILED"
          /\ status[t[2]] = "APPROVED" /\ leave[t[2]].recovers /\ leave[t[2]].who = leave[t[1]].who
      BY DEF AloneInv, NotesAreOfGranted, Treads
    <3> QED
      BY <1>1, <1>3, <2>2, <3>1 DEF AloneInv, IInv, TypeOK
  <2> QED
    BY <1>3, <2>1, <2>2
<1> HIDE DEF a
<1>8. AllFileAlone' /\ FormsKept' /\ LiveLeavesDoNotClash'
  BY <1>1, <1>2, <1>3, <1>4, <1>5, <1>6, WrittenAlone
<1> QED
  BY <1>7, <1>8 DEF AloneInv

LEMMA SettleAlone ==
  ASSUME AloneInv, IInv', NEW r \in Requests, SettleRecovery(r)
  PROVE  AloneInv'
<1>1. req[r].on \in Treads /\ back[req[r].on] = "PENDING"
  <2>1. Busy(r) /\ Claimed(r) /\ Settling(r)
    BY DEF SettleRecovery, Claimed, Settling, Busy, Over
  <2> QED
    BY <2>1 DEF AloneInv, IInv, AllShaped, Shaped, ClaimsHold, StillOpen
<1>2. /\ UNCHANGED <<leave, status>> /\ Leave(r, "idle")
      /\ \A t \in Treads : back'[t] # "none" => back[t] # "none"
  BY <1>1 DEF SettleRecovery, AloneInv, IInv, TypeOK
<1>3. /\ LocksOfOthersStay(r) /\ FilesAlone(r)' /\ InTheWay' = InTheWay
      /\ \A q \in Requests \ {r} : req'[q] = req[q]
  BY <1>2, LeaveAlone DEF AloneInv, IInv, Over, InTheWay, OnRecord
<1>4. NotesAreOfGranted' /\ FormsKept' /\ LiveLeavesDoNotClash'
  BY <1>2, <1>3 DEF AloneInv, NotesAreOfGranted, FormsKept, LiveLeavesDoNotClash
<1>5. ASSUME NEW q \in Requests \ {r} PROVE FilesAlone(q)'
  <2>1. FilesAlone(q) /\ req'[q] = req[q]
    BY <1>3 DEF AloneInv, AllFileAlone
  <2>2. HasPerson(q) => req[q].form.who \in Lockable
    BY FormsAreShaped DEF AloneInv, IInv, AllShaped, Shaped, Filing, Busy, Over, HasPerson, Lockable
  <2>3. HasPerson(q) => lock'[req[q].form.who] = q
    BY <1>3, <2>1, <2>2 DEF FilesAlone, LocksOfOthersStay
  <2> QED
    BY <1>2, <1>3, <2>1, <2>3 DEF FilesAlone, HasPerson, HasLooked, MayStand, Clash, MayOverlapHoliday
<1> QED
  BY <1>3, <1>4, <1>5 DEF AloneInv, AllFileAlone

LEMMA StepAlone ==
  ASSUME AloneInv, NothingHidesBehindHoliday, [Next]_vars
  PROVE  AloneInv'
<1>1. IInv'
  BY StepIInv DEF AloneInv
<1>2. CASE UNCHANGED vars
  BY <1>1, <1>2 DEF vars, rows, AloneInv, FormsKept, NotesAreOfGranted, LiveLeavesDoNotClash,
     AllFileAlone, FilesAlone, HasPerson, HasLooked, InTheWay, OnRecord
<1>3. ASSUME NEW r \in Requests, File(r) \/ Approve(r) \/ Reject(r) \/ Cancel(r) \/ SettleRecovery(r)
      PROVE  AloneInv'
  BY <1>1, <1>3, FileAlone, DecideAlone, SettleAlone
<1>4. CASE Next
  BY <1>1, <1>3, <1>4, WaitingAlone DEF Next, Step
<1> QED
  BY <1>2, <1>4

\* Two leaves of one person that are granted or waiting never claim the same
\* time, whoever asks, decides and records at once, if nothing hides behind a
\* holiday (request_absence and hold).
THEOREM NobodyIsAwayTwice ==
  NothingHidesBehindHoliday => (Spec => []LiveLeavesDoNotClash)
<1> SUFFICES ASSUME NothingHidesBehindHoliday PROVE Spec => []LiveLeavesDoNotClash
  OBVIOUS
<1>1. AloneInv => LiveLeavesDoNotClash
  BY DEF AloneInv
<1>2. AloneInv /\ [Next]_vars => AloneInv'
  BY StepAlone
<1> QED
  BY <1>1, <1>2, InitAlone, PTL DEF Spec

\* Two leaves that were granted and give back a day of the same holiday would
\* have to be live on that day.
LEMMA OneDayOneLeave ==
  ASSUME AloneInv, RecoveringTakesWholeDays
  PROVE  HolidayDaysReturnOnce
<1> SUFFICES ASSUME NEW h \in Absences, NEW s \in Absences \ {h}, NEW z \in Absences \ {h}, s # z,
                    back[<<h, s>>] = "CONFIRMED", back[<<h, z>>] = "CONFIRMED",
                    NEW d \in SharedDays(leave[h], leave[s]) \cap SharedDays(leave[h], leave[z])
             PROVE  FALSE
  BY DEF HolidayDaysReturnOnce
<1>1. /\ status[h] # "UNFILED" /\ status[s] = "APPROVED" /\ status[z] = "APPROVED"
      /\ leave[s].recovers /\ leave[z].recovers /\ leave[s].who = leave[z].who
  <2>1. <<h, s>> \in Treads /\ <<h, z>> \in Treads
    BY DEF Treads
  <2> QED
    BY <2>1 DEF AloneInv, NotesAreOfGranted
<1>2. leave[h] \in Forms /\ leave[s] \in Forms /\ leave[z] \in Forms
  BY <1>1 DEF AloneInv, FormsKept
<1>3. s \in InTheWay /\ z \in InTheWay
  BY <1>1 DEF InTheWay, OnRecord, Live
<1>4. DatesMeet(leave[s], leave[z])
  BY <1>2, FormsAreShaped, FormsAssumption DEF SharedDays, FirstShared, LastShared, DatesMeet
<1>5. Clash(leave[s], leave[z])
  <2>1. leave[s].reduces = leave[z].reduces /\ leave[s].hours = Nothing
    BY <1>1, <1>2, FormsAreShaped DEF RecoveringTakesWholeDays
  <2> QED
    BY <1>1, <1>4, <2>1 DEF Clash, HoursMeet
<1>6. ~MayOverlapHoliday(leave[s], leave[z]) /\ ~MayOverlapHoliday(leave[z], leave[s])
  BY <1>1, <1>2 DEF MayOverlapHoliday, RecoveringTakesWholeDays
<1> QED
  BY <1>3, <1>5, <1>6 DEF AloneInv, LiveLeavesDoNotClash

\* A day of holiday comes back once: what gives it back takes whole days, is
\* granted, and does not meet another leave of that person (detect_recoveries,
\* recovered_days).
THEOREM HolidayComesBackOnce ==
  NothingHidesBehindHoliday /\ RecoveringTakesWholeDays => (Spec => []HolidayDaysReturnOnce)
<1> SUFFICES ASSUME NothingHidesBehindHoliday, RecoveringTakesWholeDays
             PROVE  Spec => []HolidayDaysReturnOnce
  OBVIOUS
<1>1. AloneInv => HolidayDaysReturnOnce
  BY OneDayOneLeave
<1>2. AloneInv /\ [Next]_vars => AloneInv'
  BY StepAlone
<1> QED
  BY <1>1, <1>2, InitAlone, PTL DEF Spec

-----------------------------------------------------------------------------
(* Sums                                                                     *)

\* A finite family of subsets of a finite set has a least one, in the order of inclusion.
LEMMA LeastSubset ==
  ASSUME NEW S, IsFiniteSet(S), NEW X \in SUBSET (SUBSET S), X # {}
  PROVE  \E t \in X : \A u \in X : ~(u \subseteq t /\ u # t)
<1>1. \A t \in SUBSET S : IsFiniteSet(t)
  BY FS_Subset
<1>2. X \subseteq FiniteSubsetsOf(S)
  BY <1>1 DEF FiniteSubsetsOf
<1>3. PICK t \in X : \A u \in X : <<u, t>> \notin StrictSubsetOrdering(S)
  BY <1>2, WFMin, FS_StrictSubsetOrderingWellFounded
<1> SUFFICES ASSUME NEW u \in X, u \subseteq t, u # t PROVE FALSE
  BY <1>3
<1>4. <<u, t>> \in StrictSubsetOrdering(S)
  BY DEF StrictSubsetOrdering
<1> QED
  BY <1>3, <1>4

\* The one the fold takes first, and one step of it.
Chosen(T) == CHOOSE x \in T : TRUE
Unfold(f, g, T) == IF T = {} THEN 0 ELSE f[Chosen(T)] + g[T \ {Chosen(T)}]
Folding(f, T) == CHOOSE g : g = [t \in SUBSET T |-> Unfold(f, g, t)]
Unfolds(f, T) ==
    SumFunctionOnSet(f, T) =
        IF T = {} THEN 0 ELSE f[Chosen(T)] + SumFunctionOnSet(f, T \ {Chosen(T)})

LEMMA SumIsFolding ==
  ASSUME NEW f, NEW T
  PROVE  SumFunctionOnSet(f, T) = Folding(f, T)[T]
BY DEF SumFunctionOnSet, FoldFunctionOnSet, MapThenFoldSet, Folding, Unfold, Chosen

\* The community module's recursion is one: its equation has a solution.
LEMMA OneUnfolds ==
  ASSUME NEW f, NEW T, IsFiniteSet(T), \A t \in SUBSET T : t # T => Unfolds(f, t)
  PROVE  Unfolds(f, T)
<1> DEFINE Smaller(t) == t \ {Chosen(t)}
           Sums == [t \in SUBSET T |->
                      IF t = {} THEN 0 ELSE f[Chosen(t)] + SumFunctionOnSet(f, Smaller(t))]
           Fold == Folding(f, T)
<1>1. \A t \in SUBSET T : t # {} => Smaller(t) \in SUBSET T /\ Smaller(t) # T /\ Smaller(t) # t
  BY DEF Chosen
<1>2. \A t \in SUBSET T : t # T => Sums[t] = SumFunctionOnSet(f, t)
  BY DEF Unfolds
<1>3. Sums = [t \in SUBSET T |-> Unfold(f, Sums, t)]
  <2>1. \A t \in SUBSET T : Sums[t] = Unfold(f, Sums, t)
    BY <1>1, <1>2 DEF Unfold
  <2> QED
    BY <2>1
<1>4. Fold = [t \in SUBSET T |-> Unfold(f, Fold, t)]
  <2> HIDE DEF Sums
  <2> QED
    BY <1>3 DEF Folding
<1>5. \A t \in SUBSET T : t # T => Fold[t] = SumFunctionOnSet(f, t)
  <2> SUFFICES ASSUME {t \in SUBSET T : t # T /\ Fold[t] # SumFunctionOnSet(f, t)} # {}
               PROVE  FALSE
    OBVIOUS
  <2>1. PICK t \in SUBSET T : /\ t # T /\ Fold[t] # SumFunctionOnSet(f, t)
                              /\ \A u \in SUBSET T : u \subseteq t /\ u # t =>
                                    u = T \/ Fold[u] = SumFunctionOnSet(f, u)
    <3> DEFINE Wrong == {t \in SUBSET T : t # T /\ Fold[t] # SumFunctionOnSet(f, t)}
    <3>1. Wrong \in SUBSET (SUBSET T) /\ Wrong # {}
      OBVIOUS
    <3>2. PICK t \in Wrong : \A u \in Wrong : ~(u \subseteq t /\ u # t)
      <4> HIDE DEF Wrong
      <4> QED
        BY <3>1, LeastSubset
    <3> QED
      BY <3>2
  <2>2. Fold[t] = Unfold(f, Fold, t)
    BY <1>4
  <2>3. CASE t = {}
    BY <2>1, <2>2, <2>3 DEF Unfold, Unfolds
  <2>4. CASE t # {}
    <3>1. Smaller(t) \in SUBSET T /\ Smaller(t) # T /\ Smaller(t) # t /\ Smaller(t) \subseteq t
      BY <1>1, <2>4
    <3>2. Fold[Smaller(t)] = SumFunctionOnSet(f, Smaller(t))
      BY <2>1, <3>1
    <3> QED
      BY <2>1, <2>2, <2>4, <3>2 DEF Unfold, Unfolds
  <2> QED
    BY <2>3, <2>4
<1>6. Fold[T] = Unfold(f, Fold, T)
  BY <1>4
<1>7. SumFunctionOnSet(f, T) = Fold[T]
  BY SumIsFolding
<1> QED
  BY <1>1, <1>5, <1>6, <1>7 DEF Unfold, Unfolds

LEMMA SumUnfolds ==
  ASSUME NEW f, NEW S, IsFiniteSet(S)
  PROVE  Unfolds(f, S)
<1> SUFFICES ASSUME ~Unfolds(f, S) PROVE FALSE
  OBVIOUS
<1> DEFINE Wrong == {t \in SUBSET S : ~Unfolds(f, t)}
<1>1. Wrong \in SUBSET (SUBSET S) /\ Wrong # {}
  OBVIOUS
<1>2. PICK t \in Wrong : \A u \in Wrong : ~(u \subseteq t /\ u # t)
  <2> HIDE DEF Wrong
  <2> QED
    BY <1>1, LeastSubset
<1>3. \A u \in SUBSET t : u # t => Unfolds(f, u)
  BY <1>2
<1>4. IsFiniteSet(t)
  BY <1>2, FS_Subset
<1> QED
  BY <1>2, <1>3, <1>4, OneUnfolds

LEMMA SumOfNone ==
  ASSUME NEW f
  PROVE  SumFunctionOnSet(f, {}) = 0
BY SumUnfolds, FS_EmptySet DEF Unfolds

\* A sum is a number, and any of its terms may be taken apart.
TakesApart(f, T) ==
    /\ SumFunctionOnSet(f, T) \in Nat
    /\ \A x \in T : SumFunctionOnSet(f, T) = f[x] + SumFunctionOnSet(f, T \ {x})

LEMMA OneTakesApart ==
  ASSUME NEW T, IsFiniteSet(T), NEW f, \A x \in T : f[x] \in Nat,
         \A t \in SUBSET T : t # T => TakesApart(f, t)
  PROVE  TakesApart(f, T)
<1>1. CASE T = {}
  BY <1>1, SumOfNone DEF TakesApart
<1>2. CASE T # {}
  <2> DEFINE c == Chosen(T)
  <2>1. c \in T
    BY <1>2 DEF Chosen
  <2> HIDE DEF c
  <2>2. SumFunctionOnSet(f, T) = f[c] + SumFunctionOnSet(f, T \ {c})
    BY <1>2, SumUnfolds DEF Unfolds, c
  <2>3. SumFunctionOnSet(f, T \ {c}) \in Nat
    BY <2>1 DEF TakesApart
  <2>4. ASSUME NEW x \in T, x # c
        PROVE  SumFunctionOnSet(f, T) = f[x] + SumFunctionOnSet(f, T \ {x})
    <3>1. SumFunctionOnSet(f, T \ {c}) = f[x] + SumFunctionOnSet(f, (T \ {c}) \ {x})
      BY <2>1, <2>4 DEF TakesApart
    <3>2. SumFunctionOnSet(f, T \ {x}) = f[c] + SumFunctionOnSet(f, (T \ {x}) \ {c})
      BY <2>1, <2>4 DEF TakesApart
    <3>3. (T \ {c}) \ {x} = (T \ {x}) \ {c}
      OBVIOUS
    <3>4. SumFunctionOnSet(f, (T \ {c}) \ {x}) \in Nat
      BY <2>1, <2>4 DEF TakesApart
    <3>5. f[x] \in Nat /\ f[c] \in Nat
      BY <2>1
    <3>6. SumFunctionOnSet(f, (T \ {x}) \ {c}) = SumFunctionOnSet(f, (T \ {c}) \ {x})
      BY <3>3
    <3> HIDE DEF TakesApart
    <3> QED
      BY <2>2, <3>1, <3>2, <3>4, <3>5, <3>6
  <2>5. f[c] \in Nat
    BY <2>1
  <2>6. SumFunctionOnSet(f, T) \in Nat
    BY <2>2, <2>3, <2>5
  <2>7. \A x \in T : SumFunctionOnSet(f, T) = f[x] + SumFunctionOnSet(f, T \ {x})
    BY <2>2, <2>4
  <2> QED
    BY <2>6, <2>7 DEF TakesApart
<1> QED
  BY <1>1, <1>2

LEMMA SumTakesApart ==
  ASSUME NEW S, IsFiniteSet(S), NEW f, \A x \in S : f[x] \in Nat
  PROVE  TakesApart(f, S)
<1> SUFFICES ASSUME ~TakesApart(f, S) PROVE FALSE
  OBVIOUS
<1> DEFINE Wrong == {t \in SUBSET S : ~TakesApart(f, t)}
<1>1. Wrong \in SUBSET (SUBSET S) /\ Wrong # {}
  OBVIOUS
<1>2. PICK t \in Wrong : \A u \in Wrong : ~(u \subseteq t /\ u # t)
  <2> HIDE DEF Wrong
  <2> QED
    BY <1>1, LeastSubset
<1>3. \A u \in SUBSET t : u # t => TakesApart(f, u)
  BY <1>2
<1>4. IsFiniteSet(t) /\ \A x \in t : f[x] \in Nat
  BY <1>2, FS_Subset
<1>5. TakesApart(f, t)
  BY <1>3, <1>4, OneTakesApart
<1> QED
  BY <1>2, <1>5

\* More terms, each no less, make a sum that is no less.
LEMMA SumGrows ==
  ASSUME NEW S, IsFiniteSet(S), NEW R \in SUBSET S, NEW f, NEW g,
         \A x \in S : g[x] \in Nat, \A x \in R : f[x] \in Nat /\ f[x] <= g[x]
  PROVE  SumFunctionOnSet(f, R) <= SumFunctionOnSet(g, S)
<1> DEFINE Good(t) == SumFunctionOnSet(f, R \cap t) <= SumFunctionOnSet(g, t)
           Wrong == {t \in SUBSET S : ~Good(t)}
<1> SUFFICES ASSUME Wrong # {} PROVE FALSE
  <2>1. R \cap S = R
    OBVIOUS
  <2> QED
    BY <2>1
<1>1. Wrong \in SUBSET (SUBSET S)
  OBVIOUS
<1>2. PICK t \in Wrong : \A u \in Wrong : ~(u \subseteq t /\ u # t)
  <2> HIDE DEF Wrong
  <2> QED
    BY <1>1, LeastSubset
<1>3. IsFiniteSet(t) /\ IsFiniteSet(R \cap t)
  BY <1>2, FS_Subset
<1>4. TakesApart(g, t) /\ TakesApart(f, R \cap t)
  BY <1>2, <1>3, SumTakesApart
<1>5. CASE t = {}
  <2>1. R \cap t = {}
    BY <1>5
  <2> QED
    BY <1>2, <1>5, <2>1, SumOfNone
<1>6. CASE t # {}
  <2>1. PICK x \in t : TRUE
    BY <1>6
  <2> DEFINE u == t \ {x}
  <2>2. u \in SUBSET S /\ u \notin Wrong
    BY <1>2, <2>1
  <2>3. SumFunctionOnSet(f, R \cap u) <= SumFunctionOnSet(g, u)
    BY <2>2
  <2>4. /\ SumFunctionOnSet(g, t) = g[x] + SumFunctionOnSet(g, u)
        /\ SumFunctionOnSet(g, u) \in Nat /\ SumFunctionOnSet(f, R \cap u) \in Nat
    <3>1. IsFiniteSet(u) /\ IsFiniteSet(R \cap u)
      BY <1>3, FS_Subset
    <3>2. TakesApart(g, u) /\ TakesApart(f, R \cap u)
      BY <1>2, <3>1, SumTakesApart
    <3> QED
      BY <1>4, <3>2 DEF TakesApart
  <2>5. SumFunctionOnSet(f, R \cap t) =
           IF x \in R THEN f[x] + SumFunctionOnSet(f, R \cap u) ELSE SumFunctionOnSet(f, R \cap u)
    <3>1. (R \cap t) \ {x} = R \cap u
      OBVIOUS
    <3>2. x \notin R => R \cap t = R \cap u
      OBVIOUS
    <3> QED
      BY <1>4, <2>1, <3>1, <3>2 DEF TakesApart
  <2>6. ~Good(t) /\ g[x] \in Nat /\ (x \in R => f[x] \in Nat /\ f[x] <= g[x])
    BY <1>2, <2>1
  <2> HIDE DEF u
  <2> QED
    BY <2>3, <2>4, <2>5, <2>6
<1> QED
  BY <1>5, <1>6

\* The sum of the sizes of sets of which no two meet is the size of all of them.
LEMMA TwoSizes ==
  ASSUME NEW X, NEW Y, IsFiniteSet(X), IsFiniteSet(Y), X \cap Y = {}
  PROVE  IsFiniteSet(X \cup Y) /\ Cardinality(X \cup Y) = Cardinality(X) + Cardinality(Y)
<1>1. Cardinality(X \cup Y) = Cardinality(X) + Cardinality(Y) - Cardinality(X \cap Y)
  BY FS_Union
<1>2. Cardinality(X) \in Nat /\ Cardinality(Y) \in Nat /\ Cardinality(X \cap Y) = 0
  BY FS_CardinalityType, FS_EmptySet
<1> QED
  BY <1>1, <1>2, FS_Union

Apart(S, A) ==
    /\ IsFiniteSet(S) /\ \A x \in S : IsFiniteSet(A[x])
    /\ \A x, y \in S : x # y => A[x] \cap A[y] = {}
SizesAdd(S, A) ==
    /\ IsFiniteSet(UNION {A[x] : x \in S})
    /\ SumFunctionOnSet([x \in S |-> Cardinality(A[x])], S) = Cardinality(UNION {A[x] : x \in S})

LEMMA SumOfSizes ==
  ASSUME NEW S, NEW A, Apart(S, A)
  PROVE  SizesAdd(S, A)
<1>0. /\ IsFiniteSet(S) /\ \A x \in S : IsFiniteSet(A[x])
      /\ \A x, y \in S : x # y => A[x] \cap A[y] = {}
  BY DEF Apart
<1> DEFINE f == [x \in S |-> Cardinality(A[x])]
           All(t) == UNION {A[x] : x \in t}
           Good(t) == IsFiniteSet(All(t)) /\ SumFunctionOnSet(f, t) = Cardinality(All(t))
           Wrong == {t \in SUBSET S : ~Good(t)}
<1> SUFFICES ASSUME Wrong # {} PROVE FALSE
  BY DEF SizesAdd
<1>1. Wrong \in SUBSET (SUBSET S)
  OBVIOUS
<1>2. PICK t \in Wrong : \A u \in Wrong : ~(u \subseteq t /\ u # t)
  <2> HIDE DEF Wrong
  <2> QED
    BY <1>0, <1>1, LeastSubset
<1>3. \A x \in S : f[x] \in Nat /\ f[x] = Cardinality(A[x])
  BY <1>0, FS_CardinalityType
<1>4. TakesApart(f, t)
  <2>1. IsFiniteSet(t)
    BY <1>0, <1>2, FS_Subset
  <2> HIDE DEF f, Wrong
  <2>2. \A x \in t : f[x] \in Nat
    BY <1>2, <1>3 DEF Wrong
  <2> QED
    BY <2>1, <2>2, SumTakesApart
<1>5. CASE t = {}
  <2>1. All(t) = {}
    BY <1>5
  <2> HIDE DEF f
  <2>2. SumFunctionOnSet(f, t) = 0
    BY <1>5, SumOfNone
  <2> QED
    BY <1>2, <2>1, <2>2, FS_EmptySet
<1>6. CASE t # {}
  <2>1. PICK x \in t : TRUE
    BY <1>6
  <2> DEFINE u == t \ {x}
  <2>2. Good(u)
    BY <1>2, <2>1
  <2>3. All(t) = All(u) \cup A[x] /\ All(u) \cap A[x] = {}
    BY <1>0, <1>2, <2>1
  <2>4. SumFunctionOnSet(f, t) = Cardinality(A[x]) + SumFunctionOnSet(f, u)
    BY <1>2, <1>3, <1>4, <2>1 DEF TakesApart
  <2>5. IsFiniteSet(A[x])
    BY <1>0, <1>2, <2>1
  <2> HIDE DEF f, u, All
  <2>6. /\ IsFiniteSet(All(u) \cup A[x])
        /\ Cardinality(All(u) \cup A[x]) = Cardinality(All(u)) + Cardinality(A[x])
    BY <2>2, <2>3, <2>5, TwoSizes
  <2>7. Cardinality(All(u)) \in Nat /\ Cardinality(A[x]) \in Nat
    BY <2>2, <2>5, FS_CardinalityType
  <2>8. IsFiniteSet(All(t)) /\ Cardinality(All(t)) = Cardinality(All(u)) + Cardinality(A[x])
    BY <2>3, <2>6, Zenon
  <2>9. Cardinality(All(t)) = SumFunctionOnSet(f, t)
    BY <2>2, <2>4, <2>7, <2>8
  <2> QED
    BY <1>2, <2>8, <2>9
<1> QED
  BY <1>5, <1>6
-----------------------------------------------------------------------------
(* The calendar and what leave takes of it *)

\* The windows of one length share out the days.
LEMMA OneWindow ==
  ASSUME NEW length \in Nat \ {0}, NEW start \in Int, NEW d \in Int, NEW e \in Window(d, length, start)
  PROVE  Window(e, length, start) = Window(d, length, start)
<1>1. \A x \in Int : \E q \in Int, m \in 0 .. length - 1 :
         x - start = length * q + m /\ (x - start) % length = m
  <2> TAKE x \in Int
  <2> WITNESS (x - start) \div length \in Int, (x - start) % length \in 0 .. length - 1
  <2> QED
    OBVIOUS
<1>2. PICK q \in Int, m \in 0 .. length - 1 :
         d - start = length * q + m /\ (d - start) % length = m
  BY <1>1
<1>3. e \in Int /\ e - d + m \in 0 .. length - 1
  BY <1>2 DEF Window
<1>4. PICK p \in Int, n \in 0 .. length - 1 :
         e - start = length * p + n /\ (e - start) % length = n
  BY <1>1, <1>3
<1>5. length * p - length * q = (e - d + m) - n
  <2>1. length * p \in Int /\ length * q \in Int
    OBVIOUS
  <2> QED
    BY <1>2, <1>3, <1>4, <2>1
<1>6. length * (p - q) = (e - d + m) - n
  BY <1>5
<1>7. p - q = 0
  <2>1. CASE p - q >= 1
    <3>1. length * (p - q) >= length
      BY <2>1
    <3> QED
      BY <1>3, <1>6, <3>1
  <2>2. CASE p - q <= -1
    <3>1. length * (p - q) <= -length
      BY <2>2
    <3> QED
      BY <1>3, <1>6, <3>1
  <2> QED
    BY <2>1, <2>2
<1>8. n = e - d + m
  BY <1>3, <1>6, <1>7
<1>9. e - n = d - m
  BY <1>3, <1>8
<1> QED
  BY <1>2, <1>4, <1>9 DEF Window

LEMMA OnePeriod ==
  ASSUME CalendarAssumption, NEW type \in Catalogue, NEW d \in Calendar, NEW e \in Calendar,
         e \in PeriodFor(type, d)
  PROVE  PeriodFor(type, e) = PeriodFor(type, d)
<1>1. d \in Int /\ e \in Int /\ {YearDays, MonthDays, WeekDays} \subseteq Nat \ {0} /\ 0 \in Int
  BY DEF CalendarAssumption, Calendar
<1>2. CASE type.period = "YEAR"
  BY <1>1, <1>2, OneWindow DEF PeriodFor
<1>3. CASE type.period = "MONTH"
  BY <1>1, <1>3, OneWindow DEF PeriodFor
<1>4. CASE type.period = "WEEK"
  BY <1>1, <1>4, OneWindow DEF PeriodFor
<1>5. CASE type.period = "DAY"
  BY <1>5 DEF PeriodFor
<1>6. CASE type.period \notin {"YEAR", "MONTH", "WEEK", "DAY"}
  BY <1>6 DEF PeriodFor
<1> QED
  BY <1>2, <1>3, <1>4, <1>5, <1>6

LEMMA FormTypes ==
  ASSUME CalendarAssumption, NEW form \in Askable
  PROVE  /\ form \in Form /\ form.type \in Catalogue /\ form.type \in LeaveType
         /\ form.from \in Calendar /\ form.to \in Calendar /\ form.from <= form.to
         /\ form.from \in Nat /\ form.to \in Nat /\ form.hours \in Nat
         /\ form.from \in Span(form)
BY DEF CalendarAssumption, Form, Calendar, Span

LEMMA Countable ==
  ASSUME CalendarAssumption, NEW form \in Askable, NEW X \in SUBSET Span(form)
  PROVE  IsFiniteSet(X) /\ Cardinality(X) \in Nat
<1>1. IsFiniteSet(Span(form))
  BY FormTypes, FS_Interval DEF Span
<1> QED
  BY <1>1, FS_Subset, FS_CardinalityType

LEMMA RowsAreFew ==
  ASSUME CalendarAssumption, NEW R \in SUBSET Rows
  PROVE  IsFiniteSet(R)
BY FS_Subset DEF CalendarAssumption

LEMMA RowTypes ==
  ASSUME BalanceTypeOK, NEW r \in Rows, There(r)
  PROVE  row[r] \in Filed /\ row[r].form \in Askable
BY DEF BalanceTypeOK, There, Filed

\* A right counted in natural days: what one leave takes of a period.
Limited(type) == type.amount # Unlimited /\ type.period # "EVENT" /\ type.unit = "DAYS_CALENDAR"
Takes(form, period) == 100 * Cardinality(Span(form) \cap period)

LEMMA AmountIsNatural ==
  ASSUME CalendarAssumption, NEW form \in Askable, NEW type, Limited(type), NEW period
  PROVE  /\ Amount(form, type, period) \in Nat
         /\ ~Partial(form) => Amount(form, type, period) = Takes(form, period)
<1>1. CASE Partial(form)
  <2>1. WholeDayHours(form) \in Nat \ {0} /\ 100 * form.hours \in Nat
    BY FormTypes DEF WholeDayHours, CalendarAssumption
  <2>2. (100 * form.hours) \div WholeDayHours(form) \in Nat
    <3> HIDE DEF WholeDayHours
    <3>1. ASSUME NEW n \in Nat, NEW m \in Nat \ {0} PROVE n \div m \in Nat
      OBVIOUS
    <3> QED
      BY <2>1, <3>1
  <2> QED
    BY <1>1, <2>2 DEF Amount, Limited
<1>2. CASE ~Partial(form)
  <2>1. DaysWithin(form, period, FALSE) = Cardinality(Span(form) \cap period)
    <3>1. Counted(Span(form) \cap period, FALSE) = Span(form) \cap period
      BY DEF Counted
    <3> QED
      BY <3>1 DEF DaysWithin
  <2>2. Cardinality(Span(form) \cap period) \in Nat
    BY Countable
  <2>3. type.unit # "HOURS" /\ (type.unit = "DAYS_WORKING") = FALSE
    BY DEF Limited
  <2>4. Amount(form, type, period) = 100 * DaysWithin(form, period, FALSE)
    BY <1>2, <2>3 DEF Amount
  <2> DEFINE n == Cardinality(Span(form) \cap period)
  <2>5. Amount(form, type, period) = 100 * n /\ Takes(form, period) = 100 * n
    BY <2>1, <2>4 DEF Takes
  <2>6. n \in Nat
    BY <2>2
  <2> HIDE DEF n
  <2> QED
    BY <2>5, <2>6
<1> QED
  BY <1>1, <1>2

-----------------------------------------------------------------------------
(* Types of the balance *)

\* The ends of an interval are the ones the note of a recovery takes.
LEMMA EndsOfASpan ==
  ASSUME NEW a \in Int, NEW b \in Int, a <= b
  PROVE  Min(a .. b) = a /\ Max(a .. b) = b
<1>1. a \in a .. b /\ \A y \in a .. b : a =< y
  OBVIOUS
<1>2. b \in a .. b /\ \A y \in a .. b : b >= y
  OBVIOUS
<1>3. \A x \in a .. b : (\A y \in a .. b : x =< y) => x = a
  BY <1>1
<1>4. \A x \in a .. b : (\A y \in a .. b : x >= y) => x = b
  BY <1>2
<1> QED
  BY <1>1, <1>2, <1>3, <1>4 DEF Min, Max

LEMMA TwoSpans ==
  ASSUME NEW a \in Int, NEW b \in Int, NEW c \in Int, NEW d \in Int, (a .. b) \cap (c .. d) # {}
  PROVE  \E lo \in {a, c}, hi \in {b, d} : lo <= hi /\ (a .. b) \cap (c .. d) = lo .. hi
<1> DEFINE lo == IF a < c THEN c ELSE a
           hi == IF b < d THEN b ELSE d
<1>1. lo \in {a, c} /\ hi \in {b, d}
  OBVIOUS
<1>2. \A x \in Int : a <= x /\ x <= b /\ c <= x /\ x <= d <=> lo <= x /\ x <= hi
  OBVIOUS
<1>3. (a .. b) \cap (c .. d) = lo .. hi
  BY <1>1, <1>2
<1>4. lo <= hi
  OBVIOUS
<1> QED
  BY <1>1, <1>3, <1>4

LEMMA EatenIsASpan ==
  ASSUME CalendarAssumption, BalanceTypeOK, NEW r \in Rows, NEW h \in Rows, There(r), There(h),
         EatenDays(r, h) # {}
  PROVE  /\ Min(EatenDays(r, h)) \in Calendar /\ Max(EatenDays(r, h)) \in Calendar
         /\ Min(EatenDays(r, h)) .. Max(EatenDays(r, h)) = EatenDays(r, h)
<1>1. row[r].form \in Askable /\ row[h].form \in Askable
  BY RowTypes
<1>2. /\ {row[r].form.from, row[r].form.to, row[h].form.from, row[h].form.to} \subseteq Calendar
      /\ Calendar \subseteq Int
  BY <1>1, FormTypes DEF Calendar
<1>3. PICK lo \in Calendar, hi \in Calendar : lo <= hi /\ EatenDays(r, h) = lo .. hi
  <2> DEFINE a == row[r].form.from  b == row[r].form.to  c == row[h].form.from  d == row[h].form.to
  <2>1. EatenDays(r, h) = (a .. b) \cap (c .. d)
    BY DEF EatenDays, Span
  <2>2. {a, b, c, d} \subseteq Calendar /\ (a .. b) \cap (c .. d) # {}
    BY <1>2, <2>1
  <2> HIDE DEF a, b, c, d
  <2>3. \E lo \in {a, c}, hi \in {b, d} : lo <= hi /\ (a .. b) \cap (c .. d) = lo .. hi
    <3>1. a \in Int /\ b \in Int /\ c \in Int /\ d \in Int
      BY <1>2, <2>2
    <3> QED
      BY <2>2, <3>1, TwoSpans
  <2> QED
    BY <2>1, <2>2, <2>3
<1>4. Min(lo .. hi) = lo /\ Max(lo .. hi) = hi
  BY <1>2, <1>3, EndsOfASpan
<1> QED
  BY <1>3, <1>4

LEMMA NoteTypes ==
  ASSUME CalendarAssumption, BalanceTypeOK, NEW r \in Rows, There(r)
  PROVE  /\ Detected(r) \subseteq RecoveredHoliday
         /\ \A k \in Detected(r) :
               /\ k.leave = r /\ k.holiday \in Those({"APPROVED"}) /\ k.status = "PENDING"
               /\ row[k.holiday].form.type.family = "VACATION" /\ ~Partial(row[k.holiday].form)
               /\ k.first .. k.last = EatenDays(r, k.holiday)
<1> SUFFICES ASSUME NEW k \in Detected(r)
             PROVE  /\ k \in RecoveredHoliday
                    /\ k.leave = r /\ k.holiday \in Those({"APPROVED"}) /\ k.status = "PENDING"
                    /\ row[k.holiday].form.type.family = "VACATION" /\ ~Partial(row[k.holiday].form)
                    /\ k.first .. k.last = EatenDays(r, k.holiday)
  OBVIOUS
<1>1. PICK h \in Those({"APPROVED"}) :
         /\ row[h].form.type.family = "VACATION" /\ ~Partial(row[h].form) /\ EatenDays(r, h) # {}
         /\ k = [holiday |-> h, leave |-> r, first |-> Min(EatenDays(r, h)),
                 last |-> Max(EatenDays(r, h)),
                 days |-> Cardinality(Counted(EatenDays(r, h), WorkingUnit)), status |-> "PENDING"]
  BY DEF Detected
<1>2. h \in Rows /\ There(h)
  BY DEF Those
<1>3. Cardinality(Counted(EatenDays(r, h), WorkingUnit)) \in Nat
  <2>1. Counted(EatenDays(r, h), WorkingUnit) \subseteq Span(row[r].form)
    BY DEF Counted, EatenDays
  <2> QED
    BY <2>1, RowTypes, Countable
<1> QED
  BY <1>1, <1>2, <1>3, EatenIsASpan DEF RecoveredHoliday

LEMMA BalanceInitType == CalendarAssumption /\ BalanceInit => BalanceTypeOK
BY DEF BalanceInit, BalanceTypeOK

LEMMA BalanceNextType ==
  ASSUME CalendarAssumption, BalanceTypeOK, [BalanceNext]_balanceVars
  PROVE  BalanceTypeOK'
<1>1. CASE UNCHANGED balanceVars
  BY <1>1 DEF balanceVars, BalanceTypeOK
<1>2. CASE ReadQueue
  <2>1. \A r \in Rows : Warning(r) \in BOOLEAN
    BY DEF Warning, RestOverTheBalance, OverTheLimit
  <2> QED
    BY <1>2, <2>1 DEF ReadQueue, BalanceTypeOK
<1>3. ASSUME NEW d \in Calendar, Paint(d) \/ Declare(d) PROVE BalanceTypeOK'
  BY <1>3 DEF Paint, Declare, BalanceTypeOK
<1>4. ASSUME NEW r \in Rows, NEW form \in Askable, Request(r, form) PROVE BalanceTypeOK'
  BY <1>4 DEF Request, BalanceTypeOK, Filed
<1>5. ASSUME NEW r \in Rows, Grant(r) PROVE BalanceTypeOK'
  <2>1. row[r] \in Filed
    BY <1>5, RowTypes DEF Grant
  <2>2. row' \in [Rows -> Filed \cup {Unset}]
    BY <1>5, <2>1 DEF Grant, BalanceTypeOK, Filed
  <2>3. kept' \subseteq RecoveredHoliday
    BY <1>5, NoteTypes DEF Grant, BalanceTypeOK
  <2> QED
    BY <1>5, <2>2, <2>3 DEF Grant, BalanceTypeOK
<1>6. ASSUME NEW r \in Rows, Close(r) PROVE BalanceTypeOK'
  <2>1. row[r] \in Filed
    BY <1>6, RowTypes DEF Close
  <2> QED
    BY <1>6, <2>1 DEF Close, BalanceTypeOK, Filed
<1>7. ASSUME NEW k \in kept, NEW answer \in {"CONFIRMED", "DISMISSED"}, Decide(k, answer)
      PROVE  BalanceTypeOK'
  BY <1>7 DEF Decide, BalanceTypeOK, RecoveredHoliday
<1> QED
  BY <1>1, <1>2, <1>3, <1>4, <1>5, <1>6, <1>7 DEF BalanceNext


-----------------------------------------------------------------------------
(* Nobody passes a right unwarned                                           *)

\* Those that stand for a right without a warning, however they were decided.
Unwarned(type, period) ==
    {r \in Those(Standing) : /\ row[r].form.type = type /\ Span(row[r].form) \subseteq period
                             /\ ~Partial(row[r].form) /\ shown[r] = FALSE}

\* Together they never passed it: the last of them to be shown was counted with
\* all the others, and it was not too much.
WithinTheRight ==
    \A type \in Catalogue, d \in Calendar : Limited(type) =>
        LET period == PeriodFor(type, d)
            quiet  == Unwarned(type, period)
        IN SumFunctionOnSet([r \in quiet |-> Takes(row[r].form, period)], quiet) <= 100 * type.amount

\* What is decided was shown before.
DecidedWasShown ==
    \A r \in Rows : /\ ~There(r) => shown[r] = Unset
                    /\ There(r) /\ row[r].status = "APPROVED" => shown[r] \in BOOLEAN

RightInv == BalanceTypeOK /\ DecidedWasShown /\ WithinTheRight

LEMMA StandingRows ==
  ASSUME CalendarAssumption, BalanceTypeOK, NEW r \in Those(Standing)
  PROVE  r \in Rows /\ There(r) /\ row[r].form \in Askable
BY RowTypes DEF Those

LEMMA TakesIsNatural ==
  ASSUME CalendarAssumption, NEW form \in Askable, NEW period
  PROVE  Takes(form, period) \in Nat
<1> DEFINE n == Cardinality(Span(form) \cap period)
<1>1. n \in Nat
  BY Countable
<1>2. Takes(form, period) = 100 * n
  BY DEF Takes
<1> HIDE DEF n
<1> QED
  BY <1>1, <1>2

\* A step after which those without a warning are some of those there were.
LEMMA FewerUnwarned ==
  ASSUME CalendarAssumption, BalanceTypeOK, WithinTheRight, BalanceTypeOK',
         NEW type \in Catalogue, NEW d \in Calendar, Limited(type),
         Unwarned(type, PeriodFor(type, d))' \subseteq Unwarned(type, PeriodFor(type, d)),
         \A r \in Unwarned(type, PeriodFor(type, d))' : row'[r].form = row[r].form
  PROVE  SumFunctionOnSet([r \in Unwarned(type, PeriodFor(type, d))' |->
                              Takes(row'[r].form, PeriodFor(type, d))],
                          Unwarned(type, PeriodFor(type, d))') <= 100 * type.amount
<1> DEFINE period == PeriodFor(type, d)
           before == Unwarned(type, period)
           after  == Unwarned(type, period)'
           g == [r \in before |-> Takes(row[r].form, period)]
           f == [r \in after |-> Takes(row'[r].form, period)]
<1>1. before \subseteq Rows /\ \A r \in before : row[r].form \in Askable
  BY StandingRows DEF Unwarned, Those
<1>2. SumFunctionOnSet(g, before) <= 100 * type.amount
  BY DEF WithinTheRight
<1>3. after \in SUBSET before
  OBVIOUS
<1>4. \A r \in before : g[r] \in Nat
  BY <1>1, TakesIsNatural
<1>5. \A r \in after : f[r] \in Nat /\ f[r] <= g[r]
  <2>1. \A r \in after : f[r] = g[r]
    OBVIOUS
  <2> HIDE DEF f, g, after, before
  <2> QED
    BY <1>3, <1>4, <2>1
<1>6. IsFiniteSet(before) /\ IsFiniteSet(after)
  BY <1>1, <1>3, RowsAreFew, FS_Subset
<1>7. SumFunctionOnSet(f, after) <= SumFunctionOnSet(g, before)
  <2> HIDE DEF f, g, after, before
  <2> QED
    BY <1>3, <1>4, <1>5, <1>6, SumGrows
<1>8. SumFunctionOnSet(f, after) \in Nat /\ SumFunctionOnSet(g, before) \in Nat
  <2> HIDE DEF f, g, after, before
  <2> QED
    BY <1>4, <1>5, <1>6, SumTakesApart DEF TakesApart
<1>9. 100 * type.amount \in Nat
  BY DEF Limited, CalendarAssumption, LeaveType
<1> HIDE DEF f, g, after, before
<1>10. SumFunctionOnSet(f, after) <= 100 * type.amount
  BY <1>2, <1>7, <1>8, <1>9
<1> QED
  BY <1>10 DEF f, after

\* Who reads the queue counts everything that stands, so what was shown without
\* a warning is within the right together with what had been shown before.
LEMMA ReadingIsWithin ==
  ASSUME CalendarAssumption, RightInv, BalanceTypeOK', ReadQueue,
         NEW type \in Catalogue, NEW d \in Calendar, Limited(type)
  PROVE  SumFunctionOnSet([r \in Unwarned(type, PeriodFor(type, d))' |->
                              Takes(row'[r].form, PeriodFor(type, d))],
                          Unwarned(type, PeriodFor(type, d))') <= 100 * type.amount
<1> DEFINE period == PeriodFor(type, d)
           after  == Unwarned(type, period)'
           f == [r \in after |-> Takes(row'[r].form, period)]
<1>1. row' = row /\ after = {r \in Those(Standing) :
                                /\ row[r].form.type = type /\ Span(row[r].form) \subseteq period
                                /\ ~Partial(row[r].form) /\ shown'[r] = FALSE}
  BY DEF ReadQueue, Unwarned, Those, There
<1>2. CASE \A r \in after : row[r].status # "PENDING"
  <2>1. after \subseteq Unwarned(type, period)
    <3>1. \A r \in after : shown'[r] = shown[r]
      BY <1>1, <1>2 DEF ReadQueue, Those
    <3> QED
      BY <1>1, <3>1 DEF Unwarned
  <2> QED
    BY <1>1, <2>1, FewerUnwarned DEF RightInv
<1>3. CASE \E p \in after : row[p].status = "PENDING"
  <2>1. PICK p \in after : row[p].status = "PENDING"
    BY <1>3
  <2>2. p \in Those({"PENDING"}) /\ p \in Those(Standing) /\ p \in Rows /\ row[p].form \in Askable
    BY <1>1, <2>1, StandingRows DEF Those, RightInv
  <2>3. ~OverTheLimit(p)
    <3>1. shown'[p] = Warning(p)
      BY <2>2 DEF ReadQueue
    <3> QED
      BY <1>1, <2>1, <3>1 DEF Warning
  <2> DEFINE spell  == PeriodFor(type, row[p].form.from)
             rows_ == {r \in Those(Standing) : row[r].form.type = type /\ Meets(row[r].form, spell)}
             g    == [r \in rows_ |-> Amount(row[r].form, type, spell)]
  <2>4. spell = period
    <3>1. row[p].form.from \in Calendar /\ row[p].form.from \in period
      BY <1>1, <2>1, <2>2, FormTypes
    <3> QED
      BY <3>1, OnePeriod
  <2>5. SumFunctionOnSet(g, rows_) = Usage(type, row[p].form.from)
    BY DEF Usage, SumFunction
  <2>6. ~(Usage(type, row[p].form.from) > 100 * type.amount)
    BY <1>1, <2>1, <2>3 DEF OverTheLimit, Limited
  <2>7. after \in SUBSET rows_
    <3>1. \A r \in after : r \in Those(Standing) /\ Meets(row[r].form, period)
      <4> SUFFICES ASSUME NEW r \in after PROVE Meets(row[r].form, period)
        BY <1>1
      <4>1. row[r].form.from \in Span(row[r].form) /\ Span(row[r].form) \subseteq period
        BY <1>1, StandingRows, FormTypes DEF RightInv
      <4> QED
        BY <4>1 DEF Meets
    <3> QED
      BY <1>1, <2>4, <3>1
  <2>8. rows_ \in SUBSET Rows /\ \A r \in rows_ : row[r].form \in Askable
    BY StandingRows DEF RightInv
  <2>9. IsFiniteSet(rows_) /\ IsFiniteSet(after)
    BY <2>7, <2>8, RowsAreFew, FS_Subset
  <2>10. \A r \in rows_ : g[r] \in Nat
    BY <2>8, AmountIsNatural
  <2>11. \A r \in after : f[r] \in Nat /\ f[r] <= g[r]
    <3> SUFFICES ASSUME NEW r \in after PROVE f[r] \in Nat /\ f[r] = g[r]
      <4> HIDE DEF f, g, after
      <4> QED
        OBVIOUS
    <3>1. r \in rows_ /\ row[r].form \in Askable /\ ~Partial(row[r].form)
      BY <1>1, <2>7, <2>8
    <3>2. f[r] = Takes(row[r].form, period) /\ g[r] = Amount(row[r].form, type, period)
      BY <1>1, <2>4, <3>1
    <3> QED
      BY <3>1, <3>2, AmountIsNatural
  <2>12. SumFunctionOnSet(f, after) <= SumFunctionOnSet(g, rows_)
    <3> HIDE DEF f, g, after, rows_
    <3> QED
      BY <2>7, <2>9, <2>10, <2>11, SumGrows
  <2>13. SumFunctionOnSet(f, after) \in Nat /\ SumFunctionOnSet(g, rows_) \in Nat
    <3> HIDE DEF f, g, after, rows_
    <3> QED
      BY <2>9, <2>10, <2>11, SumTakesApart DEF TakesApart
  <2>14. 100 * type.amount \in Nat
    BY DEF Limited, CalendarAssumption, LeaveType
  <2> HIDE DEF f, g, after, rows_
  <2>15. SumFunctionOnSet(f, after) <= 100 * type.amount
    BY <2>5, <2>6, <2>12, <2>13, <2>14
  <2> QED
    BY <2>15 DEF f, after
<1> QED
  BY <1>2, <1>3

LEMMA RightInit == CalendarAssumption /\ BalanceInit => RightInv
<1> SUFFICES ASSUME CalendarAssumption, BalanceInit PROVE RightInv
  OBVIOUS
<1>1. BalanceTypeOK
  BY BalanceInitType
<1>2. Those(Standing) = {}
  BY DEF BalanceInit, Those, There
<1>3. DecidedWasShown
  BY DEF BalanceInit, DecidedWasShown, There
<1>4. ASSUME NEW type \in Catalogue, NEW d \in Calendar, Limited(type), NEW f
      PROVE  SumFunctionOnSet(f, Unwarned(type, PeriodFor(type, d))) <= 100 * type.amount
  <2>1. Unwarned(type, PeriodFor(type, d)) = {}
    BY <1>2 DEF Unwarned
  <2>2. 100 * type.amount \in Nat
    BY <1>4 DEF Limited, CalendarAssumption, LeaveType
  <2> QED
    BY <2>1, <2>2, SumOfNone
<1> QED
  BY <1>1, <1>3, <1>4 DEF RightInv, WithinTheRight

LEMMA ShownStep ==
  ASSUME CalendarAssumption, BalanceTypeOK, DecidedWasShown, [BalanceNext]_balanceVars
  PROVE  DecidedWasShown'
<1>1. CASE UNCHANGED <<row, shown>>
  BY <1>1 DEF DecidedWasShown, There
<1>2. CASE ReadQueue
  <2>1. \A r \in Rows : Warning(r) \in BOOLEAN
    BY DEF Warning, RestOverTheBalance, OverTheLimit
  <2> QED
    BY <1>2, <2>1 DEF ReadQueue, DecidedWasShown, There, Those
<1>3. ASSUME NEW d \in Calendar, Paint(d) \/ Declare(d) PROVE DecidedWasShown'
  BY <1>1, <1>3 DEF Paint, Declare
<1>4. ASSUME NEW r \in Rows, NEW form \in Askable, Request(r, form) PROVE DecidedWasShown'
  <2>1. row'[r].status = "PENDING" /\ shown[r] = Unset /\ \A x \in Rows : x # r => row'[x] = row[x]
    BY <1>4 DEF Request, BalanceTypeOK, DecidedWasShown
  <2> QED
    BY <1>4, <2>1 DEF Request, DecidedWasShown, There
<1>5. ASSUME NEW r \in Rows, Grant(r) PROVE DecidedWasShown'
  <2>1. shown[r] \in BOOLEAN /\ There(r) /\ \A x \in Rows : x # r => row'[x] = row[x]
    BY <1>5 DEF Grant, BalanceTypeOK
  <2>2. There(r)'
    BY <1>5, RowTypes DEF Grant, There, BalanceTypeOK, Filed, CalendarAssumption
  <2> QED
    BY <1>5, <2>1, <2>2 DEF Grant, DecidedWasShown, There
<1>6. ASSUME NEW r \in Rows, Close(r) PROVE DecidedWasShown'
  <2>1. row'[r].status = "CLOSED" /\ There(r) /\ \A x \in Rows : x # r => row'[x] = row[x]
    BY <1>6, RowTypes DEF Close, BalanceTypeOK, Filed
  <2>2. There(r)'
    BY <1>6, RowTypes DEF Close, There, BalanceTypeOK, Filed, CalendarAssumption
  <2> QED
    BY <1>6, <2>1, <2>2 DEF Close, DecidedWasShown, There
<1>7. ASSUME NEW k \in kept, NEW answer \in {"CONFIRMED", "DISMISSED"}, Decide(k, answer)
      PROVE  DecidedWasShown'
  BY <1>1, <1>7 DEF Decide
<1> QED
  BY <1>1, <1>2, <1>3, <1>4, <1>5, <1>6, <1>7 DEF BalanceNext, balanceVars


\* Any other step leaves no more without a warning than there were.
LEMMA UnwarnedStep ==
  ASSUME CalendarAssumption, RightInv, [BalanceNext]_balanceVars, ~ReadQueue,
         NEW type \in Catalogue, NEW period
  PROVE  /\ Unwarned(type, period)' \subseteq Unwarned(type, period)
         /\ \A r \in Unwarned(type, period)' : row'[r].form = row[r].form
<1>1. CASE UNCHANGED <<row, shown>>
  BY <1>1 DEF Unwarned, Those, There
<1>2. ASSUME NEW d \in Calendar, Paint(d) \/ Declare(d) PROVE UNCHANGED <<row, shown>>
  BY <1>2 DEF Paint, Declare
<1>3. ASSUME NEW k \in kept, NEW answer \in {"CONFIRMED", "DISMISSED"}, Decide(k, answer)
      PROVE  UNCHANGED <<row, shown>>
  BY <1>3 DEF Decide
<1>4. CASE \E r \in Rows, form \in Askable : Request(r, form)
  <2>1. PICK r \in Rows, form \in Askable : Request(r, form)
    BY <1>4
  <2>2. shown[r] = Unset /\ shown' = shown /\ \A x \in Rows : x # r => row'[x] = row[x]
    BY <2>1 DEF Request, RightInv, BalanceTypeOK, DecidedWasShown
  <2>3. shown[r] # FALSE
    BY <2>2 DEF CalendarAssumption
  <2> QED
    BY <2>2, <2>3 DEF Unwarned, Those, There
<1>5. CASE \E r \in Rows : Grant(r) \/ Close(r)
  <2>1. PICK r \in Rows : Grant(r) \/ Close(r)
    BY <1>5
  <2>2. /\ row[r] \in Filed /\ There(r) /\ row[r].status = "PENDING"
        /\ shown' = shown /\ row'[r].form = row[r].form
        /\ \A x \in Rows : x # r => row'[x] = row[x]
    BY <2>1, RowTypes DEF Grant, Close, RightInv, BalanceTypeOK, Filed
  <2>3. \A x \in Rows : row'[x].form = row[x].form /\ (x \in Those(Standing)' => x \in Those(Standing))
    BY <2>2 DEF Those, There, Standing
  <2> QED
    BY <2>2, <2>3 DEF Unwarned, Those
<1> QED
  BY <1>1, <1>2, <1>3, <1>4, <1>5 DEF BalanceNext, balanceVars

LEMMA RightStep ==
  ASSUME CalendarAssumption, RightInv, [BalanceNext]_balanceVars
  PROVE  RightInv'
<1>1. BalanceTypeOK' /\ DecidedWasShown'
  BY BalanceNextType, ShownStep DEF RightInv
<1>2. WithinTheRight'
  <2> SUFFICES ASSUME NEW type \in Catalogue, NEW d \in Calendar, Limited(type)
               PROVE  SumFunctionOnSet([r \in Unwarned(type, PeriodFor(type, d))' |->
                                           Takes(row'[r].form, PeriodFor(type, d))],
                                       Unwarned(type, PeriodFor(type, d))') <= 100 * type.amount
    BY DEF WithinTheRight
  <2>1. CASE ReadQueue
    BY <1>1, <2>1, ReadingIsWithin
  <2>2. CASE ~ReadQueue
    BY <1>1, <2>2, UnwarnedStep, FewerUnwarned DEF RightInv
  <2> QED
    BY <2>1, <2>2
<1> QED
  BY <1>1, <1>2 DEF RightInv

LEMMA RightMeans == CalendarAssumption /\ RightInv => NobodyOverrunsUnwarned
<1> SUFFICES ASSUME CalendarAssumption, RightInv, NEW type \in Catalogue, NEW d \in Calendar
    PROVE  LET period == PeriodFor(type, d)
               inside == {r \in Those({"APPROVED"}) : row[r].form.type = type /\ Span(row[r].form) \subseteq period}
           IN (/\ type.amount # Unlimited /\ type.period # "EVENT"
               /\ type.unit = "DAYS_CALENDAR" /\ \A r \in inside : ~Partial(row[r].form)
               /\ SumFunction([r \in inside |-> Amount(row[r].form, type, period)]) > 100 * type.amount)
                 => \E r \in inside : shown[r]
  BY DEF NobodyOverrunsUnwarned
<1> DEFINE period == PeriodFor(type, d)
           inside == {r \in Those({"APPROVED"}) : row[r].form.type = type /\ Span(row[r].form) \subseteq period}
           quiet == Unwarned(type, period)
           f == [r \in inside |-> Amount(row[r].form, type, period)]
           g == [r \in quiet |-> Takes(row[r].form, period)]
<1> SUFFICES ASSUME Limited(type), \A r \in inside : ~Partial(row[r].form), \A r \in inside : ~shown[r]
             PROVE  ~(SumFunctionOnSet(f, inside) > 100 * type.amount)
  BY DEF Limited, SumFunction
<1>1. inside \in SUBSET quiet
  <2> SUFFICES ASSUME NEW r \in inside PROVE r \in quiet
    OBVIOUS
  <2>1. shown[r] \in BOOLEAN /\ ~shown[r]
    BY DEF RightInv, DecidedWasShown, Those
  <2>2. r \in Those(Standing)
    BY DEF Those, Standing
  <2> QED
    BY <2>1, <2>2 DEF Unwarned
<1>2. \A r \in quiet : row[r].form \in Askable /\ ~Partial(row[r].form) /\ r \in Rows
  BY StandingRows DEF Unwarned, RightInv
<1>3. IsFiniteSet(quiet) /\ IsFiniteSet(inside)
  BY <1>1, <1>2, RowsAreFew, FS_Subset
<1>4. \A r \in quiet : g[r] \in Nat
  BY <1>2, TakesIsNatural
<1>5. \A r \in inside : f[r] \in Nat /\ f[r] <= g[r]
  <2> SUFFICES ASSUME NEW r \in inside PROVE f[r] \in Nat /\ f[r] = g[r]
    <3> HIDE DEF f, g, inside
    <3> QED
      OBVIOUS
  <2>1. r \in quiet
    BY <1>1
  <2>2. f[r] = Amount(row[r].form, type, period) /\ g[r] = Takes(row[r].form, period)
    BY <2>1
  <2> QED
    BY <1>2, <2>1, <2>2, AmountIsNatural
<1>6. SumFunctionOnSet(g, quiet) <= 100 * type.amount
  BY DEF RightInv, WithinTheRight
<1>7. 100 * type.amount \in Nat
  BY DEF Limited, CalendarAssumption, LeaveType
<1> HIDE DEF f, g, inside, quiet
<1>8. SumFunctionOnSet(f, inside) <= SumFunctionOnSet(g, quiet)
  BY <1>1, <1>3, <1>4, <1>5, SumGrows
<1>9. SumFunctionOnSet(f, inside) \in Nat /\ SumFunctionOnSet(g, quiet) \in Nat
  BY <1>3, <1>4, <1>5, SumTakesApart DEF TakesApart
<1> QED
  BY <1>6, <1>7, <1>8, <1>9

\* The balance is type correct for any calendar, catalogue of leave, forms and
\* rows, whatever is painted, declared, asked for and decided (absences/services.py,
\* recovery.py).
THEOREM BalanceTypeCorrect == ASSUME CalendarAssumption PROVE BalanceSpec => []BalanceTypeOK
<1>1. BalanceInit => BalanceTypeOK
  BY BalanceInitType
<1>2. BalanceTypeOK /\ [BalanceNext]_balanceVars => BalanceTypeOK'
  BY BalanceNextType
<1> QED
  BY <1>1, <1>2, PTL DEF BalanceSpec

\* However leaves of a right are asked for, shown, granted, refused and taken
\* back, if those granted pass what the right gives in a period, somebody who
\* granted one of them had been warned (leave_over_the_limit).
THEOREM OverrunsAreSeen == ASSUME CalendarAssumption PROVE BalanceSpec => []NobodyOverrunsUnwarned
<1>1. BalanceInit => RightInv
  BY RightInit
<1>2. RightInv /\ [BalanceNext]_balanceVars => RightInv'
  BY RightStep
<1>3. RightInv => NobodyOverrunsUnwarned
  BY RightMeans
<1> QED
  BY <1>1, <1>2, <1>3, PTL DEF BalanceSpec


-----------------------------------------------------------------------------
(* Holiday charged is holiday enjoyed                                       *)

InForce == Those({"APPROVED"})

\* Nobody is away twice, except on sick leave that treads on holiday.
GrantedApart ==
    \A r, s \in InForce :
        r # s /\ Span(row[r].form) \cap Span(row[s].form) # {}
            => MayTread(row[r].form, s) \/ MayTread(row[s].form, r)

\* A note is of the days a granted leave and a granted holiday have in common,
\* and there is one of each such pair.
NotesStand ==
    \A k \in kept : /\ k.holiday \in InForce /\ k.leave \in InForce
                    /\ row[k.leave].form.type.recovers
                    /\ row[k.holiday].form.type.family = "VACATION"
                    /\ ~Partial(row[k.holiday].form)
                    /\ k.first .. k.last = EatenDays(k.leave, k.holiday)
NotesDiffer ==
    \A k, j \in kept : k.holiday = j.holiday /\ k.leave = j.leave => k = j

EnjoyedInv ==
    BalanceTypeOK /\ GrantedApart /\ NotesStand /\ NotesDiffer /\ IsFiniteSet(kept)

LEMMA EnjoyedInit == CalendarAssumption /\ BalanceInit => EnjoyedInv
BY BalanceInitType, FS_EmptySet
   DEF BalanceInit, EnjoyedInv, GrantedApart, NotesStand, NotesDiffer, InForce, Those, There

LEMMA NothingGranted ==
  ASSUME EnjoyedInv, BalanceTypeOK', InForce' = InForce, \A r \in InForce : row'[r] = row[r],
         kept' = kept
  PROVE  EnjoyedInv'
<1>1. GrantedApart'
  BY DEF EnjoyedInv, GrantedApart, MayTread
<1>2. NotesStand'
  BY DEF EnjoyedInv, NotesStand, EatenDays
<1>3. NotesDiffer' /\ IsFiniteSet(kept)'
  BY DEF EnjoyedInv, NotesDiffer
<1> QED
  BY <1>1, <1>2, <1>3 DEF EnjoyedInv

LEMMA DecideKeeps ==
  ASSUME EnjoyedInv, BalanceTypeOK', NEW k \in kept, NEW answer, Decide(k, answer)
  PROVE  EnjoyedInv'
<1> DEFINE n == [k EXCEPT !.status = answer]
<1>1. k \in RecoveredHoliday
  BY DEF EnjoyedInv, BalanceTypeOK
<1>2. /\ n.holiday = k.holiday /\ n.leave = k.leave /\ n.first = k.first /\ n.last = k.last
  BY <1>1 DEF RecoveredHoliday
<1> HIDE DEF n
<1>3. kept' = (kept \ {k}) \cup {n} /\ row' = row
  BY DEF Decide, n
<1>4. GrantedApart' /\ InForce' = InForce
  BY <1>3 DEF EnjoyedInv, GrantedApart, MayTread, InForce, Those, There
<1>5. NotesStand'
  BY <1>2, <1>3, <1>4 DEF EnjoyedInv, NotesStand, EatenDays
<1>6. NotesDiffer'
  BY <1>2, <1>3 DEF EnjoyedInv, NotesDiffer
<1>7. IsFiniteSet(kept')
  <2>1. IsFiniteSet(kept \ {k})
    BY FS_RemoveElement DEF EnjoyedInv
  <2> QED
    BY <1>3, <2>1, FS_AddElement
<1> QED
  BY <1>4, <1>5, <1>6, <1>7 DEF EnjoyedInv

LEMMA DetectedAreFew ==
  ASSUME CalendarAssumption, NEW r \in Rows
  PROVE  /\ IsFiniteSet(Detected(r))
         /\ \A k, j \in Detected(r) : k.holiday = j.holiday => k = j
<1> DEFINE H == {x \in InForce : row[x].form.type.family = "VACATION"
                   /\ ~Partial(row[x].form) /\ EatenDays(r, x) # {}
                   /\ Counted(EatenDays(r, x), WorkingUnit) # {}}
           note(h) == [holiday |-> h, leave |-> r, first |-> Min(EatenDays(r, h)),
                       last |-> Max(EatenDays(r, h)),
                       days |-> Cardinality(Counted(EatenDays(r, h), WorkingUnit)),
                       status |-> "PENDING"]
           notes == [h \in H |-> note(h)]
<1>1. Detected(r) = {note(h) : h \in H}
  BY DEF Detected, InForce
<1>2. IsFiniteSet(H)
  BY RowsAreFew DEF InForce, Those
<1>3. \A h \in H : notes[h] = note(h) /\ notes[h].holiday = h
  OBVIOUS
<1>4. notes \in Surjection(H, Detected(r))
  <2>1. Detected(r) = {notes[h] : h \in H}
    BY <1>1, <1>3
  <2>2. notes \in [H -> {notes[h] : h \in H}]
    OBVIOUS
  <2> HIDE DEF notes, H
  <2> QED
    BY <2>1, <2>2 DEF Surjection
<1>5. IsFiniteSet(Detected(r))
  <2> HIDE DEF notes, H
  <2> QED
    BY <1>2, <1>4, FS_Surjection
<1>6. \A k, j \in Detected(r) : k.holiday = j.holiday => k = j
  BY <1>1
<1> QED
  BY <1>5, <1>6

LEMMA GrantKeeps ==
  ASSUME CalendarAssumption, EnjoyedInv, BalanceTypeOK', NEW r \in Rows, Grant(r)
  PROVE  EnjoyedInv'
<1>1. /\ row[r] \in Filed /\ There(r) /\ row[r].status = "PENDING"
      /\ row'[r] = [row[r] EXCEPT !.status = "APPROVED"]
      /\ \A x \in Rows : x # r => row'[x] = row[x]
  BY RowTypes DEF Grant, EnjoyedInv, BalanceTypeOK
<1>2. /\ row'[r].form = row[r].form /\ row'[r].status = "APPROVED" /\ row'[r] \in Filed
      /\ \A x \in Rows : row'[x].form = row[x].form
  BY <1>1 DEF Filed
<1>3. row'[r] # Unset
  BY <1>2 DEF CalendarAssumption
<1>4. r \notin InForce /\ InForce' = InForce \cup {r} /\ InForce \subseteq Rows
  BY <1>1, <1>2, <1>3 DEF InForce, Those, There
<1>5. \A s \in InForce :
         Span(row[r].form) \cap Span(row[s].form) # {} => MayTread(row[r].form, s)
  BY DEF Grant, OnThoseDays, InForce
<1>6. \A x \in Rows, y \in Rows : EatenDays(x, y)' = EatenDays(x, y)
  BY <1>2 DEF EatenDays
<1>7. GrantedApart'
  <2> SUFFICES \A x, y \in InForce' :
                  x # y /\ Span(row[x].form) \cap Span(row[y].form) # {}
                      => MayTread(row[x].form, y) \/ MayTread(row[y].form, x)
    <3>1. \A x, y \in InForce' : row'[x].form = row[x].form /\ row'[y].form = row[y].form
      BY <1>2, <1>4
    <3> QED
      BY <3>1 DEF GrantedApart, MayTread
  <2> TAKE x, y \in InForce'
  <2> HAVE x # y /\ Span(row[x].form) \cap Span(row[y].form) # {}
  <2>1. CASE x \in InForce /\ y \in InForce
    BY <2>1 DEF EnjoyedInv, GrantedApart
  <2>2. CASE x = r
    BY <1>4, <1>5, <2>2
  <2>3. CASE y = r
    BY <1>4, <1>5, <2>3
  <2> QED
    BY <1>4, <2>1, <2>2, <2>3
<1>8. kept' = IF row[r].form.type.recovers THEN kept \cup Detected(r) ELSE kept
  BY DEF Grant
<1>9. /\ Detected(r) \subseteq RecoveredHoliday
      /\ \A k \in Detected(r) :
            /\ k.leave = r /\ k.holiday \in InForce
            /\ row[k.holiday].form.type.family = "VACATION" /\ ~Partial(row[k.holiday].form)
            /\ k.first .. k.last = EatenDays(r, k.holiday)
  BY <1>1, NoteTypes DEF EnjoyedInv, InForce
<1>10. NotesStand'
  <2> SUFFICES ASSUME NEW k \in kept'
               PROVE  /\ k.holiday \in InForce' /\ k.leave \in InForce'
                      /\ row[k.leave].form.type.recovers
                      /\ row[k.holiday].form.type.family = "VACATION"
                      /\ ~Partial(row[k.holiday].form)
                      /\ k.first .. k.last = EatenDays(k.leave, k.holiday)
    BY <1>2, <1>4, <1>6 DEF NotesStand
  <2>1. CASE k \in kept
    BY <1>4, <2>1 DEF EnjoyedInv, NotesStand
  <2>2. CASE k \notin kept
    BY <1>4, <1>8, <1>9, <2>2
  <2> QED
    BY <2>1, <2>2
<1>11. NotesDiffer'
  <2>1. \A k \in kept : k.leave \in InForce
    BY DEF EnjoyedInv, NotesStand
  <2>2. \A k, j \in Detected(r) : k.holiday = j.holiday => k = j
    BY DetectedAreFew
  <2> QED
    BY <1>4, <1>8, <1>9, <2>1, <2>2 DEF EnjoyedInv, NotesDiffer
<1>12. IsFiniteSet(kept')
  BY <1>8, DetectedAreFew, FS_Union DEF EnjoyedInv
<1> QED
  BY <1>7, <1>10, <1>11, <1>12 DEF EnjoyedInv

LEMMA EnjoyedStep ==
  ASSUME CalendarAssumption, EnjoyedInv, [BalanceNext]_balanceVars
  PROVE  EnjoyedInv'
<1>1. BalanceTypeOK'
  BY BalanceNextType DEF EnjoyedInv
<1>2. CASE UNCHANGED <<row, kept>>
  BY <1>1, <1>2, NothingGranted DEF InForce, Those, There
<1>3. ASSUME NEW d \in Calendar, Paint(d) \/ Declare(d) PROVE EnjoyedInv'
  BY <1>2, <1>3 DEF Paint, Declare
<1>4. ASSUME NEW r \in Rows, NEW form \in Askable, Request(r, form) PROVE EnjoyedInv'
  <2>1. /\ row'[r].status = "PENDING" /\ ~There(r) /\ kept' = kept
        /\ \A x \in Rows : x # r => row'[x] = row[x]
    BY <1>4 DEF Request, EnjoyedInv, BalanceTypeOK
  <2>2. InForce' = InForce /\ r \notin InForce /\ InForce \subseteq Rows
    BY <2>1 DEF InForce, Those, There
  <2> QED
    BY <1>1, <2>1, <2>2, NothingGranted
<1>5. ASSUME NEW r \in Rows, Close(r) PROVE EnjoyedInv'
  <2>1. /\ row'[r].status = "CLOSED" /\ row[r].status = "PENDING" /\ kept' = kept
        /\ \A x \in Rows : x # r => row'[x] = row[x]
    BY <1>5, RowTypes DEF Close, EnjoyedInv, BalanceTypeOK, Filed
  <2>2. InForce' = InForce /\ r \notin InForce /\ InForce \subseteq Rows
    BY <2>1 DEF InForce, Those, There
  <2> QED
    BY <1>1, <2>1, <2>2, NothingGranted
<1>6. ASSUME NEW r \in Rows, Grant(r) PROVE EnjoyedInv'
  BY <1>1, <1>6, GrantKeeps
<1>7. ASSUME NEW k \in kept, NEW answer \in {"CONFIRMED", "DISMISSED"}, Decide(k, answer)
      PROVE  EnjoyedInv'
  BY <1>1, <1>7, DecideKeeps
<1>8. CASE ReadQueue
  BY <1>2, <1>8 DEF ReadQueue
<1> QED
  BY <1>2, <1>3, <1>4, <1>5, <1>6, <1>7, <1>8 DEF BalanceNext, balanceVars

\* Two holidays have no day in common, and neither have two leaves that give
\* holiday back.
LEMMA HolidaysDoNotMeet ==
  ASSUME CalendarAssumption, HolidayGivesNothingBack, EnjoyedInv
  PROVE  \A r, s \in InForce :
            r # s /\ row[r].form.type.family = "VACATION" /\ row[s].form.type.family = "VACATION"
              => Span(row[r].form) \cap Span(row[s].form) = {}
<1> TAKE r, s \in InForce
<1>1. row[r].form \in Askable /\ row[s].form \in Askable
  BY RowTypes DEF InForce, Those, EnjoyedInv
<1> QED
  BY <1>1 DEF EnjoyedInv, GrantedApart, MayTread, HolidayGivesNothingBack

LEMMA RecoveriesDoNotMeet ==
  ASSUME CalendarAssumption, HolidayGivesNothingBack, EnjoyedInv
  PROVE  \A r, s \in InForce :
            r # s /\ row[r].form.type.recovers /\ row[s].form.type.recovers
              => Span(row[r].form) \cap Span(row[s].form) = {}
<1> TAKE r, s \in InForce
<1>1. row[r].form \in Askable /\ row[s].form \in Askable
  BY RowTypes DEF InForce, Those, EnjoyedInv
<1> QED
  BY <1>1 DEF EnjoyedInv, GrantedApart, MayTread, HolidayGivesNothingBack

\* What the holidays of a year are charged, and what their notes give back, are
\* both sizes of sets of days.
LEMMA ChargedDays ==
  ASSUME CalendarAssumption, HolidayGivesNothingBack, EnjoyedInv, NEW period
  PROVE  LET all == Counted((UNION {Span(row[r].form) : r \in Holidays({"APPROVED"}, period)}) \cap period,
                            WorkingUnit)
         IN IsFiniteSet(all) /\ Cost({"APPROVED"}, period) = Cardinality(all)
<1> DEFINE H == Holidays({"APPROVED"}, period)
           A == [r \in H |-> Counted(Span(row[r].form) \cap period, WorkingUnit)]
           all == Counted((UNION {Span(row[r].form) : r \in H}) \cap period, WorkingUnit)
<1>1. /\ H \subseteq InForce /\ H \subseteq Rows /\ IsFiniteSet(H)
      /\ \A r \in H : row[r].form \in Askable /\ row[r].form.type.family = "VACATION" /\ ~Partial(row[r].form)
  <2>1. H \subseteq InForce /\ InForce \subseteq Rows
    BY DEF Holidays, InForce, Those
  <2>2. \A r \in H : row[r].form \in Askable
    BY RowTypes DEF Holidays, Those, EnjoyedInv
  <2> QED
    BY <2>1, <2>2, RowsAreFew DEF Holidays
<1>2. \A r \in H : IsFiniteSet(A[r])
  <2> SUFFICES ASSUME NEW r \in H PROVE IsFiniteSet(A[r])
    OBVIOUS
  <2>1. A[r] \in SUBSET Span(row[r].form)
    BY DEF Counted
  <2> QED
    BY <1>1, <2>1, Countable
<1>3. \A r, s \in H : r # s => A[r] \cap A[s] = {}
  <2> SUFFICES ASSUME NEW r \in H, NEW s \in H, r # s PROVE A[r] \cap A[s] = {}
    OBVIOUS
  <2>1. Span(row[r].form) \cap Span(row[s].form) = {}
    BY <1>1, HolidaysDoNotMeet
  <2> QED
    BY <2>1 DEF Counted
<1>4. UNION {A[r] : r \in H} = all
  BY DEF Counted
<1>5. Cost({"APPROVED"}, period) = SumFunctionOnSet([r \in H |-> Cardinality(A[r])], H)
  <2>1. [r \in H |-> DaysWithin(row[r].form, period, WorkingUnit)] = [r \in H |-> Cardinality(A[r])]
    BY DEF DaysWithin
  <2> QED
    BY <2>1 DEF Cost, SumFunction
<1>6. IsFiniteSet(UNION {A[r] : r \in H})
      /\ SumFunctionOnSet([r \in H |-> Cardinality(A[r])], H) = Cardinality(UNION {A[r] : r \in H})
  <2> HIDE DEF H, A
  <2>1. Apart(H, A)
    BY <1>1, <1>2, <1>3 DEF Apart
  <2>2. SizesAdd(H, A)
    BY <2>1, SumOfSizes
  <2> QED
    BY <2>2 DEF SizesAdd
<1> QED
  BY <1>4, <1>5, <1>6

LEMMA GivenBackDays ==
  ASSUME CalendarAssumption, HolidayGivesNothingBack, EnjoyedInv, NEW period,
         \A k \in Confirmed(period) : k.first .. k.last \subseteq period /\ StillCostsTheSame(k)
  PROVE  LET eaten == Counted(UNION {k.first .. k.last : k \in Confirmed(period)}, WorkingUnit)
         IN IsFiniteSet(eaten) /\ Recovered(period) = Cardinality(eaten)
<1> DEFINE C == Confirmed(period)
           B == [k \in C |-> Counted(k.first .. k.last, WorkingUnit)]
           eaten == Counted(UNION {k.first .. k.last : k \in C}, WorkingUnit)
<1>1. C \subseteq kept /\ IsFiniteSet(C)
  BY FS_Subset DEF Confirmed, EnjoyedInv
<1>2. \A k \in C : IsFiniteSet(B[k])
  <2> SUFFICES ASSUME NEW k \in C PROVE IsFiniteSet(B[k])
    OBVIOUS
  <2>1. k.first \in Int /\ k.last \in Int
    BY <1>1 DEF EnjoyedInv, BalanceTypeOK, RecoveredHoliday, Calendar
  <2>2. B[k] \subseteq k.first .. k.last
    BY DEF Counted
  <2> QED
    BY <2>1, <2>2, FS_Interval, FS_Subset
<1>3. \A k, j \in C : k # j => B[k] \cap B[j] = {}
  <2> SUFFICES ASSUME NEW k \in C, NEW j \in C, k # j, NEW x \in B[k] \cap B[j] PROVE FALSE
    OBVIOUS
  <2>1. x \in EatenDays(k.leave, k.holiday) /\ x \in EatenDays(j.leave, j.holiday)
    BY <1>1 DEF Counted, EnjoyedInv, NotesStand
  <2>2. k.holiday = j.holiday
    <3>1. /\ k.holiday \in InForce /\ j.holiday \in InForce
          /\ row[k.holiday].form.type.family = "VACATION" /\ row[j.holiday].form.type.family = "VACATION"
      BY <1>1 DEF EnjoyedInv, NotesStand
    <3> QED
      <4>1. Span(row[k.holiday].form) \cap Span(row[j.holiday].form) # {}
        BY <2>1 DEF EatenDays
      <4> QED
        BY <3>1, <4>1, HolidaysDoNotMeet
  <2>3. k.leave = j.leave
    <3>1. /\ k.leave \in InForce /\ j.leave \in InForce
          /\ row[k.leave].form.type.recovers /\ row[j.leave].form.type.recovers
      BY <1>1 DEF EnjoyedInv, NotesStand
    <3>2. Span(row[k.leave].form) \cap Span(row[j.leave].form) # {}
      BY <2>1 DEF EatenDays
    <3> QED
      BY <3>1, <3>2, RecoveriesDoNotMeet
  <2> QED
    BY <1>1, <2>2, <2>3 DEF EnjoyedInv, NotesDiffer
<1>4. UNION {B[k] : k \in C} = eaten
  BY DEF Counted
<1>5. Recovered(period) = SumFunctionOnSet([k \in C |-> Cardinality(B[k])], C)
  <2>1. [k \in C |-> k.days] = [k \in C |-> Cardinality(B[k])]
    BY DEF StillCostsTheSame
  <2> QED
    BY <2>1 DEF Recovered, SumFunction, Confirmed
<1>6. IsFiniteSet(UNION {B[k] : k \in C})
      /\ SumFunctionOnSet([k \in C |-> Cardinality(B[k])], C) = Cardinality(UNION {B[k] : k \in C})
  <2> HIDE DEF C, B
  <2>1. Apart(C, B)
    BY <1>1, <1>2, <1>3 DEF Apart
  <2>2. SizesAdd(C, B)
    BY <2>1, SumOfSizes
  <2> QED
    BY <2>2 DEF SizesAdd
<1> QED
  BY <1>4, <1>5, <1>6

LEMMA MaxOfNatural ==
  ASSUME NEW n \in Nat
  PROVE  Max({0, n}) = n
<1>1. n \in {0, n} /\ \A y \in {0, n} : n >= y
  OBVIOUS
<1>2. \A x \in {0, n} : (\A y \in {0, n} : x >= y) => x = n
  OBVIOUS
<1> QED
  BY <1>1, <1>2 DEF Max

LEMMA EnjoyedMeans == CalendarAssumption /\ HolidayGivesNothingBack /\ EnjoyedInv => HolidayChargedIsHolidayEnjoyed
<1> SUFFICES ASSUME CalendarAssumption, HolidayGivesNothingBack, EnjoyedInv, NEW period \in LeaveYears,
                    \A k \in Confirmed(period) : k.first .. k.last \subseteq period /\ StillCostsTheSame(k)
    PROVE  LET granted == UNION {Span(row[r].form) : r \in Holidays({"APPROVED"}, period)}
               eaten   == UNION {k.first .. k.last : k \in Confirmed(period)}
           IN Taken(period) = Cardinality(Counted((granted \ eaten) \cap period, WorkingUnit))
  BY DEF HolidayChargedIsHolidayEnjoyed
<1> DEFINE granted == UNION {Span(row[r].form) : r \in Holidays({"APPROVED"}, period)}
           eaten   == UNION {k.first .. k.last : k \in Confirmed(period)}
           G == Counted(granted \cap period, WorkingUnit)
           E == Counted(eaten, WorkingUnit)
<1>1. IsFiniteSet(G) /\ Cost({"APPROVED"}, period) = Cardinality(G)
  BY ChargedDays
<1>2. IsFiniteSet(E) /\ Recovered(period) = Cardinality(E)
  BY GivenBackDays
<1>3. eaten \subseteq granted \cap period
  <2> SUFFICES ASSUME NEW k \in Confirmed(period), NEW x \in k.first .. k.last
               PROVE  x \in granted \cap period
    OBVIOUS
  <2>1. /\ k \in kept /\ (k.first .. k.last) \cap period # {} /\ k.first .. k.last \subseteq period
    BY DEF Confirmed
  <2>2. /\ k.holiday \in InForce /\ row[k.holiday].form.type.family = "VACATION"
        /\ ~Partial(row[k.holiday].form) /\ k.first .. k.last \subseteq Span(row[k.holiday].form)
    BY <2>1 DEF EnjoyedInv, NotesStand, EatenDays
  <2>3. k.holiday \in Holidays({"APPROVED"}, period)
    BY <2>1, <2>2 DEF Holidays, InForce, Meets
  <2> QED
    BY <2>1, <2>2, <2>3
<1>4. E \subseteq G /\ Counted((granted \ eaten) \cap period, WorkingUnit) = G \ E
  BY <1>3 DEF Counted
<1> HIDE DEF G, E, granted, eaten
<1>5. Cardinality(G \ E) = Cardinality(G) - Cardinality(E) /\ Cardinality(G \ E) \in Nat
  <2>1. Cardinality(G \ E) = Cardinality(G) - Cardinality(G \cap E) /\ IsFiniteSet(G \ E)
    BY <1>1, FS_Difference
  <2>2. G \cap E = E
    BY <1>4
  <2> QED
    BY <2>1, <2>2, FS_CardinalityType
<1>6. Taken(period) = Cardinality(G \ E)
  BY <1>1, <1>2, <1>5, MaxOfNatural DEF Taken
<1> QED
  BY <1>4, <1>6 DEF granted, eaten

\* As long as no holiday gives holiday back, the holiday a year is charged for is
\* the holiday enjoyed in it, whatever treads on it and in whatever order leave
\* is granted and the days it ate are confirmed (vacation_balance, recovered_days).
THEOREM HolidayIsChargedOnce ==
  ASSUME CalendarAssumption, HolidayGivesNothingBack
  PROVE  BalanceSpec => []HolidayChargedIsHolidayEnjoyed
<1>1. BalanceInit => EnjoyedInv
  BY EnjoyedInit
<1>2. EnjoyedInv /\ [BalanceNext]_balanceVars => EnjoyedInv'
  BY EnjoyedStep
<1>3. EnjoyedInv => HolidayChargedIsHolidayEnjoyed
  BY EnjoyedMeans
<1> QED
  BY <1>1, <1>2, <1>3, PTL DEF BalanceSpec

-----------------------------------------------------------------------------
(* Reading a register from its first event to its last                      *)

\* Of some whole numbers there is a least one.
LEMMA LeastNumber ==
  ASSUME NEW T \in SUBSET Nat, T # {}
  PROVE  \E x \in T : \A y \in T : x <= y
<1>1. PICK n \in T : TRUE
  OBVIOUS
<1> DEFINE Range0 == 0 .. n
           Below == {0 .. x : x \in {y \in T : y <= n}}
<1>2. Below \in SUBSET (SUBSET Range0) /\ Below # {} /\ IsFiniteSet(Range0)
  <2>1. IsFiniteSet(Range0)
    BY <1>1, FS_Interval
  <2>2. \A x \in T : x <= n => 0 .. x \subseteq Range0
    BY <1>1
  <2>3. 0 .. n \in Below
    <3>1. n \in {y \in T : y <= n}
      BY <1>1
    <3> QED
      BY <3>1
  <2> QED
    BY <2>1, <2>2, <2>3
<1>3. PICK s \in Below : \A u \in Below : ~(u \subseteq s /\ u # s)
  <2> HIDE DEF Below, Range0
  <2> QED
    BY <1>2, LeastSubset
<1>4. PICK x \in T : x <= n /\ s = 0 .. x
  OBVIOUS
<1> SUFFICES ASSUME NEW y \in T, y < x PROVE FALSE
  BY <1>4
<1>5. 0 .. y \subseteq 0 .. x /\ 0 .. y # 0 .. x /\ 0 .. y \in Below
  BY <1>4
<1> QED
  BY <1>3, <1>4, <1>5

\* One turn of either loop, and where it begins.
Blank(loop) == IF loop = "days" THEN [day |-> {}, since |-> None] ELSE Unpaired
OneTurn(loop, acc, e) == IF loop = "days" THEN AssignOne(acc, e) ELSE PairOne(acc, e)

LastPlace(s) == Max(s)
TurnOf(loop, seq, g, s) ==
    IF s = {} THEN Blank(loop)
    ELSE OneTurn(loop, g[s \ {LastPlace(s)}], seq[LastPlace(s)])
TurnsOf(loop, seq, s) == CHOOSE g : g = [t \in SUBSET s |-> TurnOf(loop, seq, g, t)]
ReadAt(loop, seq, s) == TurnsOf(loop, seq, s)[s]

LEMMA DaysAreRead == ASSUME NEW seq PROVE FoldLeft(AssignOne, Blank("days"), seq) = ReadAt("days", seq, DOMAIN seq)
BY DEF FoldLeft, MapThenFoldSet, ReadAt, TurnsOf, TurnOf, OneTurn, LastPlace

LEMMA HoursAreRead == ASSUME NEW seq PROVE FoldLeft(PairOne, Blank("hours"), seq) = ReadAt("hours", seq, DOMAIN seq)
BY DEF FoldLeft, MapThenFoldSet, ReadAt, TurnsOf, TurnOf, OneTurn, LastPlace

\* The community module's recursion is one: its equation has a solution.
FollowsOn(loop, seq, s) ==
    ReadAt(loop, seq, s) =
        IF s = {} THEN Blank(loop)
        ELSE OneTurn(loop, ReadAt(loop, seq, s \ {LastPlace(s)}), seq[LastPlace(s)])

LEMMA OneFollowsOn ==
  ASSUME NEW loop, NEW seq, NEW s, IsFiniteSet(s),
         \A t \in SUBSET s : t # {} => LastPlace(t) \in t,
         \A t \in SUBSET s : t # s => FollowsOn(loop, seq, t)
  PROVE  FollowsOn(loop, seq, s)
<1> DEFINE Shorter(t) == t \ {LastPlace(t)}
           Reads == [t \in SUBSET s |->
                       IF t = {} THEN Blank(loop)
                       ELSE OneTurn(loop, ReadAt(loop, seq, Shorter(t)), seq[LastPlace(t)])]
           Turns == TurnsOf(loop, seq, s)
<1>1. \A t \in SUBSET s : t # {} => Shorter(t) \in SUBSET s /\ Shorter(t) # s /\ Shorter(t) # t
  OBVIOUS
<1>2. \A t \in SUBSET s : t # s => Reads[t] = ReadAt(loop, seq, t)
  BY DEF FollowsOn
<1>3. Reads = [t \in SUBSET s |-> TurnOf(loop, seq, Reads, t)]
  <2>1. \A t \in SUBSET s : Reads[t] = TurnOf(loop, seq, Reads, t)
    BY <1>1, <1>2 DEF TurnOf
  <2> QED
    BY <2>1
<1>4. Turns = [t \in SUBSET s |-> TurnOf(loop, seq, Turns, t)]
  <2> HIDE DEF Reads
  <2> QED
    BY <1>3 DEF TurnsOf
<1> HIDE DEF Turns
<1>5. \A t \in SUBSET s : t # s => Turns[t] = ReadAt(loop, seq, t)
  <2> DEFINE Wrong == {t \in SUBSET s : t # s /\ Turns[t] # ReadAt(loop, seq, t)}
  <2> SUFFICES ASSUME Wrong # {} PROVE FALSE
    OBVIOUS
  <2>1. PICK t \in Wrong : \A u \in Wrong : ~(u \subseteq t /\ u # t)
    <3>1. Wrong \in SUBSET (SUBSET s)
      OBVIOUS
    <3> HIDE DEF Wrong
    <3> QED
      BY <3>1, LeastSubset
  <2>2. Turns[t] = TurnOf(loop, seq, Turns, t)
    BY <1>4
  <2>3. CASE t = {}
    BY <2>1, <2>2, <2>3 DEF TurnOf, FollowsOn
  <2>4. CASE t # {}
    <3>1. Shorter(t) \in SUBSET s /\ Shorter(t) # s /\ Shorter(t) # t /\ Shorter(t) \subseteq t
      BY <1>1, <2>4
    <3>2. Turns[Shorter(t)] = ReadAt(loop, seq, Shorter(t))
      BY <2>1, <3>1
    <3> QED
      BY <2>1, <2>2, <2>4, <3>2 DEF TurnOf, FollowsOn
  <2> QED
    BY <2>3, <2>4
<1>6. Turns[s] = TurnOf(loop, seq, Turns, s)
  BY <1>4
<1>7. ReadAt(loop, seq, s) = Turns[s]
  BY DEF ReadAt, Turns
<1> QED
  BY <1>1, <1>5, <1>6, <1>7 DEF TurnOf, FollowsOn

LEMMA ReadingFollowsOn ==
  ASSUME NEW loop, NEW seq, NEW s, IsFiniteSet(s),
         \A t \in SUBSET s : t # {} => LastPlace(t) \in t
  PROVE  FollowsOn(loop, seq, s)
<1> SUFFICES ASSUME ~FollowsOn(loop, seq, s) PROVE FALSE
  OBVIOUS
<1> DEFINE Wrong == {t \in SUBSET s : ~FollowsOn(loop, seq, t)}
<1>1. Wrong \in SUBSET (SUBSET s) /\ Wrong # {}
  OBVIOUS
<1>2. PICK t \in Wrong : \A u \in Wrong : ~(u \subseteq t /\ u # t)
  <2> HIDE DEF Wrong
  <2> QED
    BY <1>1, LeastSubset
<1>3. \A u \in SUBSET t : u # t => FollowsOn(loop, seq, u)
  BY <1>2
<1>4. IsFiniteSet(t)
  BY <1>2, FS_Subset
<1> QED
  BY <1>2, <1>3, <1>4, OneFollowsOn

LEMMA LastOfTheFirst ==
  ASSUME NEW n \in Nat, NEW t \in SUBSET (1 .. n), t # {}
  PROVE  LastPlace(t) \in t /\ \A x \in t : x <= LastPlace(t)
<1> DEFINE FromTheEnd == {n - x : x \in t}
<1>0. \A x \in t : x \in Int /\ n - x \in Nat
  OBVIOUS
<1>1. FromTheEnd \in SUBSET Nat /\ FromTheEnd # {}
  BY <1>0
<1>2. PICK y \in FromTheEnd : \A z \in FromTheEnd : y <= z
  <2> HIDE DEF FromTheEnd
  <2> QED
    BY <1>1, LeastNumber
<1>3. PICK x \in t : y = n - x
  OBVIOUS
<1>4. \A z \in t : z <= x
  <2> SUFFICES ASSUME NEW z \in t PROVE z <= x
    OBVIOUS
  <2>1. y <= n - z
    BY <1>2
  <2> QED
    BY <1>0, <1>3, <2>1
<1> QED
  BY <1>4 DEF LastPlace, Max

\* The reading of the first k events goes on with the next.
LEMMA NextTurn ==
  ASSUME NEW loop, NEW seq, NEW k \in Nat
  PROVE  /\ ReadAt(loop, seq, {}) = Blank(loop)
         /\ ReadAt(loop, seq, 1 .. k + 1) = OneTurn(loop, ReadAt(loop, seq, 1 .. k), seq[k + 1])
<1>1. FollowsOn(loop, seq, {})
  BY ReadingFollowsOn, FS_EmptySet
<1>2. PICK n \in Nat : n = k + 1
  OBVIOUS
<1>3. \A t \in SUBSET (1 .. n) : t # {} => LastPlace(t) \in t /\ \A x \in t : x <= LastPlace(t)
  BY LastOfTheFirst
<1>4. FollowsOn(loop, seq, 1 .. n)
  <2>1. IsFiniteSet(1 .. n)
    BY FS_Interval
  <2> QED
    BY <1>3, <2>1, ReadingFollowsOn
<1>5. LastPlace(1 .. n) = n
  <2>1. 1 .. n # {} /\ n \in 1 .. n
    BY <1>2
  <2>2. LastPlace(1 .. n) \in 1 .. n /\ n <= LastPlace(1 .. n)
    BY <1>3, <2>1
  <2> QED
    BY <2>2
<1>6. (1 .. n) \ {n} = 1 .. k /\ 1 .. n # {}
  BY <1>2
<1> QED
  BY <1>1, <1>2, <1>4, <1>5, <1>6 DEF FollowsOn

-----------------------------------------------------------------------------
(* The order of a register: no two of its events are of the same moment      *)

Readable(R) ==
    /\ R \subseteq [at : Nat, interval : Intervals, type : Types] /\ IsFiniteSet(R)
    /\ \A e, f \in R : e.at = f.at => e = f

Rank(R, e)   == Cardinality(Earlier(R, e))
Firsts(R, k) == {e \in R : Rank(R, e) < k}

LEMMA EventFields == ASSUME NEW R, Readable(R), NEW e \in R PROVE e.at \in Nat /\ e.interval \in Intervals /\ e.type \in Types
BY DEF Readable

LEMMA PartIsReadable == ASSUME NEW R, Readable(R), NEW S \in SUBSET R PROVE Readable(S)
BY FS_Subset DEF Readable

LEMMA Ranks ==
  ASSUME NEW R, Readable(R)
  PROVE  /\ Cardinality(R) \in Nat
         /\ \A e \in R : Rank(R, e) \in 0 .. Cardinality(R) - 1
         /\ \A e, f \in R : e.at < f.at => Rank(R, e) < Rank(R, f)
<1>1. Cardinality(R) \in Nat /\ IsFiniteSet(R)
  BY FS_CardinalityType DEF Readable
<1>2. \A e \in R : /\ Earlier(R, e) \in SUBSET R /\ e \notin Earlier(R, e)
                   /\ IsFiniteSet(Earlier(R, e)) /\ Rank(R, e) \in Nat
  <2> SUFFICES ASSUME NEW e \in R
               PROVE  /\ Earlier(R, e) \in SUBSET R /\ e \notin Earlier(R, e)
                      /\ IsFiniteSet(Earlier(R, e)) /\ Rank(R, e) \in Nat
    OBVIOUS
  <2>1. Earlier(R, e) \in SUBSET R /\ e \notin Earlier(R, e)
    BY EventFields DEF Earlier
  <2>2. IsFiniteSet(Earlier(R, e))
    BY <1>1, <2>1, FS_Subset
  <2> QED
    BY <2>1, <2>2, FS_CardinalityType DEF Rank
<1>3. \A e \in R : Rank(R, e) \in 0 .. Cardinality(R) - 1
  <2> SUFFICES ASSUME NEW e \in R PROVE Rank(R, e) \in 0 .. Cardinality(R) - 1
    OBVIOUS
  <2>1. Rank(R, e) <= Cardinality(R) /\ Rank(R, e) # Cardinality(R)
    BY <1>1, <1>2, FS_Subset DEF Rank
  <2> QED
    BY <1>1, <1>2, <2>1
<1>4. \A e, f \in R : e.at < f.at => Rank(R, e) < Rank(R, f)
  <2> SUFFICES ASSUME NEW e \in R, NEW f \in R, e.at < f.at PROVE Rank(R, e) < Rank(R, f)
    OBVIOUS
  <2>1. Earlier(R, e) \in SUBSET Earlier(R, f) /\ e \in Earlier(R, f)
    BY EventFields DEF Earlier
  <2>2. Rank(R, e) <= Rank(R, f) /\ Rank(R, f) # Rank(R, e)
    BY <1>2, <2>1, FS_Subset DEF Rank
  <2> QED
    BY <1>2, <2>2
<1> QED
  BY <1>1, <1>3, <1>4

\* Every place of the order is somebody's.
LEMMA EveryPlaceIsTaken ==
  ASSUME NEW R, Readable(R), NEW k \in Nat, k < Cardinality(R)
  PROVE  \E e \in R : Rank(R, e) = k
<1> DEFINE n == Cardinality(R)
           Places == 0 .. n - 1
           Place == [e \in R |-> Rank(R, e)]
<1>1. n \in Nat /\ \A e \in R : Rank(R, e) \in Places
  BY Ranks
<1>2. IsFiniteSet(Places) /\ Cardinality(Places) = n
  <2>1. n - 1 \in Int /\ (IF 0 > n - 1 THEN 0 ELSE n - 1 - 0 + 1) = n
    BY <1>1
  <2> QED
    BY <2>1, FS_Interval
<1>3. Place \in Injection(R, Places)
  <2>1. \A e, f \in R : Rank(R, e) = Rank(R, f) => e = f
    <3> SUFFICES ASSUME NEW e \in R, NEW f \in R, Rank(R, e) = Rank(R, f) PROVE e = f
      OBVIOUS
    <3>1. ~(e.at < f.at) /\ ~(f.at < e.at)
      BY <1>1, Ranks
    <3> QED
      BY <3>1, EventFields DEF Readable
  <2>2. Place \in [R -> Places]
    BY <1>1
  <2> QED
    BY <2>1, <2>2 DEF Injection, IsInjective
<1>4. Place \in Surjection(R, Places)
  <2> HIDE DEF Place, Places
  <2> QED
    BY <1>2, <1>3, FS_Injection
<1>5. k \in Places
  BY <1>1
<1> QED
  BY <1>4, <1>5 DEF Surjection

LEMMA TheOrder ==
  ASSUME NEW R, Readable(R)
  PROVE  /\ DOMAIN InOrder(R) = 1 .. Cardinality(R)
         /\ Firsts(R, 0) = {} /\ Firsts(R, Cardinality(R)) = R
         /\ \A k \in Nat : k < Cardinality(R) =>
               LET e == InOrder(R)[k + 1] IN
               /\ e \in R /\ Earlier(R, e) = Firsts(R, k) /\ e \notin Firsts(R, k)
               /\ Firsts(R, k + 1) = Firsts(R, k) \cup {e}
<1>1. DOMAIN InOrder(R) = 1 .. Cardinality(R)
  BY DEF InOrder
<1>2. Firsts(R, 0) = {} /\ Firsts(R, Cardinality(R)) = R
  BY Ranks DEF Firsts
<1>3. ASSUME NEW k \in Nat, k < Cardinality(R), NEW e, e = InOrder(R)[k + 1]
      PROVE  /\ e \in R /\ Earlier(R, e) = Firsts(R, k) /\ e \notin Firsts(R, k)
             /\ Firsts(R, k + 1) = Firsts(R, k) \cup {e}
  <2>1. k + 1 \in 1 .. Cardinality(R) /\ (k + 1) - 1 = k
    BY <1>3, Ranks
  <2>2. e = CHOOSE x \in R : Rank(R, x) = k
    BY <1>3, <2>1 DEF InOrder, Rank
  <2>3. e \in R /\ Rank(R, e) = k
    BY <1>3, <2>2, EveryPlaceIsTaken
  <2>4. \A x \in R : x.at < e.at <=> Rank(R, x) < k
    <3> SUFFICES ASSUME NEW x \in R PROVE x.at < e.at <=> Rank(R, x) < k
      OBVIOUS
    <3>1. x.at \in Nat /\ e.at \in Nat /\ Rank(R, x) \in Int
      BY <2>3, EventFields, Ranks
    <3>2. x.at < e.at => Rank(R, x) < k
      BY <2>3, Ranks
    <3>3. e.at < x.at => k < Rank(R, x)
      BY <2>3, Ranks
    <3>4. x.at = e.at => x = e
      BY <2>3 DEF Readable
    <3> QED
      BY <2>3, <3>1, <3>2, <3>3, <3>4
  <2>5. \A x \in R : x.at = e.at => x = e
    BY <2>3 DEF Readable
  <2>6. \A x \in R : Rank(R, x) < k + 1 <=> Rank(R, x) < k \/ x = e
    <3> SUFFICES ASSUME NEW x \in R PROVE Rank(R, x) < k + 1 <=> Rank(R, x) < k \/ x = e
      OBVIOUS
    <3>1. x.at \in Nat /\ e.at \in Nat /\ Rank(R, x) \in Int
      BY <2>3, EventFields, Ranks
    <3>2. e.at < x.at => k < Rank(R, x)
      BY <2>3, Ranks
    <3> QED
      BY <2>3, <2>4, <2>5, <3>1, <3>2
  <2>7. Earlier(R, e) = Firsts(R, k)
    BY <2>4 DEF Earlier, Firsts
  <2>8. Firsts(R, k + 1) = Firsts(R, k) \cup {e}
    BY <2>3, <2>6 DEF Firsts
  <2> QED
    BY <2>3, <2>7, <2>8 DEF Firsts
<1> QED
  BY <1>1, <1>2, <1>3

-----------------------------------------------------------------------------
(* The working day of an event                                              *)

\* TwoEntriesInARow, of any register.
TwoIn(R) ==
    \E e, f \in {x \in R : x.interval = "WORK" /\ x.type = "IN"} :
        /\ e.at < f.at /\ f.at - e.at <= MaxOpen
        /\ ~\E x \in R : x.interval = "WORK" /\ x.type = "OUT"
                         /\ e.at < x.at /\ x.at < f.at

\* The entry that is open at a moment: recent enough, with no exit since.
Opens(R, f, t) ==
    /\ f.interval = "WORK" /\ f.type = "IN" /\ f.at < t /\ t - f.at <= MaxOpen
    /\ ~\E x \in R : x.interval = "WORK" /\ x.type = "OUT" /\ f.at < x.at /\ x.at < t

Opening(R, t) ==
    IF \E f \in R : Opens(R, f, t) THEN (CHOOSE f \in R : Opens(R, f, t)).at ELSE None

DayIn(R, e) == DayOf(IF Opening(R, e.at) = None THEN e.at ELSE Opening(R, e.at))

LEMMA OneOpening ==
  ASSUME ReadingAssumption, NEW R, Readable(R), ~TwoIn(R), NEW t \in Nat, NEW f \in R, Opens(R, f, t)
  PROVE  Opening(R, t) = f.at /\ f.at # None
<1> DEFINE g == CHOOSE x \in R : Opens(R, x, t)
<1>1. g \in R /\ Opens(R, g, t) /\ Opening(R, t) = g.at
  BY DEF Opening
<1> HIDE DEF g
<1>2. f.at \in Nat /\ g.at \in Nat /\ MaxOpen \in Nat
  BY <1>1, EventFields DEF ReadingAssumption
<1>3. ~(f.at < g.at)
  <2> SUFFICES ASSUME f.at < g.at PROVE FALSE
    OBVIOUS
  <2>1. g.at - f.at <= MaxOpen /\ \A x \in R : x.at < g.at => x.at < t
    BY <1>1, <1>2, EventFields DEF Opens
  <2> QED
    BY <1>1, <2>1 DEF TwoIn, Opens
<1>4. ~(g.at < f.at)
  <2> SUFFICES ASSUME g.at < f.at PROVE FALSE
    OBVIOUS
  <2>1. f.at - g.at <= MaxOpen /\ \A x \in R : x.at < f.at => x.at < t
    BY <1>1, <1>2, EventFields DEF Opens
  <2> QED
    BY <1>1, <2>1 DEF TwoIn, Opens
<1> QED
  BY <1>1, <1>2, <1>3, <1>4 DEF None

LEMMA NoOpening ==
  ASSUME NEW R, Readable(R), NEW t, ~\E f \in R : Opens(R, f, t)
  PROVE  Opening(R, t) = None
BY DEF Opening

LEMMA OpeningIsATime ==
  ASSUME NEW R, Readable(R), NEW t
  PROVE  Opening(R, t) \in Nat \cup {None}
BY EventFields DEF Opening

\* What the loop of assign_workdays has made of the first k events.
DaysSoFar(R, k, acc) ==
    /\ acc.day = {<<e, DayIn(R, e)>> : e \in Firsts(R, k)}
    /\ acc.since \in Nat \cup {None}
    /\ \A t \in Nat : {x \in R : x.at < t} = Firsts(R, k) => KeptOpen(acc.since, t) = Opening(R, t)

\* One turn of it: an entry opens the day, an exit closes it, and what is
\* neither leaves open what was.
LEMMA OneMoreDay ==
  ASSUME ReadingAssumption, NEW R, Readable(R), ~TwoIn(R), NEW k \in Nat, k < Cardinality(R),
         NEW acc, DaysSoFar(R, k, acc)
  PROVE  DaysSoFar(R, k + 1, AssignOne(acc, InOrder(R)[k + 1]))
<1> DEFINE e == InOrder(R)[k + 1]
           next == AssignOne(acc, e)
           since == KeptOpen(acc.since, e.at)
           opens == e.interval = "WORK" /\ e.type = "IN" /\ since = None
           start == IF opens THEN e.at ELSE since
<1>1. /\ e \in R /\ Earlier(R, e) = Firsts(R, k)
      /\ Firsts(R, k + 1) = Firsts(R, k) \cup {e}
  BY TheOrder
<1>2. /\ next.day = acc.day \cup {<<e, DayOf(IF start = None THEN e.at ELSE start)>>}
      /\ next.since = IF e.interval = "WORK" /\ e.type = "OUT" THEN None ELSE start
  BY DEF AssignOne
<1> HIDE DEF e, next
<1>3. e.at \in Nat /\ MaxOpen \in Nat
  BY <1>1, EventFields DEF ReadingAssumption
<1>4. since = Opening(R, e.at)
  BY <1>1, <1>3 DEF DaysSoFar, Earlier
<1>5. since \in Nat \cup {None}
  BY <1>4, OpeningIsATime
<1> HIDE DEF since
\* An entry finds nothing open.
<1>6. CASE e.interval = "WORK" /\ e.type = "IN"
  <2>1. ~\E f \in R : Opens(R, f, e.at)
    BY <1>1, <1>6 DEF Opens, TwoIn
  <2>2. since = None /\ start = e.at
    BY <1>4, <1>6, <2>1, NoOpening
  <2>3. DayIn(R, e) = DayOf(e.at)
    BY <1>4, <2>2 DEF DayIn
  <2>4. next.day = {<<x, DayIn(R, x)>> : x \in Firsts(R, k + 1)}
    BY <1>1, <1>2, <2>2, <2>3 DEF DaysSoFar
  <2>5. next.since = e.at
    BY <1>2, <1>6, <2>2
  <2>6. ASSUME NEW t \in Nat, {x \in R : x.at < t} = Firsts(R, k + 1)
        PROVE  KeptOpen(e.at, t) = Opening(R, t)
    <3>1. \A x \in R : x.at < t <=> x = e \/ x.at < e.at
      BY <1>1, <2>6 DEF Earlier
    <3>2. e.at < t
      BY <1>1, <3>1
    <3>3. CASE t - e.at <= MaxOpen
      <4>1. Opens(R, e, t)
        <5> SUFFICES ASSUME NEW x \in R, x.type = "OUT", e.at < x.at, x.at < t PROVE FALSE
          BY <1>6, <3>2, <3>3 DEF Opens
        <5> QED
          BY <1>3, <1>6, <3>1, EventFields
      <4> QED
        BY <1>1, <1>3, <3>3, <4>1, OneOpening DEF KeptOpen
    <3>4. CASE ~(t - e.at <= MaxOpen)
      <4>1. ~\E f \in R : Opens(R, f, t)
        <5> SUFFICES ASSUME NEW f \in R, Opens(R, f, t) PROVE FALSE
          OBVIOUS
        <5>1. f.at < t /\ t - f.at <= MaxOpen /\ f.at \in Nat
          BY EventFields DEF Opens
        <5> QED
          BY <1>3, <3>1, <3>4, <5>1
      <4> QED
        BY <1>3, <3>4, <4>1, NoOpening DEF KeptOpen, None
    <3> QED
      BY <3>3, <3>4
  <2> QED
    BY <1>3, <2>4, <2>5, <2>6 DEF DaysSoFar, next, e
<1>7. CASE ~(e.interval = "WORK" /\ e.type = "IN")
  <2>1. start = since /\ ~opens
    BY <1>7
  <2>2. DayIn(R, e) = DayOf(IF start = None THEN e.at ELSE start)
    BY <1>4, <2>1 DEF DayIn
  <2>3. next.day = {<<x, DayIn(R, x)>> : x \in Firsts(R, k + 1)}
    BY <1>1, <1>2, <2>2 DEF DaysSoFar
  <2>4. next.since \in Nat \cup {None}
    BY <1>2, <1>5, <2>1
  <2>5. ASSUME NEW t \in Nat, {x \in R : x.at < t} = Firsts(R, k + 1)
        PROVE  KeptOpen(next.since, t) = Opening(R, t)
    <3>1. \A x \in R : x.at < t <=> x = e \/ x.at < e.at
      BY <1>1, <2>5 DEF Earlier
    <3>2. e.at < t
      BY <1>1, <3>1
    <3>3. CASE e.interval = "WORK" /\ e.type = "OUT"
      <4>1. ~\E f \in R : Opens(R, f, t)
        <5> SUFFICES ASSUME NEW f \in R, Opens(R, f, t) PROVE FALSE
          OBVIOUS
        <5>1. f # e /\ f.at < e.at
          BY <1>7, <3>1 DEF Opens
        <5> QED
          BY <1>1, <3>2, <3>3, <5>1 DEF Opens
      <4> QED
        BY <1>2, <3>3, <4>1, NoOpening DEF KeptOpen
    <3>4. CASE ~(e.interval = "WORK" /\ e.type = "OUT")
      <4>1. next.since = since
        BY <1>2, <2>1, <3>4
      <4>2. ASSUME NEW f \in R, Opens(R, f, t)
            PROVE  Opens(R, f, e.at)
        <5>1. f # e /\ f.at < e.at /\ f.at \in Nat
          BY <1>7, <3>1, <4>2, EventFields DEF Opens
        <5>2. e.at - f.at <= MaxOpen /\ \A x \in R : x.at < e.at => x.at < t
          BY <1>3, <3>1, <3>2, <4>2, <5>1 DEF Opens
        <5> QED
          BY <4>2, <5>1, <5>2 DEF Opens
      <4>3. ASSUME NEW f \in R, Opens(R, f, e.at), t - f.at <= MaxOpen
            PROVE  Opens(R, f, t)
        <5>1. f.at < t
          BY <1>3, <3>1, <4>3 DEF Opens
        <5>2. \A x \in R : x.interval = "WORK" /\ x.type = "OUT" /\ x.at < t => x.at < e.at
          BY <3>1, <3>4
        <5> QED
          BY <4>3, <5>1, <5>2 DEF Opens
      <4>4. CASE \E f \in R : Opens(R, f, t)
        <5>1. PICK f \in R : Opens(R, f, t)
          BY <4>4
        <5>2. Opening(R, t) = f.at /\ Opening(R, e.at) = f.at
          BY <1>3, <4>2, <5>1, OneOpening
        <5>3. t - f.at <= MaxOpen
          BY <5>1 DEF Opens
        <5> QED
          BY <1>3, <1>4, <4>1, <5>2, <5>3, EventFields DEF KeptOpen
      <4>5. CASE ~\E f \in R : Opens(R, f, t)
        <5>1. Opening(R, t) = None
          BY <4>5, NoOpening
        <5>2. CASE since = None
          BY <4>1, <5>1, <5>2 DEF KeptOpen
        <5>3. CASE since # None
          <6>1. PICK f \in R : Opens(R, f, e.at)
            BY <1>4, <5>3, NoOpening
          <6>2. since = f.at /\ f.at \in Nat
            BY <1>3, <1>4, <6>1, OneOpening, EventFields
          <6>3. ~(t - f.at <= MaxOpen)
            BY <4>3, <4>5, <6>1
          <6> QED
            BY <1>3, <4>1, <5>1, <6>2, <6>3 DEF KeptOpen, None
        <5> QED
          BY <5>2, <5>3
      <4> QED
        BY <4>4, <4>5
    <3> QED
      BY <3>3, <3>4
  <2> QED
    BY <2>3, <2>4, <2>5 DEF DaysSoFar, next, e
<1> QED
  BY <1>6, <1>7

\* With two entries in a row it may be wrong of the days, never of the events.
OfTheRegister(R, acc) == \A p \in acc.day : p[1] \in R

LEMMA DaysOfAll ==
  ASSUME ReadingAssumption, NEW R, Readable(R)
  PROVE  /\ \A p \in Assigned(R).day : p[1] \in R
         /\ ~TwoIn(R) => Assigned(R).day = {<<e, DayIn(R, e)>> : e \in R}
<1> DEFINE n == Cardinality(R)
           Acc(k) == ReadAt("days", InOrder(R), 1 .. k)
           Right(k) == OfTheRegister(R, Acc(k)) /\ (~TwoIn(R) => DaysSoFar(R, k, Acc(k)))
           Wrong == {k \in 0 .. n : ~Right(k)}
<1>1. n \in Nat
  BY Ranks
<1>2. Wrong = {}
  <2> SUFFICES ASSUME Wrong # {} PROVE FALSE
    OBVIOUS
  <2>1. Wrong \in SUBSET Nat
    BY <1>1
  <2>2. PICK k \in Wrong : \A j \in Wrong : k <= j
    <3> HIDE DEF Wrong
    <3> QED
      BY <2>1, LeastNumber
  <2>3. CASE k = 0
    <3>1. Acc(0) = Blank("days")
      <4>1. 1 .. 0 = {} /\ 0 \in Nat
        OBVIOUS
      <4> QED
        BY <4>1, NextTurn
    <3>2. Firsts(R, 0) = {}
      BY TheOrder
    <3>3. \A t \in Nat : {x \in R : x.at < t} = {} => Opening(R, t) = None
      BY NoOpening DEF Opens
    <3> QED
      BY <2>2, <2>3, <3>1, <3>2, <3>3 DEF DaysSoFar, OfTheRegister, Blank, KeptOpen
  <2>4. CASE k # 0
    <3>1. PICK j \in Nat : k = j + 1 /\ j < n
      <4>1. k - 1 \in Nat /\ k = (k - 1) + 1 /\ k - 1 < n
        BY <1>1, <2>2, <2>4
      <4> QED
        BY <4>1
    <3>2. Right(j)
      <4>1. j \in 0 .. n /\ ~(k <= j)
        BY <1>1, <3>1
      <4> QED
        BY <2>2, <4>1
    <3>3. Acc(k) = AssignOne(Acc(j), InOrder(R)[j + 1])
      BY <3>1, NextTurn DEF OneTurn
    <3>4. OfTheRegister(R, Acc(k))
      <4>1. InOrder(R)[j + 1] \in R
        BY <3>1, TheOrder
      <4> HIDE DEF Acc
      <4> QED
        BY <3>2, <3>3, <4>1 DEF OfTheRegister, AssignOne
    <3>5. ~TwoIn(R) => DaysSoFar(R, k, Acc(k))
      BY <3>1, <3>2, <3>3, OneMoreDay
    <3> QED
      BY <2>2, <3>4, <3>5
  <2> QED
    BY <2>3, <2>4
<1>3. Right(n)
  BY <1>1, <1>2
<1>4. Assigned(R) = Acc(n)
  <2>1. Assigned(R) = ReadAt("days", InOrder(R), DOMAIN InOrder(R))
    BY DaysAreRead DEF Assigned, Blank
  <2> QED
    BY <2>1, TheOrder
<1> QED
  BY <1>3, <1>4, TheOrder DEF DaysSoFar, OfTheRegister

LEMMA DayIsOfTheRegister ==
  ASSUME ReadingAssumption, NEW R, Readable(R), NEW d
  PROVE  OfDay(R, d) \in SUBSET R
BY DaysOfAll DEF OfDay

LEMMA DayByDay ==
  ASSUME ReadingAssumption, NEW R, Readable(R), ~TwoIn(R), NEW d
  PROVE  OfDay(R, d) = {e \in R : DayIn(R, e) = d}
<1> DEFINE Pairs == {<<e, DayIn(R, e)>> : e \in R}
<1>1. Assigned(R).day = Pairs
  BY DaysOfAll
<1>2. OfDay(R, d) = {p[1] : p \in {q \in Pairs : q[2] = d}}
  BY <1>1 DEF OfDay
<1>3. \A e \in R : DayIn(R, e) = d => <<e, d>> \in {q \in Pairs : q[2] = d}
  OBVIOUS
<1>4. {p[1] : p \in {q \in Pairs : q[2] = d}} \subseteq {e \in R : DayIn(R, e) = d}
  OBVIOUS
<1>5. {e \in R : DayIn(R, e) = d} \subseteq {p[1] : p \in {q \in Pairs : q[2] = d}}
  <2> SUFFICES ASSUME NEW e \in R, DayIn(R, e) = d
               PROVE  \E p \in {q \in Pairs : q[2] = d} : e = p[1]
    OBVIOUS
  <2> WITNESS <<e, d>> \in {q \in Pairs : q[2] = d}
  <2> QED
    OBVIOUS
<1> QED
  BY <1>2, <1>4, <1>5

-----------------------------------------------------------------------------
(* Windows                                                                  *)

LEMMA DivMod ==
  ASSUME NEW n \in Nat \ {0}, NEW t \in Int
  PROVE  \E q \in Int, m \in 0 .. n - 1 : t = n * q + m /\ t \div n = q
<1> WITNESS t \div n \in Int, t % n \in 0 .. n - 1
<1> QED
  OBVIOUS

LEMMA TicksOfADay ==
  ASSUME ReadingAssumption, NEW t \in Int
  PROVE  /\ DayOf(t) \in Int
         /\ DayOf(t) * DayLength <= t /\ t < (DayOf(t) + 1) * DayLength
<1>1. PICK q \in Int, m \in 0 .. DayLength - 1 : t = DayLength * q + m /\ t \div DayLength = q
  BY DivMod DEF ReadingAssumption
<1>2. (q + 1) * DayLength = DayLength * q + DayLength /\ q * DayLength = DayLength * q
  BY DEF ReadingAssumption
<1> HIDE DEF ReadingAssumption
<1>3. DayLength * q \in Int /\ DayLength \in Int
  BY DEF ReadingAssumption
<1> QED
  BY <1>1, <1>2, <1>3 DEF DayOf

LEMMA WindowHasTheSame ==
  ASSUME NEW R, Readable(R), ~TwoIn(R), NEW a \in Int, NEW b \in Int
  PROVE  LET W == Within(R, a, b) IN Readable(W) /\ W \subseteq R /\ ~TwoIn(W)
<1> DEFINE W == Within(R, a, b)
<1>1. W \in SUBSET R
  BY DEF Within
<1>2. Readable(W)
  BY <1>1, PartIsReadable
<1>3. ASSUME TwoIn(W) PROVE FALSE
  <2>1. PICK e \in W, f \in W :
           /\ e.interval = "WORK" /\ e.type = "IN" /\ f.interval = "WORK" /\ f.type = "IN"
           /\ e.at < f.at /\ f.at - e.at <= MaxOpen
           /\ ~\E x \in W : x.interval = "WORK" /\ x.type = "OUT" /\ e.at < x.at /\ x.at < f.at
    BY <1>3 DEF TwoIn
  <2>2. \A x \in R : e.at < x.at /\ x.at < f.at => x \in W
    BY EventFields DEF Within
  <2>3. e \in R /\ f \in R
    BY <1>1
  <2> HIDE DEF W
  <2>4. \E x \in R : x.interval = "WORK" /\ x.type = "OUT" /\ e.at < x.at /\ x.at < f.at
    BY <2>1, <2>3 DEF TwoIn
  <2> QED
    BY <2>1, <2>2, <2>4
<1> QED
  BY <1>1, <1>2, <1>3

\* A window that leaves room for an opening on each side of a day has all of it.
LEMMA TheWindowIsEnough ==
  ASSUME ReadingAssumption, NEW R, Readable(R), ~TwoIn(R), NEW d \in Int, NEW a \in Int, NEW b \in Int,
         a <= d * DayLength - MaxOpen, (d + 1) * DayLength + MaxOpen <= b
  PROVE  OfDay(Within(R, a, b), d) = OfDay(R, d)
<1> DEFINE W == Within(R, a, b)
           from == d * DayLength
           to == (d + 1) * DayLength
<1>1. from \in Int /\ to \in Int /\ MaxOpen \in Nat /\ a <= from - MaxOpen /\ to + MaxOpen <= b
  BY DEF ReadingAssumption
<1>2. Readable(W) /\ W \subseteq R /\ ~TwoIn(W)
  BY WindowHasTheSame
<1>3. \A x \in R : x \in W <=> a <= x.at /\ x.at < b
  BY DEF Within
<1>4. \A t \in Nat : DayOf(t) = d => from <= t /\ t < to
  BY TicksOfADay
<1> HIDE DEF W, from, to
<1>5. ASSUME NEW e \in W, NEW f \in W, Opens(W, f, e.at)
      PROVE  Opens(R, f, e.at)
  <2>1. \A x \in R : f.at < x.at /\ x.at < e.at => x \in W
    BY <1>2, <1>3, EventFields
  <2> QED
    BY <1>2, <1>5, <2>1 DEF Opens
<1>6. ASSUME NEW e \in W, NEW f \in R, Opens(R, f, e.at), a <= f.at
      PROVE  f \in W /\ Opens(W, f, e.at)
  <2>1. f.at < b
    BY <1>2, <1>3, <1>6, EventFields DEF Opens
  <2> QED
    BY <1>2, <1>3, <1>6, <2>1 DEF Opens
<1>7. ASSUME NEW e \in W, DayIn(W, e) = d
      PROVE  DayIn(R, e) = d
  <2>0. e \in R /\ e.at \in Nat
    BY <1>2, EventFields
  <2>1. CASE \E f \in R : Opens(R, f, e.at)
    <3>1. PICK f \in R : Opens(R, f, e.at)
      BY <2>1
    <3>2. CASE a <= f.at
      <4>1. Opening(R, e.at) = f.at /\ Opening(W, e.at) = f.at
        BY <1>2, <1>6, <2>0, <3>1, <3>2, OneOpening
      <4> QED
        BY <1>7, <4>1 DEF DayIn
    <3>3. CASE ~(a <= f.at)
      <4>1. ~\E g \in W : Opens(W, g, e.at)
        <5> SUFFICES ASSUME NEW g \in W, Opens(W, g, e.at) PROVE FALSE
          OBVIOUS
        <5>1. g.at = f.at
          BY <1>2, <1>5, <2>0, <3>1, OneOpening
        <5> QED
          BY <1>2, <1>3, <3>3, <5>1
      <4>2. Opening(W, e.at) = None
        BY <1>2, <4>1, NoOpening
      <4>3. DayOf(e.at) = d
        BY <1>7, <4>2 DEF DayIn
      <4>4. from <= e.at /\ e.at - f.at <= MaxOpen /\ f.at \in Nat
        BY <1>4, <2>0, <3>1, <4>3, EventFields DEF Opens
      <4> QED
        BY <1>1, <2>0, <3>3, <4>4
    <3> QED
      BY <3>2, <3>3
  <2>2. CASE ~\E f \in R : Opens(R, f, e.at)
    <3>1. ~\E f \in W : Opens(W, f, e.at)
      BY <1>2, <1>5, <2>2
    <3>2. Opening(R, e.at) = None /\ Opening(W, e.at) = None
      BY <1>2, <2>2, <3>1, NoOpening
    <3> QED
      BY <1>7, <3>2 DEF DayIn
  <2> QED
    BY <2>1, <2>2
<1>8. ASSUME NEW e \in R, DayIn(R, e) = d
      PROVE  e \in W /\ DayIn(W, e) = d
  <2>0. e.at \in Nat
    BY EventFields
  <2>1. CASE \E f \in R : Opens(R, f, e.at)
    <3>1. PICK f \in R : Opens(R, f, e.at)
      BY <2>1
    <3>2. Opening(R, e.at) = f.at /\ f.at # None /\ f.at \in Nat
      BY <2>0, <3>1, OneOpening, EventFields
    <3>3. DayOf(f.at) = d
      BY <1>8, <3>2 DEF DayIn
    <3>4. from <= f.at /\ f.at < to /\ f.at < e.at /\ e.at - f.at <= MaxOpen
      BY <1>4, <3>1, <3>2, <3>3 DEF Opens
    <3>5. a <= f.at /\ a <= e.at /\ e.at < b
      BY <1>1, <2>0, <3>2, <3>4
    <3>6. e \in W /\ f \in W /\ Opens(W, f, e.at)
      BY <1>3, <1>6, <3>1, <3>5
    <3>7. Opening(W, e.at) = f.at
      BY <1>2, <2>0, <3>6, OneOpening
    <3> QED
      BY <3>2, <3>3, <3>6, <3>7 DEF DayIn
  <2>2. CASE ~\E f \in R : Opens(R, f, e.at)
    <3>1. Opening(R, e.at) = None
      BY <2>2, NoOpening
    <3>2. DayOf(e.at) = d
      BY <1>8, <3>1 DEF DayIn
    <3>3. a <= e.at /\ e.at < b
      BY <1>1, <1>4, <2>0, <3>2
    <3>4. e \in W
      BY <1>3, <3>3
    <3>5. ~\E f \in W : Opens(W, f, e.at)
      BY <1>2, <1>5, <2>2, <3>4
    <3>6. Opening(W, e.at) = None
      BY <1>2, <3>5, NoOpening
    <3> QED
      BY <3>2, <3>4, <3>6 DEF DayIn
  <2> QED
    BY <2>1, <2>2
<1>9. OfDay(W, d) = {e \in W : DayIn(W, e) = d} /\ OfDay(R, d) = {e \in R : DayIn(R, e) = d}
  BY <1>2, DayByDay
<1>10. OfDay(W, d) = OfDay(R, d)
  BY <1>2, <1>7, <1>8, <1>9
<1> QED
  BY <1>10 DEF W

LEMMA ManyDays ==
  ASSUME ReadingAssumption, NEW c \in Int, NEW d \in Int, c <= d
  PROVE  c * DayLength <= d * DayLength
<1>1. PICK m \in Nat : d = c + m
  <2>1. d - c \in Nat /\ d = c + (d - c)
    OBVIOUS
  <2> QED
    BY <2>1
<1>2. (c + m) * DayLength = c * DayLength + m * DayLength /\ m * DayLength \in Nat /\ c * DayLength \in Int
  BY DEF ReadingAssumption
<1> QED
  BY <1>1, <1>2

\* The readers' windows.
LEMMA TheScreenHasItAll ==
  ASSUME ReadingAssumption, NEW R, Readable(R), ~TwoIn(R), NEW d \in Nat
  PROVE  PunchesOfTheWorkday(R, d) = OfDay(R, d)
<1>1. /\ d * DayLength - MaxOpen \in Int /\ (d + 1) * DayLength + MaxOpen \in Int
      /\ d * DayLength - MaxOpen <= d * DayLength - MaxOpen
      /\ (d + 1) * DayLength + MaxOpen <= (d + 1) * DayLength + MaxOpen
  BY DEF ReadingAssumption
<1> QED
  BY <1>1, TheWindowIsEnough DEF PunchesOfTheWorkday

LEMMA TheDocumentHasItAll ==
  ASSUME ReadingAssumption, NEW R, Readable(R), ~TwoIn(R),
         NEW d \in Nat, NEW first \in Nat, NEW last \in Nat, first <= d, d <= last
  PROVE  ReportEvents(R, first, last, d) = OfDay(R, d)
<1> DEFINE from == first * DayLength - (MaxOpen + DayLength)
           to == (last + 1) * DayLength + (MaxOpen + DayLength)
<1>1. first * DayLength <= d * DayLength /\ (d + 1) * DayLength <= (last + 1) * DayLength
  BY ManyDays
<1>2. /\ DayLength \in Nat /\ MaxOpen \in Nat /\ first * DayLength \in Int /\ d * DayLength \in Int
      /\ (d + 1) * DayLength \in Int /\ (last + 1) * DayLength \in Int
  BY DEF ReadingAssumption
<1>3. from \in Int /\ to \in Int /\ from <= d * DayLength - MaxOpen /\ (d + 1) * DayLength + MaxOpen <= to
  BY <1>1, <1>2
<1> HIDE DEF from, to
<1>4. OfDay(Within(R, from, to), d) = OfDay(R, d)
  BY <1>3, TheWindowIsEnough
<1> QED
  BY <1>4 DEF ReportEvents, from, to

\* The queue reads one more day on each side of those that have a shift, so it
\* has all of them when nothing stays open longer than a day.
OpenAtMostADay == MaxOpen <= DayLength

LEMMA TheQueueHasItAll ==
  ASSUME ReadingAssumption, OpenAtMostADay, NEW R, Readable(R), ~TwoIn(R),
         NEW n \in Nat, NEW days \in SUBSET (0 .. n), NEW d \in days
  PROVE  QueueEvents(R, days, d) = OfDay(R, d)
<1> DEFINE first == CHOOSE x \in days : \A y \in days : x <= y
           last == CHOOSE x \in days : \A y \in days : y <= x
           from == (first - 1) * DayLength
           to == (last + 2) * DayLength
<1>0. \A x \in days : x \in Nat /\ n - x \in Nat
  OBVIOUS
<1>1. first \in days /\ \A y \in days : first <= y
  <2>1. days \in SUBSET Nat /\ days # {}
    BY <1>0
  <2> QED
    BY <2>1, LeastNumber
<1>2. last \in days /\ \A y \in days : y <= last
  <2>1. {n - x : x \in days} \in SUBSET Nat /\ {n - x : x \in days} # {}
    BY <1>0
  <2>2. PICK z \in {n - x : x \in days} : \A y \in {n - x : x \in days} : z <= y
    BY <2>1, LeastNumber
  <2>3. PICK x \in days : z = n - x
    OBVIOUS
  <2>4. \A y \in days : y <= x
    <3> SUFFICES ASSUME NEW y \in days PROVE y <= x
      OBVIOUS
    <3>1. z <= n - y
      BY <2>2
    <3> QED
      BY <1>0, <2>3, <3>1
  <2> QED
    BY <2>4
<1> HIDE DEF first, last
<1>3. first \in Int /\ last \in Int /\ d \in Int /\ first <= d /\ d <= last
  BY <1>0, <1>1, <1>2
<1>4. (first - 1) * DayLength <= (d - 1) * DayLength /\ (d + 2) * DayLength <= (last + 2) * DayLength
  BY <1>3, ManyDays
<1>5. /\ DayLength \in Nat /\ MaxOpen \in Nat /\ d * DayLength \in Int
      /\ (d - 1) * DayLength = d * DayLength - DayLength
      /\ (d + 1) * DayLength = d * DayLength + DayLength
      /\ (d + 2) * DayLength = d * DayLength + DayLength + DayLength
      /\ (first - 1) * DayLength \in Int /\ (last + 2) * DayLength \in Int
  BY <1>3 DEF ReadingAssumption
<1>6. from \in Int /\ to \in Int /\ from <= d * DayLength - MaxOpen /\ (d + 1) * DayLength + MaxOpen <= to
  BY <1>4, <1>5 DEF OpenAtMostADay
<1> HIDE DEF from, to
<1>7. OfDay(Within(R, from, to), d) = OfDay(R, d)
  BY <1>3, <1>6, TheWindowIsEnough
<1> QED
  BY <1>7 DEF QueueEvents, from, to, first, last

-----------------------------------------------------------------------------
(* The hours of a day                                                       *)

Pairing == [open : [Intervals -> Int], hours : [Intervals -> Int]]

\* What has been counted by a moment is not more than the time there was.
Fits(acc, t) ==
    \A j \in Intervals :
        /\ 0 <= acc.hours[j]
        /\ acc.open[j] = None => acc.hours[j] <= t
        /\ acc.open[j] # None => acc.hours[j] <= acc.open[j] /\ acc.open[j] <= t

HoursSoFar(R, k, acc) ==
    /\ acc \in Pairing
    /\ \A t \in Nat : (\A x \in Firsts(R, k) : x.at <= t) => Fits(acc, t)

LEMMA OneMorePair ==
  ASSUME NEW R, Readable(R), NEW k \in Nat, k < Cardinality(R), NEW acc, HoursSoFar(R, k, acc)
  PROVE  HoursSoFar(R, k + 1, PairOne(acc, InOrder(R)[k + 1]))
<1> DEFINE e == InOrder(R)[k + 1]
           next == PairOne(acc, e)
           j == e.interval
           opens == e.type = "IN" /\ acc.open[j] = None
           closes == e.type = "OUT" /\ acc.open[j] # None
<1>1. e \in R /\ Earlier(R, e) = Firsts(R, k) /\ Firsts(R, k + 1) = Firsts(R, k) \cup {e}
  BY TheOrder
<1>2. next = PairOne(acc, e)
  OBVIOUS
<1> HIDE DEF e, next
<1>3. e.at \in Nat /\ j \in Intervals /\ acc \in Pairing /\ acc.open[j] \in Int /\ acc.hours[j] \in Int
  BY <1>1, EventFields DEF HoursSoFar, Pairing
<1>4. Fits(acc, e.at)
  <2>1. \A x \in Firsts(R, k) : x.at <= e.at
    <3> SUFFICES ASSUME NEW x \in Earlier(R, e) PROVE x.at <= e.at
      BY <1>1
    <3>1. x \in R /\ x.at < e.at
      BY DEF Earlier
    <3> QED
      BY <1>3, <3>1, EventFields
  <2> QED
    BY <1>3, <2>1 DEF HoursSoFar
<1>5. \A t \in Nat : (\A x \in Firsts(R, k + 1) : x.at <= t) => e.at <= t /\ Fits(acc, t)
  BY <1>1 DEF HoursSoFar
<1>6. CASE opens
  <2>1. next = [acc EXCEPT !.open[j] = e.at]
    BY <1>2, <1>6 DEF PairOne
  <2>2. next \in Pairing
    BY <1>3, <2>1 DEF Pairing
  <2>3. /\ \A i \in Intervals : next.hours[i] = acc.hours[i]
        /\ \A i \in Intervals \ {j} : next.open[i] = acc.open[i]
        /\ next.open[j] = e.at
    BY <1>3, <2>1 DEF Pairing
  <2>4. acc.hours[j] <= e.at
    BY <1>3, <1>4, <1>6 DEF Fits
  <2>5. \A t \in Nat : (\A x \in Firsts(R, k + 1) : x.at <= t) => Fits(next, t)
    <3> SUFFICES ASSUME NEW t \in Nat, e.at <= t, Fits(acc, t) PROVE Fits(next, t)
      BY <1>5
    <3> SUFFICES ASSUME NEW i \in Intervals
                 PROVE  /\ 0 <= next.hours[i]
                        /\ next.open[i] = None => next.hours[i] <= t
                        /\ next.open[i] # None => next.hours[i] <= next.open[i] /\ next.open[i] <= t
      BY DEF Fits
    <3>1. CASE i = j
      BY <1>3, <2>3, <2>4, <3>1 DEF Fits, None
    <3>2. CASE i # j
      BY <2>3, <3>2 DEF Fits
    <3> QED
      BY <3>1, <3>2
  <2> QED
    BY <2>2, <2>5 DEF HoursSoFar, next, e
<1>7. CASE closes
  <2>1. next = [acc EXCEPT !.hours[j] = @ + e.at - acc.open[j], !.open[j] = None]
    BY <1>2, <1>7 DEF PairOne
  <2>2. next \in Pairing
    <3>1. /\ None \in Int /\ acc.hours[j] + e.at - acc.open[j] \in Int
          /\ acc.hours \in [Intervals -> Int] /\ acc.open \in [Intervals -> Int]
      BY <1>3 DEF Pairing, None
    <3>2. next = [open  |-> [acc.open EXCEPT ![j] = None],
                  hours |-> [acc.hours EXCEPT ![j] = acc.hours[j] + e.at - acc.open[j]]]
      BY <1>3, <2>1 DEF Pairing
    <3> HIDE DEF j
    <3> QED
      BY <3>1, <3>2 DEF Pairing
  <2>3. /\ \A i \in Intervals \ {j} : next.hours[i] = acc.hours[i] /\ next.open[i] = acc.open[i]
        /\ next.hours[j] = acc.hours[j] + e.at - acc.open[j] /\ next.open[j] = None
    BY <1>3, <2>1 DEF Pairing
  <2>4. 0 <= acc.hours[j] /\ acc.hours[j] <= acc.open[j] /\ acc.open[j] <= e.at
    BY <1>3, <1>4, <1>7 DEF Fits
  <2>5. \A t \in Nat : (\A x \in Firsts(R, k + 1) : x.at <= t) => Fits(next, t)
    <3> SUFFICES ASSUME NEW t \in Nat, e.at <= t, Fits(acc, t) PROVE Fits(next, t)
      BY <1>5
    <3> SUFFICES ASSUME NEW i \in Intervals
                 PROVE  /\ 0 <= next.hours[i]
                        /\ next.open[i] = None => next.hours[i] <= t
                        /\ next.open[i] # None => next.hours[i] <= next.open[i] /\ next.open[i] <= t
      BY DEF Fits
    <3>1. CASE i = j
      BY <1>3, <2>3, <2>4, <3>1
    <3>2. CASE i # j
      BY <2>3, <3>2 DEF Fits
    <3> QED
      BY <3>1, <3>2
  <2> QED
    BY <2>2, <2>5 DEF HoursSoFar, next, e
<1>8. CASE ~opens /\ ~closes
  <2>1. next = acc
    BY <1>2, <1>8 DEF PairOne
  <2> QED
    BY <1>3, <1>5, <2>1 DEF HoursSoFar, next, e
<1> QED
  BY <1>6, <1>7, <1>8

LEMMA HoursOfAll ==
  ASSUME NEW R, Readable(R)
  PROVE  /\ Paired(R) \in Pairing
         /\ \A t \in Nat : (\A x \in R : x.at <= t) => Fits(Paired(R), t)
<1> DEFINE n == Cardinality(R)
           Acc(k) == ReadAt("hours", InOrder(R), 1 .. k)
           Wrong == {k \in 0 .. n : ~HoursSoFar(R, k, Acc(k))}
<1>1. n \in Nat
  BY Ranks
<1>2. Wrong = {}
  <2> SUFFICES ASSUME Wrong # {} PROVE FALSE
    OBVIOUS
  <2>1. Wrong \in SUBSET Nat
    BY <1>1
  <2>2. PICK k \in Wrong : \A j \in Wrong : k <= j
    <3> HIDE DEF Wrong
    <3> QED
      BY <2>1, LeastNumber
  <2>3. CASE k = 0
    <3>1. Acc(0) = Unpaired
      <4>1. 1 .. 0 = {} /\ 0 \in Nat
        OBVIOUS
      <4> QED
        BY <4>1, NextTurn DEF Blank
    <3>2. Unpaired \in Pairing /\ \A t \in Nat : Fits(Unpaired, t)
      BY DEF Unpaired, Pairing, Fits, None
    <3> QED
      BY <2>2, <2>3, <3>1, <3>2 DEF HoursSoFar
  <2>4. CASE k # 0
    <3>1. PICK j \in Nat : k = j + 1 /\ j < n
      <4>1. k - 1 \in Nat /\ k = (k - 1) + 1 /\ k - 1 < n
        BY <1>1, <2>2, <2>4
      <4> QED
        BY <4>1
    <3>2. HoursSoFar(R, j, Acc(j))
      <4>1. j \in 0 .. n /\ ~(k <= j)
        BY <1>1, <3>1
      <4> QED
        BY <2>2, <4>1
    <3>3. Acc(k) = PairOne(Acc(j), InOrder(R)[j + 1])
      BY <3>1, NextTurn DEF OneTurn
    <3> QED
      BY <2>2, <3>1, <3>2, <3>3, OneMorePair
  <2> QED
    BY <2>3, <2>4
<1>3. HoursSoFar(R, n, Acc(n))
  BY <1>1, <1>2
<1>4. Paired(R) = Acc(n)
  <2>1. Paired(R) = ReadAt("hours", InOrder(R), DOMAIN InOrder(R))
    BY HoursAreRead DEF Paired, Blank
  <2> QED
    BY <2>1, TheOrder
<1> HIDE DEF Acc, n
<1> QED
  BY <1>3, <1>4, TheOrder DEF HoursSoFar, n

\* What the screen says of a day, and that a day that is over has its closed spans alone.
LEMMA OfAStatus ==
  ASSUME NEW R, Readable(R), NEW t \in Nat, \A x \in R : x.at <= t
  PROVE  LET said == DayStatus(R, t) IN
         /\ said.worked \in 0 .. t
         /\ said.state = "OFF" => said.worked = LessTheBreak(Paired(R).hours)
<1> DEFINE read == Paired(R)
           upTo == [k \in Intervals |-> read.hours[k] + IF read.open[k] = None THEN 0 ELSE t - read.open[k]]
           said == DayStatus(R, t)
<1>1. read \in Pairing /\ Fits(read, t)
  BY HoursOfAll
<1>2. /\ said.worked = LessTheBreak(upTo)
      /\ said.state = "OFF" => read.open["BREAK"] = None /\ read.open["WORK"] = None
  BY DEF DayStatus
<1> HIDE DEF read, said
<1>3. "WORK" \in Intervals /\ "BREAK" \in Intervals
  BY DEF Intervals
<1>4. \A k \in Intervals : upTo[k] \in 0 .. t /\ read.hours[k] \in Int /\ (read.open[k] = None => upTo[k] = read.hours[k])
  BY <1>1 DEF Pairing, Fits
<1> HIDE DEF upTo
<1>5. LessTheBreak(upTo) \in 0 .. t
  BY <1>3, <1>4 DEF LessTheBreak, Positive
<1>6. said.state = "OFF" => LessTheBreak(upTo) = LessTheBreak(read.hours)
  BY <1>2, <1>3, <1>4 DEF LessTheBreak
<1> QED
  BY <1>2, <1>5, <1>6 DEF read, said

-----------------------------------------------------------------------------
(* Types                                                                    *)

\* No two events of the same moment, none of a moment to come, and a request
\* that rules has read an excess.
HoursInv ==
    /\ HoursTypeOK
    /\ \A e, f \in register : e.at = f.at => e = f
    /\ \A e \in register : e.at <= now
    /\ \A r \in Rulers : Reading(r) => request[r].minutes > 0

LEMMA TheRegisterIsReadable ==
  ASSUME HoursAssumption, HoursInv
  PROVE  Readable(register)
<1>1. register \subseteq [at : 0 .. MaxTime, interval : Intervals, type : Types] /\ MaxTime \in Nat
  BY DEF HoursInv, HoursTypeOK, HoursAssumption, Event
<1>2. \A e \in register : e.at \in 0 .. MaxTime
  BY <1>1
<1> DEFINE Clock == 0 .. MaxTime
           Moment == [e \in register |-> e.at]
<1>3. Moment \in Injection(register, Clock)
  <2>1. Moment \in [register -> Clock]
    BY <1>2
  <2>2. \A e, f \in register : Moment[e] = Moment[f] => e = f
    BY DEF HoursInv
  <2> QED
    BY <2>1, <2>2 DEF Injection, IsInjective
<1>4. IsFiniteSet(Clock)
  BY <1>1, FS_Interval
<1>5. IsFiniteSet(register)
  <2> HIDE DEF Moment, Clock
  <2> QED
    BY <1>3, <1>4, FS_Injection
<1>6. register \subseteq [at : Nat, interval : Intervals, type : Types]
  BY <1>1
<1> QED
  BY <1>5, <1>6 DEF Readable, HoursInv

LEMMA TheScreenReadsTheRegister ==
  ASSUME ReadingAssumption, HoursAssumption, HoursInv, NEW d \in RosterDays
  PROVE  LET seen == PunchesOfTheWorkday(register, d) IN
         Readable(seen) /\ \A x \in seen : x.at <= now
<1> DEFINE from == d * DayLength - MaxOpen
           to == (d + 1) * DayLength + MaxOpen
<1>1. Readable(register)
  BY TheRegisterIsReadable
<1>2. Within(register, from, to) \in SUBSET register
  BY DEF Within
<1>3. PunchesOfTheWorkday(register, d) \in SUBSET register
  BY <1>1, <1>2, PartIsReadable, DayIsOfTheRegister DEF PunchesOfTheWorkday
<1> QED
  BY <1>1, <1>3, PartIsReadable DEF HoursInv

\* The figure a ruling would record.
LEMMA FigureType ==
  ASSUME ReadingAssumption, HoursAssumption, HoursInv, NEW d \in RosterDays
  PROVE  Figure(d) \in 0 .. MaxTime
<1>1. now \in 0 .. MaxTime /\ MaxTime \in Nat /\ now \in Nat
  BY DEF HoursInv, HoursTypeOK, HoursAssumption
<1>2. Status(d).worked \in 0 .. now
  BY <1>1, TheScreenReadsTheRegister, OfAStatus DEF Status, Screen
<1>3. CASE d \in Rostered
  <2>1. shift[d] \in Shifts
    BY <1>3 DEF Rostered, HoursInv, HoursTypeOK
  <2>2. Expected(d) \in Nat /\ Margin \in Nat
    BY <2>1 DEF Expected, HoursAssumption, ReadingAssumption
  <2> QED
    BY <1>1, <1>2, <1>3, <2>2 DEF Figure, OvertimeOf, Overtime
<1>4. CASE d \notin Rostered
  BY <1>1, <1>2, <1>4 DEF Figure, OvertimeOf
<1> QED
  BY <1>3, <1>4

LEMMA HoursInitInv ==
  ASSUME HoursAssumption, RosterAssumption, HoursInit
  PROVE  HoursInv
<1>1. HoursTypeOK
  BY DEF HoursInit, HoursTypeOK, HoursAssumption, RosterAssumption
<1> QED
  BY <1>1 DEF HoursInit, HoursInv, Reading

\* The register after a change: every event of a moment that has been, and
\* alone at it.
LEMMA RegisterMoved ==
  ASSUME HoursAssumption, HoursInv, NEW R,
         NEW R0 \in SUBSET register, NEW t \in 0 .. now, t \notin Moments,
         NEW interval \in Intervals, NEW type \in Types,
         R = R0 \cup {[at |-> t, interval |-> interval, type |-> type]}
  PROVE  /\ R \subseteq Event(MaxTime)
         /\ \A e, f \in R : e.at = f.at => e = f
         /\ \A e \in R : e.at <= now
<1>1. now \in 0 .. MaxTime /\ MaxTime \in Nat /\ register \subseteq Event(MaxTime)
  BY DEF HoursInv, HoursTypeOK, HoursAssumption
<1>2. t \in 0 .. MaxTime /\ t <= now
  BY <1>1
<1>3. \A e \in R0 : e.at # t
  BY DEF Moments
<1> QED
  BY <1>1, <1>2, <1>3 DEF Event, HoursInv

LEMMA TapInv ==
  ASSUME HoursAssumption, HoursInv, NEW ask \in Intervals \cup {"tap"}, Tap(ask)
  PROVE  HoursInv'
<1> DEFINE interval == IF ask # "tap" THEN ask ELSE IF IsOpen(register, "BREAK", now) THEN "BREAK" ELSE "WORK"
           type == InferredType(register, interval, now)
<1>1. interval \in Intervals /\ type \in Types
  BY DEF Intervals, Types, InferredType
<1>2. register' = register \cup {[at |-> now, interval |-> interval, type |-> type]}
  BY DEF Tap, Record
<1> HIDE DEF interval, type
<1>3. now \in 0 .. now /\ now \notin Moments
  BY DEF Tap, HoursInv, HoursTypeOK
<1>4. /\ register' \subseteq Event(MaxTime)
      /\ \A e, f \in register' : e.at = f.at => e = f
      /\ \A e \in register' : e.at <= now
  <2>1. register \in SUBSET register
    OBVIOUS
  <2> QED
    BY <1>1, <1>2, <1>3, <2>1, RegisterMoved
<1> QED
  BY <1>4 DEF Tap, HoursInv, HoursTypeOK, rulingVars, Reading, RosterDays

LEMMA AmendInv ==
  ASSUME HoursAssumption, HoursInv, Amend
  PROVE  HoursInv'
<1>1. /\ register' \subseteq Event(MaxTime)
      /\ \A e, f \in register' : e.at = f.at => e = f
      /\ \A e \in register' : e.at <= now
  <2>1. CASE \E t \in (0 .. now) \ Moments, type \in Types :
                register' = register \cup {[at |-> t, interval |-> "WORK", type |-> type]}
    <3>1. "WORK" \in Intervals
      BY DEF Intervals
    <3> QED
      BY <2>1, <3>1, RegisterMoved
  <2>2. CASE \E e \in register, t \in (0 .. now) \ Moments :
                register' = (register \ {e}) \cup {[e EXCEPT !.at = t]}
    <3>1. PICK e \in register, t \in (0 .. now) \ Moments :
             register' = (register \ {e}) \cup {[e EXCEPT !.at = t]}
      BY <2>2
    <3>2. e \in [at : 0 .. MaxTime, interval : Intervals, type : Types]
      BY DEF HoursInv, HoursTypeOK, Event
    <3>3. [e EXCEPT !.at = t] = [at |-> t, interval |-> e.interval, type |-> e.type]
      BY <3>2
    <3>4. PICK others \in SUBSET register, interval \in Intervals, type \in Types :
             others = register \ {e} /\ interval = e.interval /\ type = e.type
      BY <3>2
    <3>5. register' = others \cup {[at |-> t, interval |-> interval, type |-> type]}
      BY <3>1, <3>3, <3>4
    <3>6. PICK moment \in 0 .. now : moment = t
      OBVIOUS
    <3>7. moment \notin Moments /\ register' = others \cup {[at |-> moment, interval |-> interval, type |-> type]}
      BY <3>5, <3>6
    <3> QED
      BY <3>7, RegisterMoved
  <2>3. CASE \E e \in register : register' = register \ {e}
    BY <2>3 DEF HoursInv, HoursTypeOK
  <2> QED
    BY <2>1, <2>2, <2>3 DEF Amend
<1>2. changes' \in 0 .. MaxChanges
  BY DEF Amend, Another, HoursInv, HoursTypeOK, HoursAssumption
<1> QED
  BY <1>1, <1>2 DEF Amend, HoursInv, HoursTypeOK, rulingVars, Reading, RosterDays

LEMMA HoursStep ==
  ASSUME ReadingAssumption, HoursAssumption, HoursInv, [HoursNext]_hoursVars
  PROVE  HoursInv'
<1>1. CASE Tick
  <2>1. now' \in 0 .. MaxTime /\ now' > now
    BY <1>1 DEF Tick, HoursInv, HoursTypeOK, HoursAssumption
  <2>2. \A e \in register : e.at <= now'
    BY <1>1, <2>1 DEF HoursInv, HoursTypeOK, Event, HoursAssumption, Tick
  <2> QED
    BY <1>1, <2>1, <2>2 DEF Tick, HoursInv, HoursTypeOK, rulingVars, Reading, RosterDays
<1>2. CASE \E ask \in Intervals \cup {"tap"} : Tap(ask)
  BY <1>2, TapInv
<1>3. CASE Amend
  BY <1>3, AmendInv
<1>4. ASSUME NEW d \in RosterDays, NEW s \in Shifts \cup {Nil}, Redraw(d, s) PROVE HoursInv'
  <2>1. changes' \in 0 .. MaxChanges
    BY <1>4 DEF Redraw, Another, HoursInv, HoursTypeOK, HoursAssumption
  <2>2. shift' \in [RosterDays -> Shifts \cup {Nil}]
    BY <1>4 DEF Redraw, HoursInv, HoursTypeOK
  <2> QED
    BY <1>4, <2>1, <2>2 DEF Redraw, HoursInv, HoursTypeOK, rulingVars, Reading, RosterDays
<1>5. ASSUME NEW r \in Rulers, NEW d \in RosterDays, ReadFigure(r, d) PROVE HoursInv'
  <2>1. Figure(d) \in 0 .. MaxTime /\ Figure(d) > 0
    BY <1>5, FigureType DEF ReadFigure
  <2> DEFINE noted == [day |-> d, minutes |-> Figure(d)]
  <2>2. noted \in [day : RosterDays, minutes : 0 .. MaxTime] /\ noted.minutes > 0
    BY <2>1
  <2>3. request' = [request EXCEPT ![r] = noted]
    BY <1>5 DEF ReadFigure
  <2> HIDE DEF noted
  <2>4. request' \in [Rulers -> [day : RosterDays, minutes : 0 .. MaxTime] \cup {Nil}]
    BY <2>2, <2>3 DEF HoursInv, HoursTypeOK
  <2>5. \A q \in Rulers : Reading(q)' => request'[q].minutes > 0
    BY <2>2, <2>3 DEF HoursInv, HoursTypeOK, Reading
  <2> QED
    BY <1>5, <2>4, <2>5 DEF ReadFigure, HoursInv, HoursTypeOK, recordVars, RosterDays
<1>6. Answered \in [day : RosterDays, minutes : 0 .. MaxTime]
  <2>1. 0 \in RosterDays
    <3>1. MaxTime \in Nat /\ DayLength \in Nat \ {0}
      BY DEF HoursAssumption, ReadingAssumption
    <3>2. DayOf(MaxTime) \in Int /\ MaxTime < (DayOf(MaxTime) + 1) * DayLength
      BY <3>1, TicksOfADay
    <3>3. DayOf(MaxTime) >= 0
      <4> SUFFICES ASSUME DayOf(MaxTime) + 1 <= 0 PROVE FALSE
        BY <3>2
      <4>1. (DayOf(MaxTime) + 1) * DayLength <= 0 * DayLength
        BY <3>2, ManyDays
      <4>2. 0 * DayLength = 0 /\ (DayOf(MaxTime) + 1) * DayLength \in Int
        BY <3>1, <3>2
      <4> QED
        BY <3>1, <3>2, <4>1, <4>2
    <3> QED
      BY <3>2, <3>3 DEF RosterDays
  <2> QED
    BY <2>1 DEF Answered, HoursAssumption
<1>7. ASSUME NEW r \in Rulers, Rule(r) PROVE HoursInv'
  <2>1. /\ request[r] \in [day : RosterDays, minutes : 0 .. MaxTime]
        /\ request[r].minutes > 0 /\ request[r].minutes \in 1 .. MaxTime
    <3>1. request[r] \in [day : RosterDays, minutes : 0 .. MaxTime]
      BY <1>7 DEF Rule, Reading, HoursInv, HoursTypeOK
    <3>2. request[r].minutes > 0
      BY <1>7 DEF Rule, HoursInv
    <3> QED
      BY <3>1, <3>2 DEF HoursAssumption
  <2>2. ruling' \in [RosterDays -> 1 .. MaxTime \cup {Nil}]
    BY <1>7, <2>1 DEF Rule, HoursInv, HoursTypeOK
  <2>3. request' \in [Rulers -> [day : RosterDays, minutes : 0 .. MaxTime] \cup {Nil}]
    BY <1>6, <1>7 DEF Rule, HoursInv, HoursTypeOK
  <2>4. \A q \in Rulers : Reading(q)' => request'[q].minutes > 0
    BY <1>7 DEF Rule, HoursInv, HoursTypeOK, Reading
  <2> QED
    BY <1>7, <2>2, <2>3, <2>4 DEF Rule, HoursInv, HoursTypeOK, recordVars, RosterDays
<1>8. ASSUME NEW r \in Rulers, GiveUp(r) PROVE HoursInv'
  <2>1. request' \in [Rulers -> [day : RosterDays, minutes : 0 .. MaxTime] \cup {Nil}]
    BY <1>6, <1>8 DEF GiveUp, HoursInv, HoursTypeOK
  <2>2. \A q \in Rulers : Reading(q)' => request'[q].minutes > 0
    BY <1>8 DEF GiveUp, HoursInv, HoursTypeOK, Reading
  <2> QED
    BY <1>8, <2>1, <2>2 DEF GiveUp, HoursInv, HoursTypeOK, recordVars, RosterDays
<1>9. CASE UNCHANGED hoursVars
  BY <1>9 DEF hoursVars, recordVars, rulingVars, HoursInv, HoursTypeOK, Reading, RosterDays
<1> QED
  BY <1>1, <1>2, <1>3, <1>4, <1>5, <1>7, <1>8, <1>9 DEF HoursNext

LEMMA HoursAlways ==
  ASSUME ReadingAssumption, HoursAssumption, RosterAssumption
  PROVE  HoursSpec => []HoursInv
<1>1. HoursInit => HoursInv
  BY HoursInitInv
<1>2. HoursInv /\ [HoursNext]_hoursVars => HoursInv'
  BY HoursStep
<1> QED
  BY <1>1, <1>2, PTL DEF HoursSpec

-----------------------------------------------------------------------------
(* Theorems                                                                 *)

\* The figures of a person's days keep their types: in particular no reading
\* of the register, whatever taps and corrections made it, counts more hours
\* than have gone by, nor fewer than none, so what a ruling records is the
\* time of somebody who did work over the roster.
THEOREM HoursTypeCorrect ==
  ASSUME ReadingAssumption, HoursAssumption, RosterAssumption
  PROVE  HoursSpec => []HoursTypeOK
<1>1. HoursInv => HoursTypeOK
  BY DEF HoursInv
<1> QED
  BY <1>1, HoursAlways, PTL

LEMMA RosterDaysAreDays ==
  ASSUME ReadingAssumption, HoursAssumption
  PROVE  DayOf(MaxTime) \in Int /\ RosterDays \subseteq Nat
<1>1. MaxTime \in Int
  BY DEF HoursAssumption
<1>2. DayOf(MaxTime) \in Int
  BY <1>1, TicksOfADay
<1> QED
  BY <1>2 DEF RosterDays

\* Every event is of one working day and of the same for the screen, the
\* document and the overtime queue (workday.py), in any register without two
\* entries in a row.
THEOREM EventsBelongToOneDay ==
  ASSUME ReadingAssumption, HoursAssumption, RosterAssumption, OpenAtMostADay
  PROVE  HoursSpec => []EventBelongsToOneDay
<1>1. HoursInv => EventBelongsToOneDay
  <2> SUFFICES ASSUME HoursInv, ~TwoEntriesInARow, NEW d \in RosterDays
               PROVE  /\ PunchesOfTheWorkday(register, d) = OfDay(register, d)
                      /\ d \in Rostered => QueueEvents(register, Rostered, d) = OfDay(register, d)
                      /\ \A first \in 0 .. d : ReportEvents(register, first, d, d) = OfDay(register, d)
    BY DEF EventBelongsToOneDay
  <2>1. Readable(register) /\ ~TwoIn(register)
    BY TheRegisterIsReadable DEF TwoIn, TwoEntriesInARow
  <2>2. d \in Nat
    BY RosterDaysAreDays
  <2>3. PunchesOfTheWorkday(register, d) = OfDay(register, d)
    BY <2>1, <2>2, TheScreenHasItAll
  <2>4. ASSUME d \in Rostered PROVE QueueEvents(register, Rostered, d) = OfDay(register, d)
    <3>1. PICK n \in Nat : RosterDays = 0 .. n
      BY RosterDaysAreDays, <2>2 DEF RosterDays
    <3>2. Rostered \in SUBSET (0 .. n)
      BY <3>1 DEF Rostered
    <3> QED
      BY <2>1, <2>4, <3>2, TheQueueHasItAll
  <2>5. ASSUME NEW first \in 0 .. d PROVE ReportEvents(register, first, d, d) = OfDay(register, d)
    BY <2>1, <2>2, TheDocumentHasItAll
  <2> QED
    BY <2>3, <2>4, <2>5
<1> QED
  BY <1>1, HoursAlways, PTL

\* The hours of a day that is over are the same on the screen and in the
\* document, whatever period it covers (build_day_status, build_report).
THEOREM ReportAgrees ==
  ASSUME ReadingAssumption, HoursAssumption, RosterAssumption
  PROVE  HoursSpec => []ReportAgreesWithScreen
<1>1. HoursInv => ReportAgreesWithScreen
  <2> SUFFICES ASSUME HoursInv, ~TwoEntriesInARow, NEW d \in RosterDays, Status(d).state = "OFF",
                      NEW last \in RosterDays, d <= last
               PROVE  Reported(register, d, last, d) = Status(d).worked
    BY DEF ReportAgreesWithScreen
  <2>1. Readable(register) /\ ~TwoIn(register)
    BY TheRegisterIsReadable DEF TwoIn, TwoEntriesInARow
  <2>2. d \in Nat /\ last \in Nat /\ now \in Nat
    BY RosterDaysAreDays DEF HoursInv, HoursTypeOK
  <2> DEFINE own == PunchesOfTheWorkday(register, d)
  <2>3. ReportEvents(register, d, last, d) = own
    BY <2>1, <2>2, TheDocumentHasItAll, TheScreenHasItAll
  <2>4. Readable(own) /\ \A x \in own : x.at <= now
    BY TheScreenReadsTheRegister
  <2>5. Status(d) = DayStatus(own, now)
    BY DEF Status, Screen
  <2> HIDE DEF own
  <2>6. Status(d).worked = LessTheBreak(Paired(own).hours)
    BY <2>2, <2>4, <2>5, OfAStatus
  <2> QED
    BY <2>3, <2>6 DEF Reported
<1> QED
  BY <1>1, HoursAlways, PTL

\* No excess over the roster is silent: it waits in the queue with the figure
\* a ruling would record, or that figure was ruled on (pending_overtime).
THEOREM NoExcessGoesSilent ==
  ASSUME ReadingAssumption, HoursAssumption, RosterAssumption, OpenAtMostADay
  PROVE  HoursSpec => []NoExcessIsSilent
<1>1. EventBelongsToOneDay => NoExcessIsSilent
  <2> SUFFICES ASSUME EventBelongsToOneDay, ~TwoEntriesInARow
               PROVE  Queue = {pair \in {<<d, Figure(d)>> : d \in Rostered} :
                                  pair[2] > 0 /\ ruling[pair[1]] # pair[2]}
    BY DEF NoExcessIsSilent
  <2>1. \A d \in Rostered : Excess(d) = Figure(d)
    BY DEF EventBelongsToOneDay, Rostered, Excess, Figure, Status, Screen
  <2>2. {<<d, Excess(d)>> : d \in Rostered} = {<<d, Figure(d)>> : d \in Rostered}
    BY <2>1
  <2> QED
    BY <2>2 DEF Queue
<1> QED
  BY <1>1, EventsBelongToOneDay, PTL

-----------------------------------------------------------------------------
(* The review of a roster, window by window                                 *)

\* What the review supposes of the roster it reads.
RosterInv == person \in Profiles /\ roster \in [Dates -> Patterns \cup {{}}]

LEMMA RosterAlways == ReviewSpec => []RosterInv
<1>1. ReviewInit => RosterInv
  BY DEF ReviewInit, RosterInv
<1>2. RosterInv /\ [ReviewNext]_reviewVars => RosterInv'
  <2> SUFFICES ASSUME RosterInv, [ReviewNext]_reviewVars PROVE RosterInv'
    OBVIOUS
  <2>1. CASE \E d \in DrawnDays, p \in Patterns \cup {{}} : Draw(d, p)
    BY <2>1 DEF Draw, RosterInv
  <2>2. CASE \E d \in DrawnDays, p \in Patterns : Cover(d, p)
    BY <2>2 DEF Cover, RosterInv
  <2>3. CASE \E d \in Dates : LiveDay(d)
    BY <2>3 DEF LiveDay, RosterInv
  <2>4. CASE UNCHANGED reviewVars
    BY <2>4 DEF reviewVars, RosterInv
  <2> QED
    BY <2>1, <2>2, <2>3, <2>4 DEF ReviewNext
<1> QED
  BY <1>1, <1>2, PTL DEF ReviewSpec

LEMMA DaysWithAShift ==
  ASSUME RosterInv, NEW D, NEW d
  PROVE  d \in WithShift(D) <=> d \in D /\ d \in Dates /\ roster[d] \in Patterns /\ roster[d] # {}
BY DEF WithShift, RosterInv

\* Weeks begin a whole number of weeks apart.
LEMMA WeekOfADay ==
  ASSUME WeeksAssumption, NEW d \in Int
  PROVE  /\ Weekday(d) \in 0 .. DaysAWeek - 1 /\ Monday(d) \in Int
         /\ Monday(d) <= d /\ d < Monday(d) + DaysAWeek
         /\ \E q \in Int : Monday(d) = DaysAWeek * q - FirstWeekday
<1>1. DaysAWeek \in Nat \ {0} /\ FirstWeekday \in Int
  BY DEF WeeksAssumption
<1>2. \A n \in Nat \ {0} : \A x \in Int : \E q \in Int, m \in 0 .. n - 1 :
         x = n * q + m /\ x % n = m
  <2> TAKE n \in Nat \ {0}
  <2> TAKE x \in Int
  <2> WITNESS x \div n \in Int, x % n \in 0 .. n - 1
  <2> QED
    OBVIOUS
<1>3. PICK q \in Int, m \in 0 .. DaysAWeek - 1 :
         FirstWeekday + d = DaysAWeek * q + m /\ (FirstWeekday + d) % DaysAWeek = m
  <2>1. FirstWeekday + d \in Int
    BY <1>1
  <2> QED
    BY <1>1, <1>2, <2>1
<1>4. DaysAWeek * q \in Int
  BY <1>1
<1>5. Weekday(d) = m /\ Monday(d) = DaysAWeek * q - FirstWeekday
  BY <1>1, <1>3, <1>4 DEF Weekday, Monday
<1> QED
  BY <1>1, <1>3, <1>4, <1>5

LEMMA OneMonday ==
  ASSUME WeeksAssumption, NEW a \in Int, NEW b \in Int,
         Monday(a) < Monday(b) + DaysAWeek, Monday(b) < Monday(a) + DaysAWeek
  PROVE  Monday(a) = Monday(b)
<1>1. DaysAWeek \in Nat \ {0} /\ FirstWeekday \in Int
  BY DEF WeeksAssumption
<1>2. PICK p \in Int : Monday(a) = DaysAWeek * p - FirstWeekday
  BY WeekOfADay
<1>3. PICK q \in Int : Monday(b) = DaysAWeek * q - FirstWeekday
  BY WeekOfADay
<1>4. DaysAWeek * (p - q) = DaysAWeek * p - DaysAWeek * q
      /\ DaysAWeek * p \in Int /\ DaysAWeek * q \in Int /\ DaysAWeek * (p - q) \in Int
  BY <1>1
<1>5. DaysAWeek * (p - q) < DaysAWeek /\ -DaysAWeek < DaysAWeek * (p - q)
  BY <1>1, <1>2, <1>3, <1>4
<1>6. p - q = 0
  <2>1. CASE p - q >= 1
    <3>1. DaysAWeek * (p - q) >= DaysAWeek
      BY <1>1, <2>1
    <3> QED
      BY <1>1, <1>4, <1>5, <3>1
  <2>2. CASE p - q <= -1
    <3>1. DaysAWeek * (p - q) <= -DaysAWeek
      BY <1>1, <2>2
    <3> QED
      BY <1>1, <1>4, <1>5, <3>1
  <2> QED
    BY <2>1, <2>2
<1>7. p = q
  BY <1>6
<1> QED
  BY <1>2, <1>3, <1>7

LEMMA WeeksInOrder ==
  ASSUME WeeksAssumption, NEW a \in Int, NEW b \in Int, a <= b
  PROVE  Monday(a) <= Monday(b)
<1> SUFFICES ASSUME Monday(b) < Monday(a) PROVE FALSE
  BY WeekOfADay
<1>1. DaysAWeek \in Nat
  BY DEF WeeksAssumption
<1>2. /\ Monday(a) \in Int /\ Monday(a) <= a /\ a < Monday(a) + DaysAWeek
      /\ Monday(b) \in Int /\ Monday(b) <= b /\ b < Monday(b) + DaysAWeek
  BY WeekOfADay
<1>3. Monday(a) = Monday(b)
  BY <1>1, <1>2, OneMonday
<1> QED
  BY <1>2, <1>3

\* How far the review reads: the day before and the day after, and the whole
\* weeks of both ends.
FirstRead(f) == f - Max({1, Weekday(f)})
LastRead(l)  == l + Max({1, DaysAWeek - 1 - Weekday(l)})

LEMMA MaxOfTwo ==
  ASSUME NEW a \in Int, NEW b \in Int
  PROVE  Max({a, b}) = IF a >= b THEN a ELSE b
<1> DEFINE m == IF a >= b THEN a ELSE b
<1>1. m \in {a, b} /\ \A y \in {a, b} : m >= y
  OBVIOUS
<1>2. \A x \in {a, b} : (\A y \in {a, b} : x >= y) => x = m
  OBVIOUS
<1> QED
  BY <1>1, <1>2 DEF Max

LEMMA HowFar ==
  ASSUME WeeksAssumption, NEW d \in Int
  PROVE  /\ FirstRead(d) \in Int /\ FirstRead(d) < d /\ FirstRead(d) <= Monday(d)
         /\ FirstRead(d) = d - 1 \/ FirstRead(d) = Monday(d)
         /\ LastRead(d) \in Int /\ LastRead(d) > d /\ LastRead(d) >= Monday(d) + DaysAWeek - 1
         /\ LastRead(d) = d + 1 \/ LastRead(d) = Monday(d) + DaysAWeek - 1
<1>1. DaysAWeek \in Nat /\ Weekday(d) \in Int /\ Monday(d) \in Int
  BY WeekOfADay DEF WeeksAssumption
<1>2. Max({1, Weekday(d)}) = IF 1 >= Weekday(d) THEN 1 ELSE Weekday(d)
  BY <1>1, MaxOfTwo
<1>3. Max({1, DaysAWeek - 1 - Weekday(d)}) =
        IF 1 >= DaysAWeek - 1 - Weekday(d) THEN 1 ELSE DaysAWeek - 1 - Weekday(d)
  BY <1>1, MaxOfTwo
<1>4. Monday(d) = d - Weekday(d)
  BY DEF Monday
<1> HIDE DEF Monday
<1> QED
  BY <1>1, <1>2, <1>3, <1>4 DEF FirstRead, LastRead

LEMMA NarrowerReads ==
  ASSUME WeeksAssumption, NEW a \in Int, NEW b \in Int, a <= b
  PROVE  FirstRead(a) <= FirstRead(b) /\ LastRead(a) <= LastRead(b)
<1>1. Monday(a) <= Monday(b) /\ Monday(a) \in Int /\ Monday(b) \in Int /\ DaysAWeek \in Nat
  BY WeeksInOrder, WeekOfADay DEF WeeksAssumption
<1> QED
  BY <1>1, HowFar

\* What a window reads is what is read of its two halves.
LEMMA HalvesReadItAll ==
  ASSUME WeeksAssumption, NEW f \in Int, NEW k \in Int, NEW l \in Int, f <= k, k < l
  PROVE  Loaded(f, l) = Loaded(f, k) \cup Loaded(k + 1, l)
<1>1. FirstRead(f) <= FirstRead(k + 1) /\ LastRead(k) <= LastRead(l)
  BY NarrowerReads
<1>2. /\ FirstRead(k + 1) <= k /\ FirstRead(f) < f /\ LastRead(k) > k /\ LastRead(l) > l
      /\ FirstRead(f) \in Int /\ FirstRead(k + 1) \in Int
      /\ LastRead(k) \in Int /\ LastRead(l) \in Int
  BY HowFar
<1>3. FirstRead(f) .. LastRead(l) = (FirstRead(f) .. LastRead(k)) \cup (FirstRead(k + 1) .. LastRead(l))
  BY <1>1, <1>2
<1>4. \A a, b \in Int : Loaded(a, b) = WithShift(FirstRead(a) .. LastRead(b))
  BY DEF Loaded, Read, FirstRead, LastRead
<1> QED
  BY <1>3, <1>4 DEF WithShift

-----------------------------------------------------------------------------

LEMMA TheLastOfSome ==
  ASSUME NEW n \in Nat, NEW S \in SUBSET (0 .. n), S # {}
  PROVE  Max(S) \in S /\ \A x \in S : x <= Max(S)
<1>6. S \subseteq Int
  OBVIOUS
<1> DEFINE T == {n - x : x \in S}
<1>1. T \in SUBSET Nat /\ T # {}
  OBVIOUS
<1>2. PICK y \in T : \A z \in T : y <= z
  BY <1>1, LeastNumber
<1>3. PICK s \in S : y = n - s
  BY <1>2
<1>4. \A x \in S : s >= x
  <2> TAKE x \in S
  <2>1. n - x \in T /\ y <= n - x
    BY <1>2
  <2>2. s \in Int /\ x \in Int
    BY <1>6
  <2> QED
    BY <1>3, <2>1, <2>2
<1>5. Max(S) \in S /\ \A x \in S : Max(S) >= x
  BY <1>4 DEF Max
<1> QED
  BY <1>5, <1>6

ShortAfter(days, d) == Before(days, d) # {} /\ Rest(Eve(days, d), d) < Rules.dailyRest
RestCode(days, d) ==
    IF /\ person.rotating /\ FirstStart(roster[d]) # FirstStart(roster[Eve(days, d)])
       /\ Rest(Eve(days, d), d) >= Law.changeover
    THEN "changeover_rest_owed" ELSE "short_daily_rest"

LEMMA RestsSaid ==
  ASSUME NEW f, NEW l
  PROVE  DailyRest(f, l) = {Finding(d, RestCode(Loaded(f, l), d)) :
                               d \in {e \in Loaded(f, l) \cap (f .. l) : ShortAfter(Loaded(f, l), e)}}
BY DEF DailyRest, ShortAfter, RestCode

\* A window says of the rest before a day what a wider one does: it reads the
\* day before, and with an earlier shift nobody lacks rest.
LEMMA RestInANarrowWindow ==
  ASSUME WeeksAssumption, ADayOffIsARest, RosterInv,
         NEW f \in Int, NEW l \in Int, NEW g \in Int, NEW h \in Int, f <= g, h <= l,
         NEW d \in g .. h
  PROVE  /\ d \in Loaded(f, l) <=> d \in Loaded(g, h)
         /\ d \in Loaded(g, h) => (ShortAfter(Loaded(f, l), d) <=> ShortAfter(Loaded(g, h), d))
         /\ ShortAfter(Loaded(g, h), d) => RestCode(Loaded(f, l), d) = RestCode(Loaded(g, h), d)
<1> DEFINE wide == Loaded(f, l)
           narrower == Loaded(g, h)
<1>1. /\ FirstRead(f) <= FirstRead(g) /\ LastRead(h) <= LastRead(l)
      /\ FirstRead(f) \in Int /\ FirstRead(g) \in Int /\ FirstRead(g) < g
      /\ LastRead(h) \in Int /\ LastRead(l) \in Int /\ h < LastRead(h)
  BY NarrowerReads, HowFar
<1>2. \A a, b \in Int : Loaded(a, b) = WithShift(FirstRead(a) .. LastRead(b))
  BY DEF Loaded, Read, FirstRead, LastRead
<1>3. wide = WithShift(FirstRead(f) .. LastRead(l)) /\ narrower = WithShift(FirstRead(g) .. LastRead(h))
  BY <1>2
<1>4. /\ LastDate \in Nat /\ wide \in SUBSET (0 .. LastDate) /\ narrower \in SUBSET (0 .. LastDate)
  BY <1>3 DEF WeeksAssumption, WithShift, Dates
<1>5. \A e \in Int : e \in narrower <=> e \in wide /\ FirstRead(g) <= e /\ e <= LastRead(h)
  BY <1>1, <1>3 DEF WithShift
<1> HIDE DEF wide, narrower
<1> narrower \subseteq Int /\ wide \subseteq Int
  BY <1>4
<1>6. d \in wide <=> d \in narrower
  BY <1>1, <1>5
<1>7. ASSUME Before(narrower, d) # {} PROVE Before(wide, d) # {} /\ Eve(wide, d) = Eve(narrower, d)
  <2>1. Before(narrower, d) \in SUBSET (0 .. LastDate) /\ Before(wide, d) \in SUBSET (0 .. LastDate)
    BY <1>4 DEF Before
  <2>2. Before(narrower, d) \subseteq Before(wide, d)
    BY <1>4, <1>5 DEF Before
  <2>3. /\ Eve(narrower, d) \in Before(narrower, d)
        /\ \A x \in Before(narrower, d) : x <= Eve(narrower, d)
    BY <1>4, <1>7, <2>1, TheLastOfSome DEF Eve
  <2>4. /\ Eve(wide, d) \in Before(wide, d)
        /\ \A x \in Before(wide, d) : x <= Eve(wide, d)
    BY <1>4, <1>7, <2>1, <2>2, TheLastOfSome DEF Eve
  <2>5. Eve(narrower, d) <= Eve(wide, d)
    BY <2>2, <2>3, <2>4
  <2>6. Eve(wide, d) \in Before(narrower, d)
    <3>1. Eve(wide, d) \in wide /\ Eve(wide, d) < d /\ Eve(narrower, d) \in narrower
      BY <2>3, <2>4 DEF Before
    <3>2. Eve(wide, d) \in Int /\ Eve(narrower, d) \in Int /\ FirstRead(g) <= Eve(narrower, d)
      BY <1>4, <1>5, <3>1
    <3>3. Eve(wide, d) \in narrower
      BY <1>1, <1>5, <2>5, <3>1, <3>2
    <3> QED
      BY <3>1, <3>3 DEF Before
  <2>7. Eve(wide, d) <= Eve(narrower, d) /\ Eve(wide, d) \in Int /\ Eve(narrower, d) \in Int
    BY <2>1, <2>3, <2>4, <2>6
  <2> QED
    BY <2>2, <1>7, <2>5, <2>7
<1>8. ASSUME d \in narrower, Before(narrower, d) = {} PROVE ~ShortAfter(wide, d)
  <2> SUFFICES ASSUME Before(wide, d) # {} PROVE ~(Rest(Eve(wide, d), d) < Rules.dailyRest)
    BY DEF ShortAfter
  <2> DEFINE e == Eve(wide, d)
  <2>1. e \in Before(wide, d)
    <3>1. Before(wide, d) \in SUBSET (0 .. LastDate)
      BY <1>4 DEF Before
    <3> QED
      BY <1>4, <3>1, TheLastOfSome DEF Eve
  <2> HIDE DEF e
  <2>2. e \in wide /\ e \in Int /\ e < d /\ e \notin narrower
    BY <1>4, <1>8, <2>1 DEF Before
  <2>3. e + 1 < d
    BY <1>1, <1>5, <2>2
  <2>4. e \in Dates /\ d \in Dates /\ roster[e] \in Patterns /\ roster[d] \in Patterns
    BY <1>3, <1>8, <2>2, DaysWithAShift
  <2>5. ~(RealGap(EndsAt(e, roster[e]), StartsAt(d, roster[d])) < Rules.dailyRest)
    BY <2>3, <2>4 DEF ADayOffIsARest
  <2> QED
    BY <2>5 DEF Rest, e
<1>9. d \in narrower => (ShortAfter(wide, d) <=> ShortAfter(narrower, d))
  <2>1. CASE Before(narrower, d) = {}
    BY <1>8, <2>1 DEF ShortAfter
  <2>2. CASE Before(narrower, d) # {}
    BY <1>7, <2>2 DEF ShortAfter
  <2> QED
    BY <2>1, <2>2
<1>10. ShortAfter(narrower, d) => RestCode(wide, d) = RestCode(narrower, d)
  <2> SUFFICES ASSUME ShortAfter(narrower, d) PROVE RestCode(wide, d) = RestCode(narrower, d)
    OBVIOUS
  <2>1. Eve(wide, d) = Eve(narrower, d)
    BY <1>7 DEF ShortAfter
  <2> QED
    BY <2>1 DEF RestCode
<1> QED
  BY <1>6, <1>9, <1>10 DEF wide, narrower

LEMMA RestByHalves ==
  ASSUME WeeksAssumption, ADayOffIsARest, RosterInv,
         NEW f \in Int, NEW k \in Int, NEW l \in Int, f <= k, k < l
  PROVE  DailyRest(f, l) = DailyRest(f, k) \cup DailyRest(k + 1, l)
<1> DEFINE Said(a, b, d) == d \in Loaded(a, b) /\ ShortAfter(Loaded(a, b), d)
<1>1. \A a, b \in Int : DailyRest(a, b) =
         {Finding(d, RestCode(Loaded(a, b), d)) : d \in {e \in a .. b : Said(a, b, e)}}
  <2> TAKE a \in Int, b \in Int
  <2>1. {e \in Loaded(a, b) \cap (a .. b) : ShortAfter(Loaded(a, b), e)} = {e \in a .. b : Said(a, b, e)}
    OBVIOUS
  <2> QED
    BY <2>1, RestsSaid
<1>2. \A d \in f .. k :
         /\ Said(f, l, d) <=> Said(f, k, d)
         /\ Said(f, k, d) => RestCode(Loaded(f, l), d) = RestCode(Loaded(f, k), d)
  <2> TAKE d \in f .. k
  <2>1. f <= f /\ k <= l
    OBVIOUS
  <2>2. /\ d \in Loaded(f, l) <=> d \in Loaded(f, k)
        /\ d \in Loaded(f, k) => (ShortAfter(Loaded(f, l), d) <=> ShortAfter(Loaded(f, k), d))
        /\ ShortAfter(Loaded(f, k), d) => RestCode(Loaded(f, l), d) = RestCode(Loaded(f, k), d)
    BY <2>1, RestInANarrowWindow
  <2> QED
    BY <2>2
<1>3. \A d \in (k + 1) .. l :
         /\ Said(f, l, d) <=> Said(k + 1, l, d)
         /\ Said(k + 1, l, d) => RestCode(Loaded(f, l), d) = RestCode(Loaded(k + 1, l), d)
  <2> TAKE d \in (k + 1) .. l
  <2>1. f <= k + 1 /\ l <= l /\ k + 1 \in Int
    OBVIOUS
  <2>2. /\ d \in Loaded(f, l) <=> d \in Loaded(k + 1, l)
        /\ d \in Loaded(k + 1, l) => (ShortAfter(Loaded(f, l), d) <=> ShortAfter(Loaded(k + 1, l), d))
        /\ ShortAfter(Loaded(k + 1, l), d) => RestCode(Loaded(f, l), d) = RestCode(Loaded(k + 1, l), d)
    BY <2>1, RestInANarrowWindow
  <2> QED
    BY <2>2
<1>4. f .. l = (f .. k) \cup ((k + 1) .. l)
  OBVIOUS
<1> HIDE DEF Said
<1>5. ASSUME NEW x \in DailyRest(f, l) PROVE x \in DailyRest(f, k) \cup DailyRest(k + 1, l)
  BY <1>1, <1>2, <1>3, <1>4
<1>6. ASSUME NEW x \in DailyRest(f, k) PROVE x \in DailyRest(f, l)
  BY <1>1, <1>2, <1>4
<1>7. ASSUME NEW x \in DailyRest(k + 1, l) PROVE x \in DailyRest(f, l)
  BY <1>1, <1>3, <1>4
<1> QED
  BY <1>5, <1>6, <1>7

-----------------------------------------------------------------------------

\* The reductions of a contract that meet a window and a week.
Meeting(f, l, m) ==
    {r \in person.reductions :
        r.from <= l /\ r.to >= f /\ r.from <= m + DaysAWeek - 1 /\ r.to >= m}

LEMMA ReductionIs ==
  ASSUME ProfilesAssumption, RosterInv, NEW f, NEW l, NEW m
  PROVE  /\ Reduction(f, l, m) \in 0 .. 100
         /\ \A r \in Meeting(f, l, m) : r.share <= Reduction(f, l, m)
         /\ Reduction(f, l, m) = 0 \/ \E r \in Meeting(f, l, m) : Reduction(f, l, m) = r.share
<1> DEFINE shares == {0} \cup {r.share : r \in Meeting(f, l, m)}
<1>1. person.reductions \subseteq [from : Int, to : Int, share : 0 .. 100]
  BY DEF ProfilesAssumption, RosterInv
<1>2. shares \in SUBSET (0 .. 100) /\ shares # {}
  BY <1>1 DEF Meeting
<1>3. Reduction(f, l, m) = Max(shares)
  <2>1. {x \in person.reductions : (x.from <= l /\ x.to >= f)
                                    /\ (x.from <= m + DaysAWeek - 1 /\ x.to >= m)} = Meeting(f, l, m)
    BY DEF Meeting
  <2> QED
    BY <2>1 DEF Reduction
<1>4. Max(shares) \in shares /\ \A x \in shares : x <= Max(shares)
  <2> HIDE DEF shares
  <2> QED
    BY <1>2, TheLastOfSome
<1> QED
  BY <1>2, <1>3, <1>4

\* The sums of the review are those of the hours of each span, and of each day.
SpansUnfold(g, t) == IF t = {} THEN 0 ELSE SpanHours(Chosen(t)) + g[t \ {Chosen(t)}]
DaysUnfold(g, t)  == IF t = {} THEN 0 ELSE HoursOf(roster[Chosen(t)]) + g[t \ {Chosen(t)}]
SpansFolding(p) == CHOOSE g : g = [t \in SUBSET p |-> SpansUnfold(g, t)]
DaysFolding(D)  == CHOOSE g : g = [t \in SUBSET D |-> DaysUnfold(g, t)]

LEMMA HoursAreFolded == ASSUME NEW p PROVE HoursOf(p) = SpansFolding(p)[p]
BY DEF HoursOf, MapThenSumSet, MapThenFoldSet, SpansFolding, SpansUnfold, Chosen

LEMMA DaysAreFolded == ASSUME NEW D PROVE Sum(D) = DaysFolding(D)[D]
BY DEF Sum, MapThenSumSet, MapThenFoldSet, DaysFolding, DaysUnfold, Chosen

LEMMA HoursOfAShift ==
  ASSUME ClockAssumption, ProfilesAssumption, NEW p \in Patterns
  PROVE  HoursOf(p) \in Nat
<1> DEFINE f == [s \in p |-> SpanHours(s)]
<1>1. IsFiniteSet(p) /\ DayHours \in Nat /\ \A s \in p : s.start \in 0 .. DayHours - 1 /\ s.end \in 0 .. DayHours - 1
  BY DEF ProfilesAssumption, ClockAssumption
<1>2. \A s \in p : f[s] \in Nat
  BY <1>1 DEF SpanHours
<1>3. \A t \in SUBSET p : t # {} => f[Chosen(t)] = SpanHours(Chosen(t))
  BY DEF Chosen
<1> HIDE DEF f
<1>4. ASSUME NEW g PROVE [t \in SUBSET p |-> SpansUnfold(g, t)] = [t \in SUBSET p |-> Unfold(f, g, t)]
  <2>1. \A t \in SUBSET p : SpansUnfold(g, t) = Unfold(f, g, t)
    BY <1>3 DEF SpansUnfold, Unfold
  <2> QED
    BY <2>1
<1>5. SpansFolding(p) = Folding(f, p)
  BY <1>4, Zenon DEF SpansFolding, Folding
<1>6. HoursOf(p) = SumFunctionOnSet(f, p)
  BY <1>5, HoursAreFolded, SumIsFolding
<1> QED
  BY <1>1, <1>2, <1>6, SumTakesApart DEF TakesApart

LEMMA HoursOfSomeDays ==
  ASSUME ClockAssumption, WeeksAssumption, ProfilesAssumption, RosterInv, NEW D
  PROVE  Sum(WithShift(D)) \in Nat
<1> DEFINE S == WithShift(D)
           f == [d \in S |-> HoursOf(roster[d])]
<1>1. IsFiniteSet(S)
  <2>1. S \subseteq 0 .. LastDate /\ IsFiniteSet(0 .. LastDate)
    BY FS_Interval DEF WithShift, Dates, WeeksAssumption
  <2> QED
    BY <2>1, FS_Subset
<1>2. \A d \in S : f[d] \in Nat
  BY HoursOfAShift, DaysWithAShift
<1> HIDE DEF S
<1>3. \A t \in SUBSET S : t # {} => f[Chosen(t)] = HoursOf(roster[Chosen(t)])
  BY DEF Chosen
<1> HIDE DEF f
<1>4. ASSUME NEW g PROVE [t \in SUBSET S |-> DaysUnfold(g, t)] = [t \in SUBSET S |-> Unfold(f, g, t)]
  <2>1. \A t \in SUBSET S : DaysUnfold(g, t) = Unfold(f, g, t)
    BY <1>3 DEF DaysUnfold, Unfold
  <2> QED
    BY <2>1
<1>5. DaysFolding(S) = Folding(f, S)
  BY <1>4, Zenon DEF DaysFolding, Folding
<1>6. Sum(S) = SumFunctionOnSet(f, S)
  BY <1>5, DaysAreFolded, SumIsFolding
<1>7. Sum(S) \in Nat
  BY <1>1, <1>2, <1>6, SumTakesApart DEF TakesApart
<1> QED
  BY <1>7 DEF S

\* The weeks of a shift that meet a window.
WeekMeets(d, f, l) == Monday(d) + DaysAWeek - 1 >= f /\ Monday(d) <= l

\* Such a week is read whole.
LEMMA WeekIsRead ==
  ASSUME WeeksAssumption, NEW f \in Int, NEW l \in Int, NEW d \in Int, WeekMeets(d, f, l)
  PROVE  d \in WeekOf(Monday(d)) /\ WeekOf(Monday(d)) \subseteq Read(f, l)
<1>1. /\ Monday(d) \in Int /\ Monday(d) <= d /\ d < Monday(d) + DaysAWeek
      /\ Monday(f) \in Int /\ Monday(f) <= f /\ f < Monday(f) + DaysAWeek
      /\ Monday(l) \in Int /\ Monday(l) <= l /\ l < Monday(l) + DaysAWeek
      /\ DaysAWeek \in Nat
  BY WeekOfADay DEF WeeksAssumption
<1>2. FirstRead(f) \in Int /\ FirstRead(f) <= Monday(f)
      /\ LastRead(l) \in Int /\ LastRead(l) >= Monday(l) + DaysAWeek - 1
  BY HowFar
<1>3. Monday(f) <= Monday(d)
  <2> SUFFICES ASSUME Monday(d) < Monday(f) PROVE FALSE
    BY <1>1
  <2>1. Monday(f) < Monday(d) + DaysAWeek /\ Monday(d) < Monday(f) + DaysAWeek
    BY <1>1 DEF WeekMeets
  <2>2. Monday(f) = Monday(d)
    BY <2>1, OneMonday
  <2> QED
    BY <1>1, <2>2
<1>4. Monday(d) <= Monday(l)
  <2> SUFFICES ASSUME Monday(l) < Monday(d) PROVE FALSE
    BY <1>1
  <2>1. Monday(l) < Monday(d) + DaysAWeek /\ Monday(d) < Monday(l) + DaysAWeek
    BY <1>1 DEF WeekMeets
  <2>2. Monday(l) = Monday(d)
    BY <2>1, OneMonday
  <2> QED
    BY <1>1, <2>2
<1>5. Read(f, l) = FirstRead(f) .. LastRead(l)
  BY DEF Read, FirstRead, LastRead
<1> QED
  BY <1>1, <1>2, <1>3, <1>4, <1>5 DEF WeekOf

SaidOfTheWeek(f, l, m) ==
    OverTheWeek(f, l, m, Sum(WithShift(WeekOf(m))), "weekly_hours_exceeded", "over_contracted_hours")

\* What is said of weeks: of each that has a shift and meets the window.
LEMMA WeeksSaid ==
  ASSUME WeeksAssumption, NEW f \in Int, NEW l \in Int
  PROVE  WeeklyHours(f, l) =
           (UNION {SaidOfTheWeek(f, l, Monday(d)) : d \in {e \in WithShift(Dates) : WeekMeets(e, f, l)}})
           \cup (IF person.agreed.per = "none" /\ Loaded(f, l) # {}
                 THEN {Finding(f, "no_agreed_weekly_hours")} ELSE {})
<1> DEFINE weeks == {m \in {Monday(d) : d \in Loaded(f, l)} : m + DaysAWeek - 1 >= f /\ m <= l}
           drawn == {e \in WithShift(Dates) : WeekMeets(e, f, l)}
<1>1. \A D : WithShift(D) \subseteq Dates /\ WithShift(D) \subseteq D
  BY DEF WithShift
<1>2. Dates \subseteq Int
  BY DEF Dates, WeeksAssumption
<1>3. ASSUME NEW d \in drawn
      PROVE  /\ d \in Loaded(f, l)
             /\ Loaded(f, l) \cap WeekOf(Monday(d)) = WithShift(WeekOf(Monday(d)))
  <2>1. d \in Int /\ WeekMeets(d, f, l)
    BY <1>1, <1>2
  <2>2. d \in WeekOf(Monday(d)) /\ WeekOf(Monday(d)) \subseteq Read(f, l)
    BY <2>1, WeekIsRead
  <2> QED
    BY <2>2 DEF Loaded, WithShift
<1>4. weeks = {Monday(d) : d \in drawn}
  <2>1. ASSUME NEW m \in weeks PROVE m \in {Monday(d) : d \in drawn}
    <3>1. PICK d \in Loaded(f, l) : m = Monday(d)
      OBVIOUS
    <3>2. d \in WithShift(Dates)
      BY <3>1 DEF Loaded, WithShift
    <3>3. WeekMeets(d, f, l)
      BY <3>1 DEF WeekMeets
    <3> QED
      BY <3>1, <3>2, <3>3
  <2>2. ASSUME NEW d \in drawn PROVE Monday(d) \in weeks
    BY <1>3 DEF WeekMeets
  <2> QED
    BY <2>1, <2>2
<1>5. \A d \in drawn :
         OverTheWeek(f, l, Monday(d), Sum(Loaded(f, l) \cap WeekOf(Monday(d))),
                     "weekly_hours_exceeded", "over_contracted_hours")
           = SaidOfTheWeek(f, l, Monday(d))
  BY <1>3 DEF SaidOfTheWeek
<1> HIDE DEF drawn
<1>6. {OverTheWeek(f, l, m, Sum(Loaded(f, l) \cap WeekOf(m)),
                   "weekly_hours_exceeded", "over_contracted_hours") : m \in weeks}
        = {SaidOfTheWeek(f, l, Monday(d)) : d \in drawn}
  <2> HIDE DEF weeks
  <2> QED
    BY <1>4, <1>5
<1>7. WeeklyHours(f, l) =
        (UNION {OverTheWeek(f, l, m, Sum(Loaded(f, l) \cap WeekOf(m)),
                            "weekly_hours_exceeded", "over_contracted_hours") : m \in weeks})
        \cup (IF person.agreed.per = "none" /\ Loaded(f, l) # {}
              THEN {Finding(f, "no_agreed_weekly_hours")} ELSE {})
  BY DEF WeeklyHours
<1> QED
  BY <1>6, <1>7 DEF drawn

\* A week is over in a window if, and only if, it is in one of the halves it
\* meets: a reduction that meets both the window and the week meets them on one
\* day of the week, which is of a half.
LEMMA WeekByHalves ==
  ASSUME ClockAssumption, WeeksAssumption, ProfilesAssumption, RosterInv,
         NEW f \in Int, NEW k \in Int, NEW l \in Int, f <= k, k < l,
         NEW d \in Int, NEW x
  PROVE  WeekMeets(d, f, l) /\ x \in SaidOfTheWeek(f, l, Monday(d))
           <=> \/ WeekMeets(d, f, k) /\ x \in SaidOfTheWeek(f, k, Monday(d))
               \/ WeekMeets(d, k + 1, l) /\ x \in SaidOfTheWeek(k + 1, l, Monday(d))
<1> DEFINE m == Monday(d)
           hours == Sum(WithShift(WeekOf(m)))
<1>1. m \in Int /\ DaysAWeek \in Nat \ {0, 1}
  BY WeekOfADay DEF WeeksAssumption
<1>2. hours \in Nat
  BY HoursOfSomeDays
<1>3. person.agreed.hours \in Nat
      /\ person.reductions \subseteq [from : Int, to : Int, share : 0 .. 100]
      /\ \A r \in person.reductions : r.from <= r.to
  BY DEF ProfilesAssumption, RosterInv
<1> DEFINE Passed(a, b) == hours * 100 > person.agreed.hours * (100 - Reduction(a, b, m))
<1>4. \A a, b : SaidOfTheWeek(a, b, m) =
         IF hours > Rules.weeklyHours THEN {Finding(m, "weekly_hours_exceeded")}
         ELSE IF AgreedForTheWeek /\ Passed(a, b) THEN {Finding(m, "over_contracted_hours")} ELSE {}
  BY DEF SaidOfTheWeek, OverTheWeek
<1>5. WeekMeets(d, f, l) <=> WeekMeets(d, f, k) \/ WeekMeets(d, k + 1, l)
  BY <1>1 DEF WeekMeets
<1> HIDE DEF m, hours
<1>6. ASSUME NEW a \in Int, NEW b \in Int, f <= a, b <= l, Passed(a, b) PROVE Passed(f, l)
  <2>1. Meeting(a, b, m) \subseteq Meeting(f, l, m)
    BY <1>1, <1>3, <1>6 DEF Meeting
  <2>2. /\ Reduction(a, b, m) \in 0 .. 100 /\ Reduction(f, l, m) \in 0 .. 100
        /\ \A r \in Meeting(f, l, m) : r.share <= Reduction(f, l, m)
        /\ Reduction(a, b, m) = 0 \/ \E r \in Meeting(a, b, m) : Reduction(a, b, m) = r.share
    BY ReductionIs
  <2>3. Reduction(a, b, m) <= Reduction(f, l, m)
    BY <2>1, <2>2
  <2>4. \A n, p, q \in Nat : p <= q => n * p <= n * q
    OBVIOUS
  <2>5. 100 - Reduction(f, l, m) \in Nat /\ 100 - Reduction(a, b, m) \in Nat
        /\ 100 - Reduction(f, l, m) <= 100 - Reduction(a, b, m)
    BY <2>2, <2>3
  <2>6. person.agreed.hours * (100 - Reduction(f, l, m)) <= person.agreed.hours * (100 - Reduction(a, b, m))
    BY <1>3, <2>4, <2>5
  <2>7. \A n, p \in Nat : n * p \in Nat
    OBVIOUS
  <2>8. /\ person.agreed.hours * (100 - Reduction(f, l, m)) \in Nat
        /\ person.agreed.hours * (100 - Reduction(a, b, m)) \in Nat
        /\ hours * 100 \in Nat
    BY <1>2, <1>3, <2>5, <2>7
  <2>9. hours * 100 > person.agreed.hours * (100 - Reduction(a, b, m))
    BY <1>6
  <2> QED
    BY <2>6, <2>8, <2>9
<1>7. ASSUME Passed(f, l), WeekMeets(d, f, l)
      PROVE  (WeekMeets(d, f, k) /\ Passed(f, k)) \/ (WeekMeets(d, k + 1, l) /\ Passed(k + 1, l))
  <2>1. \A a, b : /\ Reduction(a, b, m) \in 0 .. 100
                  /\ \A r \in Meeting(a, b, m) : r.share <= Reduction(a, b, m)
                  /\ Reduction(a, b, m) = 0 \/ \E r \in Meeting(a, b, m) : Reduction(a, b, m) = r.share
    BY ReductionIs
  <2>2. ASSUME NEW a, NEW b, Reduction(a, b, m) = Reduction(f, l, m) PROVE Passed(a, b)
    BY <1>7, <2>2
  <2>3. \A a, b \in Int : f <= a /\ b <= l => Reduction(a, b, m) <= Reduction(f, l, m)
    <3> TAKE a \in Int, b \in Int
    <3> SUFFICES ASSUME f <= a, b <= l PROVE Reduction(a, b, m) <= Reduction(f, l, m)
      OBVIOUS
    <3>1. Meeting(a, b, m) \subseteq Meeting(f, l, m)
      BY <1>1, <1>3 DEF Meeting
    <3> QED
      BY <2>1, <3>1
  <2>4. CASE Reduction(f, l, m) = 0
    <3>1. Reduction(f, k, m) <= 0 /\ Reduction(k + 1, l, m) <= 0
      <4>1. f <= f /\ k <= l /\ f <= k + 1 /\ l <= l /\ k + 1 \in Int
        OBVIOUS
      <4> QED
        BY <2>3, <2>4, <4>1
    <3>2. Reduction(f, k, m) = 0 /\ Reduction(k + 1, l, m) = 0
      BY <2>1, <3>1
    <3> QED
      BY <1>5, <1>7, <2>2, <2>4, <3>2
  <2>5. CASE \E r \in Meeting(f, l, m) : Reduction(f, l, m) = r.share
    <3>1. PICK r \in Meeting(f, l, m) : Reduction(f, l, m) = r.share
      BY <2>5
    <3>2. /\ r \in person.reductions /\ r.from \in Int /\ r.to \in Int /\ r.from <= r.to /\ r.share \in Int
          /\ r.from <= l /\ r.to >= f /\ r.from <= m + DaysAWeek - 1 /\ r.to >= m
          /\ m + DaysAWeek - 1 >= f /\ m <= l
      BY <1>3, <1>7, <3>1 DEF Meeting, WeekMeets, m
    <3>3. \/ r.from <= k /\ m <= k
          \/ r.to >= k + 1 /\ m + DaysAWeek - 1 >= k + 1
      BY <1>1, <3>2
    <3>4. CASE r.from <= k /\ m <= k
      <4>1. r \in Meeting(f, k, m) /\ WeekMeets(d, f, k)
        BY <3>2, <3>4 DEF Meeting, WeekMeets, m
      <4>2. Reduction(f, k, m) = Reduction(f, l, m)
        <5>1. Reduction(f, k, m) >= r.share /\ Reduction(f, k, m) <= Reduction(f, l, m)
          BY <2>1, <2>3, <4>1
        <5> QED
          BY <2>1, <3>1, <5>1
      <4> QED
        BY <2>2, <4>1, <4>2
    <3>5. CASE r.to >= k + 1 /\ m + DaysAWeek - 1 >= k + 1
      <4>1. r \in Meeting(k + 1, l, m) /\ WeekMeets(d, k + 1, l)
        BY <3>2, <3>5 DEF Meeting, WeekMeets, m
      <4>2. Reduction(k + 1, l, m) = Reduction(f, l, m)
        <5>1. Reduction(k + 1, l, m) >= r.share /\ Reduction(k + 1, l, m) <= Reduction(f, l, m)
          BY <2>1, <2>3, <4>1
        <5> QED
          BY <2>1, <3>1, <5>1
      <4> QED
        BY <2>2, <4>1, <4>2
    <3> QED
      BY <3>3, <3>4, <3>5
  <2> QED
    BY <2>1, <2>4, <2>5
<1>8. Passed(f, k) => Passed(f, l)
  BY <1>6
<1>9. Passed(k + 1, l) => Passed(f, l)
  BY <1>6
<1> HIDE DEF Passed
<1>10. WeekMeets(d, f, l) /\ x \in SaidOfTheWeek(f, l, m)
           <=> \/ WeekMeets(d, f, k) /\ x \in SaidOfTheWeek(f, k, m)
               \/ WeekMeets(d, k + 1, l) /\ x \in SaidOfTheWeek(k + 1, l, m)
  BY <1>4, <1>5, <1>7, <1>8, <1>9
<1> QED
  BY <1>10 DEF m

LEMMA WeeksByHalves ==
  ASSUME ClockAssumption, WeeksAssumption, ProfilesAssumption, RosterInv,
         NEW f \in Int, NEW k \in Int, NEW l \in Int, f <= k, k < l, NEW x,
         x.code # "no_agreed_weekly_hours"
  PROVE  x \in WeeklyHours(f, l) <=> x \in WeeklyHours(f, k) \cup WeeklyHours(k + 1, l)
<1>1. WithShift(Dates) \subseteq Int
  BY DEF WithShift, Dates, WeeksAssumption
<1>2. \A a : x # Finding(a, "no_agreed_weekly_hours")
  BY DEF Finding
<1>3. \A a, b \in Int : x \in WeeklyHours(a, b) <=>
         \E d \in WithShift(Dates) : WeekMeets(d, a, b) /\ x \in SaidOfTheWeek(a, b, Monday(d))
  <2> TAKE a \in Int, b \in Int
  <2>1. WeeklyHours(a, b) =
           (UNION {SaidOfTheWeek(a, b, Monday(d)) : d \in {e \in WithShift(Dates) : WeekMeets(e, a, b)}})
           \cup (IF person.agreed.per = "none" /\ Loaded(a, b) # {}
                 THEN {Finding(a, "no_agreed_weekly_hours")} ELSE {})
    BY WeeksSaid
  <2> QED
    BY <1>2, <2>1
<1>4. \A d \in WithShift(Dates) :
         WeekMeets(d, f, l) /\ x \in SaidOfTheWeek(f, l, Monday(d))
           <=> \/ WeekMeets(d, f, k) /\ x \in SaidOfTheWeek(f, k, Monday(d))
               \/ WeekMeets(d, k + 1, l) /\ x \in SaidOfTheWeek(k + 1, l, Monday(d))
  BY <1>1, WeekByHalves
<1>5. k + 1 \in Int
  OBVIOUS
<1> QED
  BY <1>3, <1>4, <1>5

\* What is said of each day of a window, and of every day it reads.
DaysSaid(f, k, l) ==
    /\ Breaks(f, l) = Breaks(f, k) \cup Breaks(k + 1, l)
    /\ UnderEighteen(f, l) = UnderEighteen(f, k) \cup UnderEighteen(k + 1, l)
    /\ LeaveClashes(f, l) = LeaveClashes(f, k) \cup LeaveClashes(k + 1, l)
    /\ OnAHoliday(f, l) = OnAHoliday(f, k) \cup OnAHoliday(k + 1, l)
    /\ OutsideTheContract(f, l) = OutsideTheContract(f, k) \cup OutsideTheContract(k + 1, l)

LEMMA DaysByHalves ==
  ASSUME WeeksAssumption,
         NEW f \in Int, NEW k \in Int, NEW l \in Int, f <= k, k < l
  PROVE  DaysSaid(f, k, l)
<1>1. WithShift(f .. l) = WithShift(f .. k) \cup WithShift((k + 1) .. l)
  <2>1. f .. l = (f .. k) \cup ((k + 1) .. l)
    OBVIOUS
  <2> QED
    BY <2>1 DEF WithShift
<1>2. Loaded(f, l) = Loaded(f, k) \cup Loaded(k + 1, l)
  BY HalvesReadItAll
<1>3. Breaks(f, l) = Breaks(f, k) \cup Breaks(k + 1, l)
  BY <1>1 DEF Breaks
<1>4. UnderEighteen(f, l) = UnderEighteen(f, k) \cup UnderEighteen(k + 1, l)
  BY <1>1 DEF UnderEighteen
<1>5. LeaveClashes(f, l) = LeaveClashes(f, k) \cup LeaveClashes(k + 1, l)
  BY <1>1 DEF LeaveClashes
<1>6. OnAHoliday(f, l) = OnAHoliday(f, k) \cup OnAHoliday(k + 1, l)
  BY <1>1 DEF OnAHoliday
<1>7. OutsideTheContract(f, l) = OutsideTheContract(f, k) \cup OutsideTheContract(k + 1, l)
  BY <1>2 DEF OutsideTheContract
<1> QED
  BY <1>3, <1>4, <1>5, <1>6, <1>7 DEF DaysSaid

\* Every finding has a day and a code, and one code only is of the window.
LEMMA FindingsAreSaid ==
  ASSUME NEW f, NEW l, NEW x
  PROVE  x \in OfADayOrAWeek(f, l) <=>
           /\ x.code # "no_agreed_weekly_hours"
           /\ x \in DailyRest(f, l) \cup WeeklyHours(f, l) \cup Breaks(f, l) \cup UnderEighteen(f, l)
                    \cup LeaveClashes(f, l) \cup OnAHoliday(f, l) \cup OutsideTheContract(f, l)
<1>1. \A d, c : Finding(d, c).code = c
  BY DEF Finding
<1>2. x \in WeeklyHours(f, l) =>
         x.code # "no_agreed_weekly_hours" \/ x = Finding(f, "no_agreed_weekly_hours")
  <2>1. \A m, h : \A y \in OverTheWeek(f, l, m, h, "weekly_hours_exceeded", "over_contracted_hours") :
           y.code # "no_agreed_weekly_hours"
    BY <1>1 DEF OverTheWeek
  <2> QED
    BY <2>1 DEF WeeklyHours
<1>3. x \in DailyRest(f, l) \cup Breaks(f, l) \cup LeaveClashes(f, l) \cup OnAHoliday(f, l)
        => x.code # "no_agreed_weekly_hours"
  BY <1>1 DEF DailyRest, Breaks, LeaveClashes, OnAHoliday
<1>4. x \in UnderEighteen(f, l) \cup OutsideTheContract(f, l) => x.code # "no_agreed_weekly_hours"
  BY <1>1 DEF UnderEighteen, OutsideTheContract
<1>5. Finding(f, "no_agreed_weekly_hours").code = "no_agreed_weekly_hours"
  BY <1>1
<1> QED
  BY <1>2, <1>3, <1>4, <1>5 DEF OfADayOrAWeek

LEMMA FindingsByHalves ==
  ASSUME ClockAssumption, WeeksAssumption, ProfilesAssumption, ADayOffIsARest, RosterInv,
         NEW f \in Int, NEW k \in Int, NEW l \in Int, f <= k, k < l
  PROVE  OfADayOrAWeek(f, l) = OfADayOrAWeek(f, k) \cup OfADayOrAWeek(k + 1, l)
<1>1. DailyRest(f, l) = DailyRest(f, k) \cup DailyRest(k + 1, l)
  BY RestByHalves
<1>2. \A x : x.code # "no_agreed_weekly_hours" =>
         (x \in WeeklyHours(f, l) <=> x \in WeeklyHours(f, k) \cup WeeklyHours(k + 1, l))
  BY WeeksByHalves
<1>3. DaysSaid(f, k, l)
  BY DaysByHalves
<1>4. ASSUME NEW x
      PROVE  x \in OfADayOrAWeek(f, l) <=> x \in OfADayOrAWeek(f, k) \cup OfADayOrAWeek(k + 1, l)
  BY <1>1, <1>2, <1>3, FindingsAreSaid DEF DaysSaid
<1> QED
  BY <1>4

\* What the review says of days and weeks does not depend on how the time it is
\* asked about is cut (review_roster).
THEOREM NothingFallsInTheCrack ==
  ASSUME ClockAssumption, WeeksAssumption, ProfilesAssumption, ADayOffIsARest
  PROVE  ReviewSpec => []MonthByMonthSaysTheSame
<1>1. RosterInv => MonthByMonthSaysTheSame
  <2> SUFFICES ASSUME RosterInv PROVE MonthByMonthSaysTheSame
    OBVIOUS
  <2> DEFINE said == [w \in Dates \X Dates |-> IF w[1] <= w[2] THEN OfADayOrAWeek(w[1], w[2]) ELSE {}]
  <2>1. ASSUME NEW f \in Dates, NEW l \in (f + 1) .. LastDate, NEW k \in f .. (l - 1)
        PROVE  said[f, l] = said[f, k] \cup said[k + 1, l]
    <3>1. f \in Int /\ k \in Int /\ l \in Int /\ f <= k /\ k < l
      BY <2>1 DEF Dates, WeeksAssumption
    <3>2. /\ <<f, l>> \in Dates \X Dates /\ <<f, k>> \in Dates \X Dates
          /\ <<k + 1, l>> \in Dates \X Dates /\ f <= l /\ f <= k /\ k + 1 <= l
      BY <2>1 DEF Dates, WeeksAssumption
    <3>3. /\ said[f, l] = OfADayOrAWeek(f, l) /\ said[f, k] = OfADayOrAWeek(f, k)
          /\ said[k + 1, l] = OfADayOrAWeek(k + 1, l)
      BY <3>2
    <3>4. OfADayOrAWeek(f, l) = OfADayOrAWeek(f, k) \cup OfADayOrAWeek(k + 1, l)
      BY <3>1, FindingsByHalves
    <3> QED
      BY <3>3, <3>4
  <2> QED
    BY <2>1 DEF MonthByMonthSaysTheSame
<1> QED
  BY <1>1, RosterAlways, PTL

=============================================================================
