--------------------------- MODULE PunchingProofs ---------------------------
(***************************************************************************)
(* Proofs about clocking in and out, for any taps, calls, clocks and        *)
(* limits.                                                                 *)
(*                                                                         *)
(* Two locks carry the argument.  The entry of the unique index makes one  *)
(* call at a time the owner of a key, so a tap leaves one event; the row   *)
(* of the person keeps the record still from the moment a type is inferred *)
(* until the event is written, so the type still follows from the record.  *)
(***************************************************************************)
EXTENDS Punching, TLAPS, FiniteSetTheorems

OwnsKey(c) == call[c].pc \in {"claimed", "held", "inferred"}
Alone(c)   == call[c].pc \in {"held", "inferred"}
Underway(c) == call[c].pc \notin {"idle", "done", "refused", "lost"}

CallRecords == [pc : Stages, tap : Taps \cup {Nothing}, interval : Intervals,
                type : Types, settled : Nat]

\* A key has one owner, and none once its event is written.
Keys ==
    /\ \A c \in Calls : call[c].pc # "idle" => call[c].tap \in Taps
    /\ \A c \in Calls : OwnsKey(c) => call[c].tap \in Keyless \/ claimed[call[c].tap] = c
    /\ \A t \in Taps : claimed[t] # Nothing => receipt[t] = Nothing
    /\ \A c, d \in Calls : call[c].tap \in Keyless /\ call[d].tap = call[c].tap => c = d

\* Events, receipts and answers point at each other.
Paperwork ==
    /\ \A c \in Calls : made[c] # Nothing =>
          /\ call[c].pc = "done"
          /\ call[c].tap = made[c].tap
          /\ made[c].tap \notin Keyless => receipt[made[c].tap] = c
    /\ \A t \in Taps : receipt[t] # Nothing =>
          /\ made[receipt[t]] # Nothing
          /\ made[receipt[t]].tap = t
    /\ \A c \in Calls : heard[c] # Nothing =>
          /\ call[c].pc = "done"
          /\ made[heard[c]] # Nothing
          /\ made[heard[c]].tap = call[c].tap

\* What was inferred still follows from the record.
StillFollows(type, interval, now) ==
    /\ \A e \in Events : e.recv <= now
    /\ type \in InferredTypes(interval, now)
    /\ interval = "BREAK" /\ type = "IN" => IsOpen("WORK", now)

Reading ==
    /\ \A c \in Calls : Alone(c) => person = c
    /\ \A e \in Events : e.recv <= clock
    /\ \A c \in Calls : call[c].pc = "inferred" =>
          /\ call[c].settled <= clock
          /\ StillFollows(call[c].type, call[c].interval, call[c].settled)

\* A queued tap was made before it was sent.
Queued == \A c \in Calls : call[c].tap \in Declares => pressed[call[c].tap] # Nothing

IInv == TypeOK /\ Keys /\ Paperwork /\ Reading /\ Queued /\ TimeIsVouchedFor

-----------------------------------------------------------------------------
LEMMA NothingIsNoTap == Nothing \notin Taps /\ Nothing \notin Keyless /\ Nothing \notin Declares
  BY NothingAssumption, TapsAssumption

LEMMA EventIsMade ==
  ASSUME TypeOK, NEW e \in Events
  PROVE  e \in Punch /\ \E c \in Calls : made[c] = e /\ made[c] # Nothing
  BY DEF TypeOK, Events

\* As long as no event is written, what followed follows.
LEMMA ReadingIsStable ==
  ASSUME made' = made, NEW type, NEW interval, NEW now
  PROVE  StillFollows(type, interval, now)' <=> StillFollows(type, interval, now)
  BY DEF StillFollows, InferredTypes, IsOpen, LastOpen, Recent, Events

LEMMA InitIInv == Init => IInv
<1> SUFFICES ASSUME Init PROVE IInv
  OBVIOUS
<1>0. Idle \in [pc : Stages, tap : Taps \cup {Nothing}, interval : Intervals,
                type : Types, settled : Nat]
  BY DEF Idle, Stages, Intervals, Types
<1>1. TypeOK
  BY <1>0, TimesAssumption DEF Init, TypeOK
<1>2. Events = {}
  BY DEF Init, Events
<1>3. Keys
  BY NothingIsNoTap DEF Init, Keys, Idle, OwnsKey
<1>4. Paperwork
  BY DEF Init, Paperwork
<1>5. Reading
  BY <1>2 DEF Init, Reading, Idle, Alone
<1>6. Queued
  BY NothingIsNoTap DEF Init, Queued, Idle
<1>7. TimeIsVouchedFor
  BY <1>2 DEF TimeIsVouchedFor
<1> QED
  BY <1>1, <1>3, <1>4, <1>5, <1>6, <1>7 DEF IInv

\* Steps that write no event leave what is said of each event alone.
LEMMA VouchedKept ==
  ASSUME TimeIsVouchedFor, made' = made, TypeOK,
         \A t \in Taps : pressed[t] # Nothing => pressed'[t] = pressed[t],
         Keys, Paperwork, Queued
  PROVE  TimeIsVouchedFor'
<1> SUFFICES ASSUME NEW e \in Events
             PROVE  IF e.tap \in Declares
                    THEN e.at <= e.recv /\ e.recv - e.at <= Grace /\ e.at <= Declared(e.tap)'
                    ELSE e.at = e.recv
  BY DEF TimeIsVouchedFor, Events
<1>1. PICK c \in Calls : made[c] = e /\ made[c] # Nothing
  BY EventIsMade
<1>2. e.tap = call[c].tap /\ e.tap \in Taps
  BY <1>1, EventIsMade DEF Paperwork, Punch
<1>3. CASE e.tap \in Declares
  <2>1. pressed'[e.tap] = pressed[e.tap]
    BY <1>2, <1>3 DEF Queued
  <2> QED
    BY <2>1, <1>3 DEF TimeIsVouchedFor, Declared
<1> QED
  BY <1>3 DEF TimeIsVouchedFor

-----------------------------------------------------------------------------
(* A call ends without writing an event *)

LEMMA EndIInv ==
  ASSUME IInv, NEW c \in Calls, NEW how \in {"done", "refused", "lost"},
         Underway(c), Release(c, how), UNCHANGED <<rows, pressed, clock>>,
         \/ heard' = heard
         \/ /\ how = "done"
            /\ receipt[call[c].tap] # Nothing
            /\ heard' = [heard EXCEPT ![c] = receipt[call[c].tap]]
  PROVE  IInv'
<1> DEFINE t == call[c].tap
<1>1. /\ call' = [call EXCEPT ![c] = Ended(t, how)]
      /\ claimed' = [u \in Taps |-> IF claimed[u] = c THEN Nothing ELSE claimed[u]]
      /\ person' = IF person = c THEN Nothing ELSE person
  BY DEF Release
<1>2. UNCHANGED <<made, receipt, pressed, clock>>
  BY DEF rows
<1>3. t \in Taps /\ made[c] = Nothing /\ heard[c] = Nothing
  BY DEF IInv, Keys, Paperwork, Underway
<1>4. Ended(t, how) \in [pc : Stages, tap : Taps \cup {Nothing}, interval : Intervals,
                         type : Types, settled : Nat]
  BY <1>3 DEF Ended, Idle, Stages, Intervals, Types
<1>5. Ended(t, how).pc = how /\ Ended(t, how).tap = t
  BY DEF Ended, Idle
<1>6. /\ call'[c].pc = how /\ call'[c].tap = t
      /\ \A d \in Calls \ {c} : call'[d] = call[d]
      /\ \A d \in Calls : call'[d].tap = call[d].tap
  BY <1>1, <1>5 DEF IInv, TypeOK
<1>7. TypeOK'
  BY <1>1, <1>2, <1>3, <1>4 DEF IInv, TypeOK
<1>8. Keys'
  <2>1. \A d \in Calls : call'[d].pc # "idle" => call'[d].tap \in Taps
    BY <1>3, <1>6 DEF IInv, Keys
  <2>2. ASSUME NEW d \in Calls, OwnsKey(d)'
        PROVE  call'[d].tap \in Keyless \/ claimed'[call'[d].tap] = d
    <3>1. d # c
      BY <2>2, <1>6 DEF OwnsKey
    <3>2. OwnsKey(d) /\ call'[d] = call[d] /\ call[d].tap \in Taps
      BY <2>2, <3>1, <1>6 DEF OwnsKey, IInv, Keys
    <3> QED
      BY <3>1, <3>2, <1>1 DEF IInv, Keys
  <2>3. \A u \in Taps : claimed'[u] # Nothing => receipt'[u] = Nothing
    BY <1>1, <1>2 DEF IInv, Keys
  <2>4. \A d, e \in Calls : call'[d].tap \in Keyless /\ call'[e].tap = call'[d].tap => d = e
    BY <1>6 DEF IInv, Keys
  <2> QED
    BY <2>1, <2>2, <2>3, <2>4 DEF Keys
<1>9. Paperwork'
  <2>1. \A d \in Calls : made'[d] # Nothing =>
          /\ call'[d].pc = "done"
          /\ call'[d].tap = made'[d].tap
          /\ made'[d].tap \notin Keyless => receipt'[made'[d].tap] = d
    BY <1>2, <1>3, <1>6 DEF IInv, Paperwork
  <2>2. \A u \in Taps : receipt'[u] # Nothing =>
          made'[receipt'[u]] # Nothing /\ made'[receipt'[u]].tap = u
    BY <1>2 DEF IInv, Paperwork
  <2>3. \A d \in Calls : heard'[d] # Nothing =>
          /\ call'[d].pc = "done"
          /\ made'[heard'[d]] # Nothing
          /\ made'[heard'[d]].tap = call'[d].tap
    BY <1>2, <1>3, <1>6 DEF IInv, Paperwork, TypeOK
  <2> QED
    BY <2>1, <2>2, <2>3 DEF Paperwork
<1>10. Reading'
  <2>1. \A d \in Calls : Alone(d)' => person' = d
    BY <1>1, <1>6 DEF IInv, Reading, Alone
  <2>2. \A e \in Events' : e.recv <= clock'
    BY <1>2 DEF IInv, Reading, Events
  <2>3. ASSUME NEW d \in Calls, call'[d].pc = "inferred"
        PROVE  /\ call'[d].settled <= clock'
               /\ StillFollows(call[d].type, call[d].interval, call[d].settled)'
               /\ call'[d] = call[d]
    <3>1. d # c /\ call'[d] = call[d]
      BY <2>3, <1>6
    <3>2. /\ call[d].settled <= clock
          /\ StillFollows(call[d].type, call[d].interval, call[d].settled)
      BY <2>3, <3>1 DEF IInv, Reading
    <3> QED
      BY <3>1, <3>2, <1>2 DEF StillFollows, InferredTypes, IsOpen, LastOpen, Recent, Events
  <2> QED
    BY <2>1, <2>2, <2>3 DEF Reading, StillFollows, InferredTypes, IsOpen, LastOpen, Recent, Events
<1>11. Queued'
  BY <1>2, <1>6 DEF IInv, Queued
<1>12. TimeIsVouchedFor'
  BY <1>2, VouchedKept DEF IInv
<1> QED
  BY <1>7, <1>8, <1>9, <1>10, <1>11, <1>12 DEF IInv

-----------------------------------------------------------------------------
(* A call goes on without writing an event *)

\* The call moves on: same tap, nothing made, nothing heard.
MovesTo(c, new) ==
    /\ call' = [call EXCEPT ![c] = new]
    /\ new.tap = call[c].tap /\ new.pc # "done"
    /\ UNCHANGED <<rows, heard, pressed, clock>>

\* It has reserved its key before it records, and takes nobody else's.
KeepsKeys(c, new) ==
    /\ claimed' \in [Taps -> Calls \cup {Nothing}]
    /\ new.pc \in {"claimed", "held", "inferred"} =>
          new.tap \in Keyless \/ claimed'[new.tap] = c
    /\ \A t \in Taps : claimed'[t] = claimed[t] \/ (claimed[t] = Nothing /\ receipt[t] = Nothing)

\* It holds the person before it reads the record, and takes it from nobody.
KeepsPerson(c, new) ==
    /\ person' \in Calls \cup {Nothing}
    /\ new.pc \in {"held", "inferred"} => person' = c
    /\ person' = person \/ person = Nothing
    /\ new.pc = "inferred" =>
          new.settled <= clock /\ StillFollows(new.type, new.interval, new.settled)

LEMMA MoveIInv ==
  ASSUME IInv, NEW c \in Calls, Underway(c), NEW new \in CallRecords,
         MovesTo(c, new), KeepsKeys(c, new), KeepsPerson(c, new)
  PROVE  IInv'
<1> USE DEF MovesTo, KeepsKeys, KeepsPerson, CallRecords
<1>1. UNCHANGED <<made, receipt, heard, pressed, clock>>
  BY DEF rows
<1>2. call[c].tap \in Taps /\ made[c] = Nothing /\ heard[c] = Nothing
  BY DEF IInv, Keys, Paperwork, Underway
<1>3. /\ call'[c] = new
      /\ \A d \in Calls \ {c} : call'[d] = call[d]
      /\ \A d \in Calls : call'[d].tap = call[d].tap
  BY DEF IInv, TypeOK
<1>4. TypeOK'
  BY <1>1 DEF IInv, TypeOK
<1>5. Keys'
  <2>1. \A d \in Calls : call'[d].pc # "idle" => call'[d].tap \in Taps
    BY <1>2, <1>3 DEF IInv, Keys
  <2>2. ASSUME NEW d \in Calls, OwnsKey(d)'
        PROVE  call'[d].tap \in Keyless \/ claimed'[call'[d].tap] = d
    <3>1. CASE d = c
      BY <2>2, <3>1, <1>3 DEF OwnsKey
    <3>2. CASE d # c
      <4>1. OwnsKey(d) /\ call'[d] = call[d] /\ call[d].tap \in Taps
        BY <2>2, <3>2, <1>3 DEF OwnsKey, IInv, Keys
      <4>2. call[d].tap \in Keyless \/ claimed[call[d].tap] = d
        BY <4>1 DEF IInv, Keys
      <4>3. d # Nothing
        BY NothingAssumption
      <4> QED
        BY <4>1, <4>2, <4>3
    <3> QED
      BY <3>1, <3>2
  <2>3. \A u \in Taps : claimed'[u] # Nothing => receipt'[u] = Nothing
    BY <1>1 DEF IInv, Keys
  <2>4. \A d, e \in Calls : call'[d].tap \in Keyless /\ call'[e].tap = call'[d].tap => d = e
    BY <1>3 DEF IInv, Keys
  <2> QED
    BY <2>1, <2>2, <2>3, <2>4 DEF Keys
<1>6. Paperwork'
  <2>1. \A d \in Calls : made'[d] # Nothing =>
          /\ call'[d].pc = "done"
          /\ call'[d].tap = made'[d].tap
          /\ made'[d].tap \notin Keyless => receipt'[made'[d].tap] = d
    BY <1>1, <1>2, <1>3 DEF IInv, Paperwork
  <2>2. \A u \in Taps : receipt'[u] # Nothing =>
          made'[receipt'[u]] # Nothing /\ made'[receipt'[u]].tap = u
    BY <1>1 DEF IInv, Paperwork
  <2>3. \A d \in Calls : heard'[d] # Nothing =>
          /\ call'[d].pc = "done"
          /\ made'[heard'[d]] # Nothing
          /\ made'[heard'[d]].tap = call'[d].tap
    BY <1>1, <1>2, <1>3 DEF IInv, Paperwork
  <2> QED
    BY <2>1, <2>2, <2>3 DEF Paperwork
<1>7. Reading'
  <2>1. ASSUME NEW d \in Calls, Alone(d)' PROVE person' = d
    <3>1. CASE d = c
      BY <2>1, <3>1, <1>3 DEF Alone
    <3>2. CASE d # c
      <4>1. Alone(d)
        BY <2>1, <3>2, <1>3 DEF Alone
      <4>2. person = d /\ d # Nothing
        BY <4>1, NothingAssumption DEF IInv, Reading
      <4> QED
        BY <4>2
    <3> QED
      BY <3>1, <3>2
  <2>2. (\A d \in Calls : Alone(d) => person = d)'
    BY <2>1
  <2>3. (\A e \in Events : e.recv <= clock)'
    BY <1>1 DEF IInv, Reading, Events
  <2>4. ASSUME NEW d \in Calls, call'[d].pc = "inferred"
        PROVE  /\ call'[d].settled <= clock'
               /\ StillFollows(call'[d].type, call'[d].interval, call'[d].settled)
    <3>1. CASE d = c
      BY <2>4, <3>1, <1>1, <1>3
    <3>2. CASE d # c
      BY <2>4, <3>2, <1>1, <1>3 DEF IInv, Reading
    <3> QED
      BY <3>1, <3>2
  <2>5. ASSUME NEW d \in Calls, (call[d].pc = "inferred")'
        PROVE  /\ (call[d].settled <= clock)'
               /\ StillFollows(call[d].type, call[d].interval, call[d].settled)'
    <3>1. /\ call'[d].settled <= clock'
          /\ StillFollows(call'[d].type, call'[d].interval, call'[d].settled)
      BY <2>4, <2>5
    <3> HIDE DEF MovesTo, KeepsKeys, KeepsPerson, CallRecords
    <3> QED
      BY <3>1, <1>1 DEF StillFollows, InferredTypes, IsOpen, LastOpen, Recent, Events
  <2> QED
    BY <2>2, <2>3, <2>5 DEF Reading
<1>8. Queued'
  BY <1>1, <1>3 DEF IInv, Queued
<1>9. TimeIsVouchedFor'
  BY <1>1, VouchedKept DEF IInv
<1> QED
  BY <1>4, <1>5, <1>6, <1>7, <1>8, <1>9 DEF IInv

LEMMA LookUpIInv ==
  ASSUME IInv, NEW c \in Calls, LookUp(c)
  PROVE  IInv'
<1>1. call[c].pc = "sent" /\ UNCHANGED <<rows, pressed, clock>> /\ Underway(c)
  BY DEF LookUp, Underway
<1>2. CASE receipt[call[c].tap] # Nothing
  <2>1. Release(c, "done") /\ AnswerWith(c, receipt[call[c].tap])
    BY <1>2 DEF LookUp, AnswerFromReceipt
  <2> QED
    BY <1>1, <1>2, <2>1, EndIInv DEF AnswerWith
<1>3. CASE receipt[call[c].tap] = Nothing
  <2> DEFINE new == [call[c] EXCEPT !.pc = "unclaimed"]
  <2>1. call' = [call EXCEPT ![c] = new] /\ UNCHANGED <<claimed, person, heard>>
    BY <1>3 DEF LookUp
  <2>2. new \in CallRecords /\ new.tap = call[c].tap /\ new.pc = "unclaimed"
    BY DEF IInv, TypeOK, Stages, CallRecords
  <2> HIDE DEF new
  <2>3. MovesTo(c, new)
    BY <1>1, <2>1, <2>2 DEF MovesTo
  <2>4. KeepsKeys(c, new)
    BY <2>1, <2>2 DEF KeepsKeys, IInv, TypeOK
  <2>5. KeepsPerson(c, new)
    BY <2>1, <2>2 DEF KeepsPerson, IInv, TypeOK
  <2> QED
    BY <1>1, <2>2, <2>3, <2>4, <2>5, MoveIInv
<1> QED
  BY <1>2, <1>3

LEMMA ClaimIInv ==
  ASSUME IInv, NEW c \in Calls, Claim(c)
  PROVE  IInv'
<1> DEFINE t == call[c].tap
<1>1. /\ call[c].pc = "unclaimed" /\ claimed[t] = Nothing
      /\ UNCHANGED <<rows, pressed, clock>> /\ Underway(c)
  BY DEF Claim, Underway
<1>2. CASE receipt[t] # Nothing
  <2>1. Release(c, "done") /\ AnswerWith(c, receipt[t])
    BY <1>2 DEF Claim, AnswerFromReceipt
  <2> QED
    BY <1>1, <1>2, <2>1, EndIInv DEF AnswerWith
<1>3. CASE receipt[t] = Nothing
  <2> DEFINE new == [call[c] EXCEPT !.pc = "claimed"]
  <2>1. /\ call' = [call EXCEPT ![c] = new]
        /\ claimed' = [claimed EXCEPT ![t] = c]
        /\ UNCHANGED <<person, heard>>
    BY <1>3 DEF Claim
  <2>2. new \in CallRecords /\ new.tap = t /\ new.pc = "claimed"
    BY DEF IInv, TypeOK, Stages, CallRecords
  <2>3. claimed' \in [Taps -> Calls \cup {Nothing}] /\ t \in Taps
    BY <2>1, <1>1 DEF IInv, TypeOK, Keys
  <2>4. claimed'[t] = c /\ \A u \in Taps \ {t} : claimed'[u] = claimed[u]
    BY <2>1, <2>3 DEF IInv, TypeOK
  <2> HIDE DEF new
  <2>5. MovesTo(c, new)
    BY <1>1, <2>1, <2>2 DEF MovesTo
  <2>6. KeepsKeys(c, new)
    BY <1>1, <1>3, <2>2, <2>3, <2>4 DEF KeepsKeys
  <2>7. KeepsPerson(c, new)
    BY <2>1, <2>2 DEF KeepsPerson, IInv, TypeOK
  <2> QED
    BY <1>1, <2>2, <2>5, <2>6, <2>7, MoveIInv
<1> QED
  BY <1>2, <1>3

LEMMA HoldPersonIInv ==
  ASSUME IInv, NEW c \in Calls, HoldPerson(c)
  PROVE  IInv'
<1> DEFINE new == [call[c] EXCEPT !.pc = "held"]
<1>1. /\ call[c].pc = "claimed" /\ person = Nothing /\ person' = c
      /\ call' = [call EXCEPT ![c] = new]
      /\ UNCHANGED <<rows, claimed, heard, pressed, clock>> /\ Underway(c) /\ OwnsKey(c)
  BY DEF HoldPerson, Underway, OwnsKey
<1>2. new \in CallRecords /\ new.tap = call[c].tap /\ new.pc = "held"
  BY DEF IInv, TypeOK, Stages, CallRecords
<1>3. call[c].tap \in Keyless \/ claimed[call[c].tap] = c
  BY <1>1 DEF IInv, Keys
<1> HIDE DEF new
<1>4. MovesTo(c, new)
  BY <1>1, <1>2 DEF MovesTo
<1>5. KeepsKeys(c, new)
  BY <1>1, <1>2, <1>3 DEF KeepsKeys, IInv, TypeOK
<1>6. KeepsPerson(c, new)
  BY <1>1, <1>2 DEF KeepsPerson
<1> QED
  BY <1>1, <1>2, <1>4, <1>5, <1>6, MoveIInv

LEMMA TurnAwayIInv ==
  ASSUME IInv, NEW c \in Calls, TurnAway(c)
  PROVE  IInv'
<1>1. Underway(c) /\ Release(c, "refused") /\ UNCHANGED <<rows, heard, pressed, clock>>
  BY DEF TurnAway, Underway
<1> QED
  BY <1>1, EndIInv

LEMMA InferIInv ==
  ASSUME IInv, NEW c \in Calls, Infer(c)
  PROVE  IInv'
<1> DEFINE interval == TheInterval(call[c].tap, clock)
<1>1. /\ call[c].pc = "held" /\ UNCHANGED <<rows, heard, pressed, clock>>
      /\ Underway(c) /\ OwnsKey(c) /\ Alone(c)
  BY DEF Infer, Underway, OwnsKey, Alone
<1>2. PICK type \in InferredTypes(interval, clock) :
         IF \/ TooSoon(interval, clock)
            \/ interval = "BREAK" /\ type = "IN" /\ ~IsOpen("WORK", clock)
         THEN Release(c, "refused")
         ELSE /\ call' = [call EXCEPT ![c] = [@ EXCEPT !.pc = "inferred",
                     !.interval = interval, !.type = type, !.settled = clock]]
              /\ UNCHANGED <<claimed, person>>
  BY DEF Infer
<1>3. CASE Release(c, "refused")
  BY <1>1, <1>3, EndIInv
<1>4. CASE /\ call' = [call EXCEPT ![c] = [@ EXCEPT !.pc = "inferred",
                     !.interval = interval, !.type = type, !.settled = clock]]
           /\ UNCHANGED <<claimed, person>>
           /\ ~(interval = "BREAK" /\ type = "IN" /\ ~IsOpen("WORK", clock))
  <2> DEFINE new == [call[c] EXCEPT !.pc = "inferred", !.interval = interval,
                                    !.type = type, !.settled = clock]
  <2>1. interval \in Intervals
    BY <1>1, TapsAssumption DEF TheInterval, Intervals, IInv, Keys
  <2>2. type \in Types
    BY <1>2 DEF InferredTypes, Types
  <2>3. clock \in Nat
    BY TimesAssumption DEF IInv, TypeOK
  <2>4. call' = [call EXCEPT ![c] = new]
    BY <1>4
  <2>5. /\ new \in CallRecords /\ new.tap = call[c].tap
        /\ new.pc = "inferred" /\ new.settled = clock
        /\ new.type = type /\ new.interval = interval
    BY <2>1, <2>2, <2>3 DEF IInv, TypeOK, Stages, CallRecords
  <2>6. StillFollows(type, interval, clock)
    BY <1>2, <1>4 DEF StillFollows, IInv, Reading
  <2>7. person = c
    BY <1>1 DEF IInv, Reading
  <2>8. call[c].tap \in Keyless \/ claimed[call[c].tap] = c
    BY <1>1 DEF IInv, Keys
  <2> HIDE DEF new, interval
  <2>9. MovesTo(c, new)
    BY <1>1, <2>4, <2>5 DEF MovesTo
  <2>10. KeepsKeys(c, new)
    BY <1>4, <2>5, <2>8 DEF KeepsKeys, IInv, TypeOK
  <2>11. KeepsPerson(c, new)
    BY <1>4, <2>3, <2>5, <2>6, <2>7 DEF KeepsPerson
  <2> QED
    BY <1>1, <2>5, <2>9, <2>10, <2>11, MoveIInv
<1> QED
  BY <1>2, <1>3, <1>4

LEMMA RefuseTimeIInv ==
  ASSUME IInv, NEW c \in Calls, RefuseTime(c)
  PROVE  IInv'
<1>1. Underway(c) /\ Release(c, "refused") /\ UNCHANGED <<rows, heard, pressed, clock>>
  BY DEF RefuseTime, Underway
<1> QED
  BY <1>1, EndIInv

LEMMA CrashIInv ==
  ASSUME IInv, NEW c \in Calls, Crash(c)
  PROVE  IInv'
<1>1. Underway(c) /\ Release(c, "lost") /\ UNCHANGED <<rows, heard, pressed, clock>>
  BY DEF Crash, Underway
<1> QED
  BY <1>1, EndIInv

-----------------------------------------------------------------------------
(* The device, the client and the clock *)

LEMMA ReadingKept ==
  ASSUME Reading, UNCHANGED <<made, person, call, clock>>
  PROVE  Reading'
<1>1. (\A c \in Calls : Alone(c) => person = c)'
  BY DEF Reading, Alone
<1>2. (\A e \in Events : e.recv <= clock)'
  BY DEF Reading, Events
<1>3. ASSUME NEW c \in Calls, (call[c].pc = "inferred")'
      PROVE  /\ (call[c].settled <= clock)'
             /\ StillFollows(call[c].type, call[c].interval, call[c].settled)'
  <2>1. /\ call[c].settled <= clock
        /\ StillFollows(call[c].type, call[c].interval, call[c].settled)
    BY <1>3 DEF Reading
  <2> QED
    BY <2>1 DEF StillFollows, InferredTypes, IsOpen, LastOpen, Recent, Events
<1> QED
  BY <1>1, <1>2, <1>3 DEF Reading

LEMMA PressIInv ==
  ASSUME IInv, NEW t \in Taps, Press(t)
  PROVE  IInv'
<1>1. /\ pressed[t] = Nothing /\ pressed' = [pressed EXCEPT ![t] = clock]
      /\ UNCHANGED <<made, receipt, claimed, person, call, heard, clock>>
  BY DEF Press, rows
<1>2. clock \in Nat
  BY TimesAssumption DEF IInv, TypeOK
<1>3. \A u \in Taps : pressed[u] # Nothing => pressed'[u] = pressed[u]
  BY <1>1 DEF IInv, TypeOK
<1>4. TypeOK'
  BY <1>1, <1>2 DEF IInv, TypeOK
<1>5. Keys'
  BY <1>1 DEF IInv, Keys, OwnsKey
<1>6. Paperwork'
  BY <1>1 DEF IInv, Paperwork
<1>7. Reading'
  BY <1>1, ReadingKept DEF IInv
<1>8. Queued'
  BY <1>1, <1>3, TapsAssumption DEF IInv, Queued
<1>9. TimeIsVouchedFor'
  BY <1>1, <1>3, VouchedKept DEF IInv
<1> QED
  BY <1>4, <1>5, <1>6, <1>7, <1>8, <1>9 DEF IInv

LEMMA TickIInv ==
  ASSUME IInv, Tick
  PROVE  IInv'
<1>1. /\ clock' = clock + 1 /\ clock < MaxTime
      /\ UNCHANGED <<made, receipt, claimed, person, call, heard, pressed>>
  BY DEF Tick, rows
<1>2. clock \in 0 .. MaxTime /\ clock' \in 0 .. MaxTime
  BY <1>1, TimesAssumption DEF IInv, TypeOK
<1>3. TypeOK'
  BY <1>1, <1>2 DEF IInv, TypeOK
<1>4. Keys'
  BY <1>1 DEF IInv, Keys, OwnsKey
<1>5. Paperwork'
  BY <1>1 DEF IInv, Paperwork
<1>6. Reading'
  <2>1. (\A c \in Calls : Alone(c) => person = c)'
    BY <1>1 DEF IInv, Reading, Alone
  <2>2. ASSUME NEW e \in Events PROVE e.recv <= clock'
    <3>1. e.recv \in Nat /\ e.recv <= clock
      BY EventIsMade DEF IInv, Reading, Punch
    <3> QED
      BY <3>1, <1>1, <1>2
  <2>3. (\A e \in Events : e.recv <= clock)'
    BY <2>2, <1>1 DEF Events
  <2>4. ASSUME NEW c \in Calls, (call[c].pc = "inferred")'
        PROVE  /\ (call[c].settled <= clock)'
               /\ StillFollows(call[c].type, call[c].interval, call[c].settled)'
    <3>1. call[c].pc = "inferred" /\ call[c].settled \in Nat
      BY <2>4, <1>1 DEF IInv, TypeOK
    <3>2. call[c].settled <= clock /\ StillFollows(call[c].type, call[c].interval, call[c].settled)
      BY <3>1 DEF IInv, Reading
    <3>3. (call[c].settled <= clock)'
      BY <3>1, <3>2, <1>1, <1>2
    <3>4. StillFollows(call[c].type, call[c].interval, call[c].settled)'
      BY <3>2, <1>1 DEF StillFollows, InferredTypes, IsOpen, LastOpen, Recent, Events
    <3> QED
      BY <3>3, <3>4
  <2> QED
    BY <2>1, <2>3, <2>4 DEF Reading
<1>7. Queued'
  BY <1>1 DEF IInv, Queued
<1>8. TimeIsVouchedFor'
  BY <1>1, VouchedKept DEF IInv
<1> QED
  BY <1>3, <1>4, <1>5, <1>6, <1>7, <1>8 DEF IInv

LEMMA SendIInv ==
  ASSUME IInv, NEW c \in Calls, NEW t \in Taps, Send(c, t)
  PROVE  IInv'
<1> DEFINE new == [Idle EXCEPT !.tap = t, !.pc = IF t \in Keyless THEN "claimed" ELSE "sent"]
<1>1. /\ call[c].pc = "idle" /\ call' = [call EXCEPT ![c] = new]
      /\ t \in Declares => pressed[t] # Nothing
      /\ t \in Keyless => \A d \in Calls : call[d].tap # t
      /\ UNCHANGED <<made, receipt, claimed, person, heard, pressed, clock>>
  BY DEF Send, Sent, rows
<1>2. /\ new \in CallRecords /\ new.tap = t
      /\ new.pc = IF t \in Keyless THEN "claimed" ELSE "sent"
  BY DEF CallRecords, Idle, Stages, Intervals, Types
<1> HIDE DEF new
<1>3. /\ call'[c] = new
      /\ \A d \in Calls \ {c} : call'[d] = call[d]
  BY <1>1 DEF IInv, TypeOK
<1>4. made[c] = Nothing /\ heard[c] = Nothing
  BY <1>1 DEF IInv, Paperwork
<1>5. TypeOK'
  BY <1>1, <1>2 DEF IInv, TypeOK, CallRecords
<1>6. Keys'
  <2>1. \A d \in Calls : call'[d].pc # "idle" => call'[d].tap \in Taps
    BY <1>2, <1>3 DEF IInv, Keys
  <2>2. ASSUME NEW d \in Calls, OwnsKey(d)'
        PROVE  call'[d].tap \in Keyless \/ claimed'[call'[d].tap] = d
    <3>1. CASE d = c
      BY <2>2, <3>1, <1>2, <1>3 DEF OwnsKey
    <3>2. CASE d # c
      BY <2>2, <3>2, <1>1, <1>3 DEF OwnsKey, IInv, Keys
    <3> QED
      BY <3>1, <3>2
  <2>3. \A u \in Taps : claimed'[u] # Nothing => receipt'[u] = Nothing
    BY <1>1 DEF IInv, Keys
  <2>4. \A d, e \in Calls : call'[d].tap \in Keyless /\ call'[e].tap = call'[d].tap => d = e
    BY <1>1, <1>2, <1>3 DEF IInv, Keys
  <2> QED
    BY <2>1, <2>2, <2>3, <2>4 DEF Keys
<1>7. Paperwork'
  <2>1. \A d \in Calls : made'[d] # Nothing =>
          /\ call'[d].pc = "done"
          /\ call'[d].tap = made'[d].tap
          /\ made'[d].tap \notin Keyless => receipt'[made'[d].tap] = d
    BY <1>1, <1>3, <1>4 DEF IInv, Paperwork
  <2>2. \A u \in Taps : receipt'[u] # Nothing =>
          made'[receipt'[u]] # Nothing /\ made'[receipt'[u]].tap = u
    BY <1>1 DEF IInv, Paperwork
  <2>3. \A d \in Calls : heard'[d] # Nothing =>
          /\ call'[d].pc = "done"
          /\ made'[heard'[d]] # Nothing
          /\ made'[heard'[d]].tap = call'[d].tap
    BY <1>1, <1>3, <1>4 DEF IInv, Paperwork
  <2> QED
    BY <2>1, <2>2, <2>3 DEF Paperwork
<1>8. Reading'
  <2>1. ASSUME NEW d \in Calls, Alone(d)' PROVE person' = d
    BY <2>1, <1>1, <1>2, <1>3 DEF Alone, IInv, Reading
  <2>2. (\A d \in Calls : Alone(d) => person = d)'
    BY <2>1
  <2>3. (\A e \in Events : e.recv <= clock)'
    BY <1>1 DEF IInv, Reading, Events
  <2>4. ASSUME NEW d \in Calls, (call[d].pc = "inferred")'
        PROVE  /\ (call[d].settled <= clock)'
               /\ StillFollows(call[d].type, call[d].interval, call[d].settled)'
    <3>1. d # c /\ call'[d] = call[d]
      BY <2>4, <1>2, <1>3
    <3>2. /\ call[d].settled <= clock
          /\ StillFollows(call[d].type, call[d].interval, call[d].settled)
      BY <2>4, <3>1 DEF IInv, Reading
    <3> QED
      BY <3>1, <3>2, <1>1 DEF StillFollows, InferredTypes, IsOpen, LastOpen, Recent, Events
  <2> QED
    BY <2>2, <2>3, <2>4 DEF Reading
<1>9. Queued'
  BY <1>1, <1>2, <1>3 DEF IInv, Queued
<1>10. TimeIsVouchedFor'
  BY <1>1, VouchedKept DEF IInv
<1> QED
  BY <1>5, <1>6, <1>7, <1>8, <1>9, <1>10 DEF IInv

-----------------------------------------------------------------------------
(* The event is written *)

LEMMA AcceptedIsVouched ==
  ASSUME NEW t \in Taps, NEW received \in Nat, NEW at \in AcceptedTime(t, received),
         t \in Declares => pressed[t] \in Nat
  PROVE  /\ at \in Nat
         /\ IF t \in Declares
            THEN at <= received /\ received - at <= Grace /\ at <= Declared(t)
            ELSE at = received
<1>1. CASE t \in Declares
  <2>1. Declared(t) \in Nat
    BY <1>1, TapsAssumption DEF Declared
  <2> QED
    BY <1>1, <2>1, TimesAssumption DEF AcceptedTime
<1>2. CASE t \notin Declares
  BY <1>2 DEF AcceptedTime
<1> QED
  BY <1>1, <1>2

\* The owner of a key writes the first event of its tap.
LEMMA FirstOfItsTap ==
  ASSUME IInv, NEW c \in Calls, OwnsKey(c)
  PROVE  \A d \in Calls : made[d] # Nothing => made[d].tap # call[c].tap
<1>1. call[c].tap \in Taps /\ call[c].pc # "done"
  BY DEF IInv, Keys, OwnsKey
<1>2. call[c].tap \notin Keyless => receipt[call[c].tap] = Nothing
  BY <1>1, NothingAssumption DEF IInv, Keys
<1>3. ASSUME NEW d \in Calls, made[d] # Nothing, made[d].tap = call[c].tap
      PROVE  FALSE
  <2>1. call[d].pc = "done" /\ call[d].tap = call[c].tap
    BY <1>3 DEF IInv, Paperwork
  <2>2. CASE call[c].tap \in Keyless
    BY <1>1, <2>1, <2>2 DEF IInv, Keys
  <2>3. CASE call[c].tap \notin Keyless
    BY <1>2, <1>3, <2>3, NothingAssumption DEF IInv, Paperwork
  <2> QED
    BY <2>2, <2>3
<1> QED
  BY <1>3

LEMMA CommitIInv ==
  ASSUME IInv, NEW c \in Calls, Commit(c)
  PROVE  IInv'
<1> DEFINE t == call[c].tap
<1>1. /\ call[c].pc = "inferred" /\ OwnsKey(c) /\ Alone(c)
      /\ receipt' = IF t \in Keyless THEN receipt ELSE [receipt EXCEPT ![t] = c]
      /\ heard' \in {heard, [heard EXCEPT ![c] = c]}
      /\ pressed' = pressed /\ clock' = clock
  BY DEF Commit, AnswerWith, OwnsKey, Alone
<1>2. /\ call' = [call EXCEPT ![c] = Ended(t, "done")]
      /\ claimed' = [u \in Taps |-> IF claimed[u] = c THEN Nothing ELSE claimed[u]]
      /\ person' = IF person = c THEN Nothing ELSE person
  BY DEF Commit, Release
<1>3. PICK at \in AcceptedTime(t, clock) :
         made' = [made EXCEPT ![c] =
              [tap |-> t, interval |-> call[c].interval, type |-> call[c].type,
               at |-> at, recv |-> clock]]
  BY DEF Commit
<1> DEFINE e == [tap |-> t, interval |-> call[c].interval, type |-> call[c].type,
                 at |-> at, recv |-> clock]
<1>4. t \in Taps /\ made[c] = Nothing /\ heard[c] = Nothing /\ c # Nothing
  BY <1>1, NothingAssumption DEF IInv, Keys, Paperwork
<1>5. clock \in Nat /\ (t \in Declares => pressed[t] \in Nat)
  BY <1>4, TimesAssumption DEF IInv, TypeOK, Queued
<1>6. /\ at \in Nat
      /\ IF t \in Declares
         THEN at <= clock /\ clock - at <= Grace /\ at <= Declared(t)
         ELSE at = clock
  BY <1>3, <1>4, <1>5, AcceptedIsVouched
<1>7. e \in Punch /\ e.tap = t /\ e.recv = clock /\ e.at = at /\ e # Nothing
  <2>1. e \in Punch /\ e.tap = t /\ e.recv = clock /\ e.at = at
    BY <1>4, <1>5, <1>6 DEF IInv, TypeOK, Punch
  <2> QED
    BY <2>1, PunchAssumption
<1> HIDE DEF e
<1>8. /\ made'[c] = e /\ (\A d \in Calls \ {c} : made'[d] = made[d])
      /\ Events' \subseteq Events \cup {e}
  BY <1>3 DEF IInv, TypeOK, Events, e
<1>9. /\ Ended(t, "done").pc = "done" /\ Ended(t, "done").tap = t
      /\ Ended(t, "done") \in CallRecords
  BY <1>4 DEF Ended, Idle, CallRecords, Stages, Intervals, Types
<1>10. /\ call'[c].pc = "done" /\ call'[c].tap = t
       /\ \A d \in Calls \ {c} : call'[d] = call[d]
       /\ \A d \in Calls : call'[d].tap = call[d].tap
  BY <1>2, <1>9 DEF IInv, TypeOK
<1>11. /\ \A u \in Taps \ {t} : receipt'[u] = receipt[u]
       /\ t \in Keyless => receipt'[t] = receipt[t]
       /\ t \notin Keyless => receipt'[t] = c
  BY <1>1, <1>4 DEF IInv, TypeOK
<1>12. \A d \in Calls : made[d] # Nothing => made[d].tap # t
  BY <1>1, FirstOfItsTap
<1>13. TypeOK'
  BY <1>1, <1>2, <1>3, <1>4, <1>7, <1>9 DEF IInv, TypeOK, CallRecords, e
<1>14. Keys'
  <2>1. \A d \in Calls : call'[d].pc # "idle" => call'[d].tap \in Taps
    BY <1>4, <1>10 DEF IInv, Keys
  <2>2. ASSUME NEW d \in Calls, OwnsKey(d)'
        PROVE  call'[d].tap \in Keyless \/ claimed'[call'[d].tap] = d
    <3>1. d # c
      BY <2>2, <1>10 DEF OwnsKey
    <3>2. OwnsKey(d) /\ call'[d] = call[d] /\ call[d].tap \in Taps
      BY <2>2, <3>1, <1>10 DEF OwnsKey, IInv, Keys
    <3> QED
      BY <3>1, <3>2, <1>2 DEF IInv, Keys
  <2>3. ASSUME NEW u \in Taps, claimed'[u] # Nothing PROVE receipt'[u] = Nothing
    <3>1. claimed[u] # c /\ claimed[u] # Nothing
      BY <2>3, <1>2
    <3>2. receipt[u] = Nothing
      BY <3>1 DEF IInv, Keys
    <3>3. u = t => t \in Keyless
      BY <3>1, <1>1 DEF IInv, Keys
    <3> QED
      BY <3>2, <3>3, <1>11
  <2>4. \A d, f \in Calls : call'[d].tap \in Keyless /\ call'[f].tap = call'[d].tap => d = f
    BY <1>10 DEF IInv, Keys
  <2> QED
    BY <2>1, <2>2, <2>3, <2>4 DEF Keys
<1>15. Paperwork'
  <2>1. ASSUME NEW d \in Calls, made'[d] # Nothing
        PROVE  /\ call'[d].pc = "done"
               /\ call'[d].tap = made'[d].tap
               /\ made'[d].tap \notin Keyless => receipt'[made'[d].tap] = d
    <3>1. CASE d = c
      BY <3>1, <1>7, <1>8, <1>10, <1>11
    <3>2. CASE d # c
      <4>1. made'[d] = made[d] /\ made[d].tap # t /\ made[d].tap = call[d].tap
        BY <3>2, <2>1, <1>8, <1>12 DEF IInv, Paperwork
      <4>2. call[d].pc = "done" /\ call[d].tap \in Taps
        BY <3>2, <4>1, <2>1 DEF IInv, Paperwork, Keys
      <4> QED
        BY <3>2, <2>1, <4>1, <4>2, <1>10, <1>11 DEF IInv, Paperwork
    <3> QED
      BY <3>1, <3>2
  <2>2. ASSUME NEW u \in Taps, receipt'[u] # Nothing
        PROVE  made'[receipt'[u]] # Nothing /\ made'[receipt'[u]].tap = u
    <3>1. CASE receipt'[u] = receipt[u]
      <4>1. receipt[u] \in Calls /\ made[receipt[u]] # Nothing /\ made[receipt[u]].tap = u
        BY <2>2, <3>1 DEF IInv, Paperwork, TypeOK
      <4> QED
        BY <3>1, <4>1, <1>4, <1>8
    <3>2. CASE u = t /\ receipt'[u] = c
      BY <3>2, <1>7, <1>8
    <3> QED
      BY <3>1, <3>2, <1>11
  <2>3. ASSUME NEW d \in Calls, heard'[d] # Nothing
        PROVE  /\ call'[d].pc = "done"
               /\ made'[heard'[d]] # Nothing
               /\ made'[heard'[d]].tap = call'[d].tap
    <3>1. CASE d = c
      <4>1. heard'[c] = c
        BY <2>3, <3>1, <1>1, <1>4 DEF IInv, TypeOK
      <4> QED
        BY <3>1, <4>1, <1>7, <1>8, <1>10
    <3>2. CASE d # c
      <4>1. heard'[d] = heard[d]
        BY <3>2, <1>1 DEF IInv, TypeOK
      <4>2. /\ heard[d] \in Calls /\ call[d].pc = "done"
            /\ made[heard[d]] # Nothing /\ made[heard[d]].tap = call[d].tap
        BY <2>3, <4>1 DEF IInv, Paperwork, TypeOK
      <4> QED
        BY <3>2, <4>1, <4>2, <1>4, <1>8, <1>10
    <3> QED
      BY <3>1, <3>2
  <2> QED
    BY <2>1, <2>2, <2>3 DEF Paperwork
<1>16. Reading'
  <2>1. ASSUME NEW d \in Calls, Alone(d)' PROVE FALSE
    <3>1. d # c /\ Alone(d)
      BY <2>1, <1>10 DEF Alone
    <3> QED
      BY <3>1, <1>1 DEF IInv, Reading
  <2>2. (\A f \in Events : f.recv <= clock)'
    BY <1>1, <1>5, <1>7, <1>8 DEF IInv, Reading
  <2>3. ASSUME NEW d \in Calls, (call[d].pc = "inferred")' PROVE FALSE
    BY <2>1, <2>3 DEF Alone
  <2> QED
    BY <2>1, <2>2, <2>3 DEF Reading
<1>17. Queued'
  BY <1>1, <1>10 DEF IInv, Queued
<1>18. TimeIsVouchedFor'
  <2>1. ASSUME NEW f \in Events'
        PROVE  IF f.tap \in Declares
               THEN f.at <= f.recv /\ f.recv - f.at <= Grace /\ f.at <= Declared(f.tap)
               ELSE f.at = f.recv
    BY <1>6, <1>7, <1>8 DEF IInv, TimeIsVouchedFor
  <2> QED
    BY <2>1, <1>1 DEF TimeIsVouchedFor, Declared
<1> QED
  BY <1>13, <1>14, <1>15, <1>16, <1>17, <1>18 DEF IInv

-----------------------------------------------------------------------------
(* What holds of every run *)

LEMMA NextIInv == IInv /\ [Next]_vars => IInv'
<1> SUFFICES ASSUME IInv, [Next]_vars PROVE IInv'
  OBVIOUS
<1>1. ASSUME NEW t \in Taps, Press(t) PROVE IInv'
  BY <1>1, PressIInv
<1>2. ASSUME NEW c \in Calls, NEW t \in Taps, Send(c, t) PROVE IInv'
  BY <1>2, SendIInv
<1>3. ASSUME NEW c \in Calls, Step(c) PROVE IInv'
  BY <1>3, LookUpIInv, ClaimIInv, HoldPersonIInv, InferIInv, CommitIInv, RefuseTimeIInv DEF Step
<1>4. ASSUME NEW c \in Calls, TurnAway(c) PROVE IInv'
  BY <1>4, TurnAwayIInv
<1>5. ASSUME NEW c \in Calls, Crash(c) PROVE IInv'
  BY <1>5, CrashIInv
<1>6. CASE Tick
  BY <1>6, TickIInv
<1>7. CASE UNCHANGED vars
  <2>1. UNCHANGED <<made, receipt, claimed, person, call, heard, pressed, clock>>
    BY <1>7 DEF vars
  <2>2. TypeOK'
    BY <2>1 DEF IInv, TypeOK
  <2>3. Keys'
    BY <2>1 DEF IInv, Keys, OwnsKey
  <2>4. Paperwork'
    BY <2>1 DEF IInv, Paperwork
  <2>5. Reading'
    BY <2>1, ReadingKept DEF IInv
  <2>6. Queued'
    BY <2>1 DEF IInv, Queued
  <2>7. TimeIsVouchedFor'
    BY <2>1, VouchedKept DEF IInv
  <2> QED
    BY <2>2, <2>3, <2>4, <2>5, <2>6, <2>7 DEF IInv
<1> QED
  BY <1>1, <1>2, <1>3, <1>4, <1>5, <1>6, <1>7 DEF Next

\* What the locks and the paperwork keep true in every state.
THEOREM Inductive == Spec => []IInv
  BY InitIInv, NextIInv, PTL DEF Spec

LEMMA OneEvent == IInv => OneEventPerTap
<1> SUFFICES ASSUME IInv, NEW c \in Calls, NEW d \in Calls, made[c] # Nothing,
                    made[d] # Nothing, made[c].tap = made[d].tap
             PROVE  c = d
  BY DEF OneEventPerTap
<1>1. CASE made[c].tap \in Keyless
  BY <1>1 DEF IInv, Paperwork, Keys
<1>2. CASE made[c].tap \notin Keyless
  BY <1>2 DEF IInv, Paperwork
<1> QED
  BY <1>1, <1>2

\* Every state of the clocking-in machine is one of its types.
THEOREM TypeCorrect == Spec => []TypeOK
<1>1. IInv => TypeOK
  BY DEF IInv
<1> QED
  BY <1>1, Inductive, PTL

\* The receipt of a key, inserted before the event is recorded, makes a tap
\* leave at most one event however often it is sent (idempotency.claim).
THEOREM EachTapOnce == Spec => []OneEventPerTap
  BY OneEvent, Inductive, PTL

\* Every answer to a tap that arrives names the same committed event of that
\* tap, whether it comes from recording it or from its receipt (already_recorded).
THEOREM AnswersAreOne == Spec => []AnswersAgree
<1>1. ASSUME IInv PROVE AnswersAgree
  <2>1. SUFFICES ASSUME NEW c \in Calls, NEW d \in Calls, heard[c] # Nothing
                 PROVE  /\ made[heard[c]] # Nothing
                        /\ made[heard[c]].tap = call[c].tap
                        /\ heard[d] # Nothing /\ call[c].tap = call[d].tap => heard[c] = heard[d]
    BY DEF AnswersAgree
  <2>2. /\ made[heard[c]] # Nothing /\ made[heard[c]].tap = call[c].tap
        /\ heard[c] \in Calls
    BY <1>1, <2>1 DEF IInv, Paperwork, TypeOK
  <2>3. ASSUME heard[d] # Nothing, call[c].tap = call[d].tap
        PROVE  heard[c] = heard[d]
    <3>1. /\ made[heard[d]] # Nothing /\ made[heard[d]].tap = call[c].tap
          /\ heard[d] \in Calls
      BY <1>1, <2>3 DEF IInv, Paperwork, TypeOK
    <3>2. CASE call[c].tap \in Keyless
      BY <1>1, <2>2, <3>1, <3>2 DEF IInv, Paperwork, Keys
    <3>3. CASE call[c].tap \notin Keyless
      BY <1>1, <2>2, <3>1, <3>3 DEF IInv, Paperwork
    <3> QED
      BY <3>2, <3>3
  <2> QED
    BY <2>2, <2>3
<1> QED
  BY <1>1, Inductive, PTL

\* An event counts by its arrival, or by a declared time no later than it and
\* within the grace period, for any device clock and any delay (_accepted_time).
THEOREM TimesAreVouched == Spec => []TimeIsVouchedFor
<1>1. IInv => TimeIsVouchedFor
  BY DEF IInv
<1> QED
  BY <1>1, Inductive, PTL

-----------------------------------------------------------------------------
(* The events of a day alternate                                            *)

\* What a call that has read the record checked besides.
Checked(c) ==
    LET q == call[c] IN
    q.pc = "inferred" =>
        /\ ~TooSoon(q.interval, q.settled)
        /\ Asks[q.tap] = "tap" /\ q.interval = "WORK" => ~IsOpen("BREAK", q.settled)

\* No two events of an interval at one time.
OneAtATime == \A e, f \in Events : e.interval = f.interval /\ e.at = f.at => e = f

DayInv ==
    /\ IInv
    /\ \A c \in Calls : Checked(c)
    /\ OneAtATime /\ OpeningsAlternate /\ ReturnTapEndsTheBreak

LEMMA LeastNatural ==
  ASSUME NEW T \in SUBSET Nat, T # {}
  PROVE  \E x \in T : \A y \in T : x <= y
<1> DEFINE Below == {0 .. x : x \in T}
<1>1. Below \subseteq FiniteSubsetsOf(Nat)
  <2>1. \A x \in Nat : 0 .. x \subseteq Nat /\ IsFiniteSet(0 .. x)
    BY FS_Interval
  <2> QED
    BY <2>1 DEF FiniteSubsetsOf
<1>2. PICK s \in Below : \A u \in Below : <<u, s>> \notin StrictSubsetOrdering(Nat)
  <2>1. Below # {}
    OBVIOUS
  <2> HIDE DEF Below
  <2> QED
    BY <1>1, <2>1, WFMin, FS_StrictSubsetOrderingWellFounded
<1>3. PICK x \in T : s = 0 .. x
  OBVIOUS
<1> SUFFICES ASSUME NEW y \in T, y < x PROVE FALSE
  BY <1>3
<1>4. 0 .. y \subseteq 0 .. x /\ 0 .. y # 0 .. x
  OBVIOUS
<1>5. 0 .. y \in Below /\ 0 .. y \in SUBSET Nat /\ 0 .. x \in SUBSET Nat
  OBVIOUS
<1>6. <<0 .. y, 0 .. x>> \in StrictSubsetOrdering(Nat)
  BY <1>4, <1>5 DEF StrictSubsetOrdering
<1> QED
  BY <1>2, <1>3, <1>5, <1>6

\* Every event counts by its arrival.
LEMMA AtArrival ==
  ASSUME OnTheSpot, IInv, NEW e \in Events
  PROVE  /\ e.at = e.recv /\ e.at \in Nat /\ e.interval \in Intervals /\ e.type \in Types
         /\ e.at <= clock /\ clock \in Nat
<1>1. e \in Punch
  BY EventIsMade DEF IInv
<1>2. e.recv <= clock /\ clock \in Nat
  BY TimesAssumption DEF IInv, Reading, TypeOK
<1>3. IF e.tap \in Declares THEN e.at <= e.recv /\ e.recv - e.at <= Grace ELSE e.at = e.recv
  BY DEF IInv, TimeIsVouchedFor
<1> QED
  BY <1>1, <1>2, <1>3 DEF OnTheSpot, Punch

\* Among the recent events of an interval one comes last.
LEMMA OneComesLast ==
  ASSUME OnTheSpot, IInv, NEW interval, NEW now \in Nat, \A e \in Events : e.recv <= now,
         NEW e \in Recent(interval, now)
  PROVE  \E m \in LastOpen(interval, now) : e.at <= m.at
<1> DEFINE R == Recent(interval, now)
           T == {now - f.at : f \in R}
<1>1. R \subseteq Events
  BY DEF Recent
<1>2. \A f \in R : f.at \in Nat /\ f.at <= now
  BY <1>1, AtArrival
<1>3. T \in SUBSET Nat /\ T # {}
  <2>1. \A f \in R : now - f.at \in Nat
    BY <1>2
  <2>2. e \in R
    OBVIOUS
  <2> HIDE DEF R
  <2> QED
    BY <2>1, <2>2
<1>4. PICK x \in T : \A y \in T : x <= y
  <2> HIDE DEF T
  <2> QED
    BY <1>3, LeastNatural
<1>5. PICK m \in R : x = now - m.at
  OBVIOUS
<1>6. \A f \in R : f.at <= m.at
  <2>1. \A f \in R : now - m.at <= now - f.at
    BY <1>4, <1>5
  <2> HIDE DEF R
  <2> QED
    BY <1>2, <2>1
<1> QED
  BY <1>5, <1>6 DEF LastOpen

\* The type read is the other one of the last event, which nothing that counts
\* is later than.
LEMMA ReadsTheLast ==
  ASSUME OnTheSpot, IInv, NEW interval, NEW now \in Nat, \A e \in Events : e.recv <= now,
         NEW type, type \in InferredTypes(interval, now),
         NEW e \in Events, e.interval = interval,
         type = "OUT" \/ e.at >= now - MaxOpen
  PROVE  \E m \in Events :
            /\ m.interval = interval /\ m.type # type /\ m.type \in Types
            /\ e.at <= m.at /\ m.at <= now
<1>1. \A f \in LastOpen(interval, now) :
         /\ f \in Events /\ f.interval = interval /\ f.at >= now - MaxOpen
         /\ f.at \in Nat /\ f.at <= now /\ f.type \in Types
         /\ \A g \in Recent(interval, now) : g.at <= f.at
  BY AtArrival DEF LastOpen, Recent
<1>2. MaxOpen \in Nat /\ e.at \in Nat
  BY TimesAssumption, AtArrival
<1>3. LastOpen(interval, now) # {}
  <2>1. CASE type = "OUT"
    BY <2>1 DEF InferredTypes
  <2>2. CASE e.at >= now - MaxOpen
    <3>1. e \in Recent(interval, now)
      BY <2>2 DEF Recent
    <3> QED
      BY <3>1, OneComesLast
  <2> QED
    BY <2>1, <2>2
<1>4. PICK m \in LastOpen(interval, now) : type = IF m.type = "OUT" THEN "IN" ELSE "OUT"
  BY <1>3 DEF InferredTypes
<1>5. e.at <= m.at
  <2>1. CASE e.at >= now - MaxOpen
    <3>1. e \in Recent(interval, now)
      BY <2>1 DEF Recent
    <3> QED
      BY <1>1, <3>1
  <2>2. CASE e.at < now - MaxOpen
    BY <1>1, <1>2, <2>2
  <2> QED
    BY <1>2, <2>1, <2>2
<1> QED
  BY <1>1, <1>4, <1>5 DEF Types

\* A call that inferred its type comes after every event of its interval.
LEMMA ComesAfter ==
  ASSUME OnTheSpot, DayInv, NEW c \in Calls, call[c].pc = "inferred",
         NEW e \in Events, e.interval = call[c].interval
  PROVE  e.at < call[c].settled
<1> DEFINE s == call[c].settled
           I == call[c].interval
<1>1. /\ s \in Nat /\ MaxOpen \in Nat /\ DoubleTap \in Nat \ {0}
      /\ e.at \in Nat /\ e.at = e.recv
      /\ \A f \in Events : f.recv <= s /\ f.at = f.recv /\ f.at \in Nat
      /\ ~TooSoon(I, s)
  BY TimesAssumption, AtArrival DEF DayInv, IInv, TypeOK, Reading, StillFollows, Checked
<1> HIDE DEF s, I
<1>2. SUFFICES ASSUME e.at = s PROVE FALSE
  BY <1>1 DEF s
<1>3. e \in Recent(I, s)
  BY <1>1, <1>2 DEF Recent, I
<1>4. PICK m \in LastOpen(I, s) : e.at <= m.at
  BY <1>1, <1>3, OneComesLast DEF DayInv
<1>5. m \in Events
  BY DEF LastOpen, Recent
<1>6. s - m.at \in 0 .. DoubleTap - 1
  BY <1>1, <1>2, <1>4, <1>5
<1> QED
  BY <1>1, <1>4, <1>6 DEF TooSoon

\* What a commit adds to the record.
LEMMA Recorded ==
  ASSUME OnTheSpot, IInv, NEW c \in Calls, Commit(c)
  PROVE  \E n : /\ Events' = Events \cup {n}
                /\ n.interval = call[c].interval /\ n.type = call[c].type
                /\ n.tap = call[c].tap /\ n.at = clock
<1> DEFINE t == call[c].tap
<1>1. PICK at \in AcceptedTime(t, clock) :
         made' = [made EXCEPT ![c] =
              [tap |-> t, interval |-> call[c].interval, type |-> call[c].type,
               at |-> at, recv |-> clock]]
  BY DEF Commit
<1> DEFINE n == [tap |-> t, interval |-> call[c].interval, type |-> call[c].type,
                 at |-> at, recv |-> clock]
<1>2. call[c].pc = "inferred" /\ t \in Taps /\ made[c] = Nothing
  BY NothingAssumption DEF Commit, IInv, Keys, Paperwork
<1>3. at = clock
  <2>1. CASE t \notin Declares
    BY <2>1 DEF AcceptedTime
  <2>2. CASE t \in Declares
    BY <2>2 DEF AcceptedTime, OnTheSpot
  <2> QED
    BY <2>1, <2>2
<1>4. n \in Punch
  BY <1>2, <1>3, TimesAssumption DEF IInv, TypeOK, Punch
<1>5. n # Nothing
  BY <1>4, PunchAssumption
<1> HIDE DEF n
<1>6. made'[c] = n /\ \A d \in Calls \ {c} : made'[d] = made[d]
  BY <1>1 DEF IInv, TypeOK, n
<1>7. Events' = Events \cup {n}
  BY <1>2, <1>5, <1>6 DEF Events
<1>8. /\ n.interval = call[c].interval /\ n.type = call[c].type
      /\ n.tap = call[c].tap /\ n.at = clock
  BY <1>3 DEF n
<1> QED
  BY <1>7, <1>8, Zenon

LEMMA CommitAlternates ==
  ASSUME OnTheSpot, DayInv, NEW c \in Calls, Commit(c)
  PROVE  OneAtATime' /\ OpeningsAlternate' /\ ReturnTapEndsTheBreak'
<1> DEFINE s == call[c].settled
           I == call[c].interval
<1>1. /\ call[c].pc = "inferred" /\ call[c].tap \in Taps /\ I \in Intervals
      /\ s \in Nat /\ s <= clock /\ MaxOpen \in Nat /\ clock \in Nat
      /\ \A e \in Events : e.recv <= s
      /\ call[c].type \in InferredTypes(I, s)
      /\ I = "BREAK" /\ call[c].type = "IN" => IsOpen("WORK", s)
      /\ Asks[call[c].tap] = "tap" /\ I = "WORK" => ~IsOpen("BREAK", s)
  BY TimesAssumption
  DEF Commit, DayInv, IInv, TypeOK, Keys, Reading, StillFollows, Checked
<1>2. PICK n : /\ Events' = Events \cup {n}
               /\ n.interval = I /\ n.type = call[c].type
               /\ n.tap = call[c].tap /\ n.at = clock
  BY Recorded DEF DayInv
<1>3. \A e \in Events : /\ e.at \in Nat /\ e.at <= s /\ e.type \in Types
                        /\ e.interval = I => e.at < s
  BY <1>1, AtArrival, ComesAfter DEF DayInv
<1> HIDE DEF s, I
<1>4. OneAtATime'
  BY <1>1, <1>2, <1>3 DEF OneAtATime, DayInv
<1>5. OpeningsAlternate'
  <2>1. SUFFICES ASSUME NEW e \in Events', NEW f \in Events', e # f,
                        e.interval = f.interval, e.type = f.type, e.at <= f.at
                 PROVE  IF e.type = "OUT" THEN Between(e, f, "IN")'
                        ELSE f.at <= e.at + MaxOpen => Between(e, f, "OUT")'
    BY DEF OpeningsAlternate
  <2>2. CASE e \in Events /\ f \in Events
    <3>1. IF e.type = "OUT" THEN Between(e, f, "IN")
          ELSE f.at <= e.at + MaxOpen => Between(e, f, "OUT")
      BY <2>1, <2>2 DEF DayInv, OpeningsAlternate
    <3> QED
      BY <1>2, <3>1 DEF Between
  <2>3. CASE e = n /\ f \in Events
    BY <1>1, <1>2, <1>3, <2>1, <2>3
  <2>4. CASE e \in Events /\ f = n
    <3>1. CASE e.type = "OUT" \/ f.at <= e.at + MaxOpen
      <4>1. e.type = "OUT" \/ e.at >= s - MaxOpen
        BY <1>1, <1>2, <1>3, <2>4, <3>1
      <4>2. e.interval = I /\ e.type \in InferredTypes(I, s)
        BY <1>1, <1>2, <2>1, <2>4
      <4>3. PICK m \in Events : /\ m.interval = I /\ m.type # e.type /\ m.type \in Types
                                /\ e.at <= m.at /\ m.at <= s
        BY <1>1, <2>4, <4>1, <4>2, ReadsTheLast DEF DayInv
      <4>4. m.at \in e.at .. f.at /\ m \in Events'
        BY <1>1, <1>2, <1>3, <2>4, <4>3
      <4>5. e.type \in Types
        BY <1>3, <2>4
      <4>6. m.type = IF e.type = "OUT" THEN "IN" ELSE "OUT"
        BY <4>3, <4>5 DEF Types
      <4> QED
        BY <4>2, <4>3, <4>4, <4>6 DEF Between
    <3>2. CASE ~(e.type = "OUT" \/ f.at <= e.at + MaxOpen)
      BY <3>2
    <3> QED
      BY <3>1, <3>2
  <2> QED
    BY <1>2, <2>1, <2>2, <2>3, <2>4
<1>6. ReturnTapEndsTheBreak'
  <2>1. SUFFICES ASSUME NEW e \in Events', NEW b \in Events',
                        e.interval = "WORK", e.type = "OUT", Asks[e.tap] = "tap",
                        b.interval = "BREAK", b.type = "IN",
                        b.at <= e.at, e.at <= b.at + MaxOpen
                 PROVE  Between(b, e, "OUT")'
    BY DEF ReturnTapEndsTheBreak
  <2>2. CASE e \in Events /\ b \in Events
    <3>1. Between(b, e, "OUT")
      BY <2>1, <2>2 DEF DayInv, ReturnTapEndsTheBreak
    <3> QED
      BY <1>2, <3>1 DEF Between
  <2>3. CASE e = n /\ b \in Events
    <3>1. b \in Recent("BREAK", s)
      BY <1>1, <1>2, <1>3, <2>1, <2>3 DEF Recent
    <3>2. PICK m \in LastOpen("BREAK", s) : b.at <= m.at
      BY <1>1, <3>1, OneComesLast DEF DayInv
    <3>3. m \in Events /\ m.interval = "BREAK"
      BY DEF LastOpen, Recent
    <3>4. m.type = "OUT"
      <4>1. "OUT" \notin InferredTypes("BREAK", s)
        BY <1>1, <1>2, <2>1, <2>3 DEF IsOpen
      <4>2. (IF m.type = "OUT" THEN "IN" ELSE "OUT") \in InferredTypes("BREAK", s)
        BY <3>2 DEF InferredTypes
      <4> QED
        BY <4>1, <4>2
    <3>5. m.at \in b.at .. e.at /\ m \in Events'
      BY <1>1, <1>2, <1>3, <2>3, <3>2, <3>3
    <3> QED
      BY <2>1, <3>3, <3>4, <3>5 DEF Between
  <2>4. CASE e \in Events /\ b = n
    <3>1. e.at = s
      BY <1>1, <1>2, <1>3, <2>1, <2>4
    <3>2. "OUT" \in InferredTypes("WORK", s)
      BY <1>1, <1>2, <2>1, <2>4 DEF IsOpen
    <3>3. PICK m \in Events : m.interval = "WORK" /\ m.type # "OUT" /\ e.at <= m.at /\ m.at <= s
      BY <1>1, <2>1, <2>4, <3>2, ReadsTheLast DEF DayInv
    <3>4. m.at = e.at
      BY <1>1, <1>3, <3>1, <3>3
    <3>5. m = e
      BY <2>1, <2>4, <3>3, <3>4 DEF DayInv, OneAtATime
    <3> QED
      BY <2>1, <3>3, <3>5
  <2> QED
    BY <1>2, <2>1, <2>2, <2>3, <2>4
<1> QED
  BY <1>4, <1>5, <1>6

\* What was checked stays so as long as no event is written.
LEMMA CheckedKept ==
  ASSUME made' = made, NEW c \in Calls, Checked(c), call'[c] = call[c]
  PROVE  Checked(c)'
  BY DEF Checked, TooSoon, IsOpen, InferredTypes, LastOpen, Recent, Events

LEMMA NothingWritten ==
  ASSUME DayInv, IInv', made' = made, \A c \in Calls : Checked(c)'
  PROVE  DayInv'
<1>1. Events' = Events
  BY DEF Events
<1>2. OneAtATime'
  BY <1>1 DEF DayInv, OneAtATime
<1>3. OpeningsAlternate'
  BY <1>1 DEF DayInv, OpeningsAlternate, Between
<1>4. ReturnTapEndsTheBreak'
  BY <1>1 DEF DayInv, ReturnTapEndsTheBreak, Between
<1> QED
  BY <1>2, <1>3, <1>4 DEF DayInv

LEMMA EndsUnread ==
  ASSUME DayInv, NEW c \in Calls, NEW how \in {"done", "refused", "lost"}, Release(c, how)
  PROVE  \A d \in Calls : call'[d] = call[d] \/ call'[d].pc # "inferred"
  BY DEF Release, Ended, Idle, DayInv, IInv, TypeOK

LEMMA InferChecks ==
  ASSUME DayInv, NEW c \in Calls, Infer(c), NEW d \in Calls
  PROVE  Checked(d)'
<1> DEFINE interval == TheInterval(call[c].tap, clock)
<1>1. made' = made
  BY DEF Infer, rows
<1>2. PICK type \in InferredTypes(interval, clock) :
         IF \/ TooSoon(interval, clock)
            \/ interval = "BREAK" /\ type = "IN" /\ ~IsOpen("WORK", clock)
         THEN Release(c, "refused")
         ELSE /\ call' = [call EXCEPT ![c] = [@ EXCEPT !.pc = "inferred",
                     !.interval = interval, !.type = type, !.settled = clock]]
              /\ UNCHANGED <<claimed, person>>
  BY DEF Infer
<1>3. CASE Release(c, "refused")
  <2>1. call'[d] = call[d] \/ call'[d].pc # "inferred"
    BY <1>3, EndsUnread
  <2> QED
    BY <1>1, <2>1, CheckedKept DEF Checked, DayInv
<1>4. CASE /\ call' = [call EXCEPT ![c] = [@ EXCEPT !.pc = "inferred",
                     !.interval = interval, !.type = type, !.settled = clock]]
           /\ ~TooSoon(interval, clock)
  <2>1. CASE d = c
    <3>1. /\ call'[c].settled = clock /\ call'[c].interval = interval
          /\ call'[c].tap = call[c].tap
      BY <1>4 DEF DayInv, IInv, TypeOK
    <3>2. Asks[call[c].tap] = "tap" /\ interval = "WORK" => ~IsOpen("BREAK", clock)
      BY DEF TheInterval
    <3> HIDE DEF interval
    <3> QED
      BY <1>1, <1>4, <2>1, <3>1, <3>2
      DEF Checked, TooSoon, IsOpen, InferredTypes, LastOpen, Recent, Events
  <2>2. CASE d # c
    BY <1>1, <1>4, <2>2, CheckedKept DEF DayInv, IInv, TypeOK
  <2> QED
    BY <2>1, <2>2
<1> QED
  BY <1>2, <1>3, <1>4

LEMMA NextDayInv == ASSUME OnTheSpot, DayInv, [Next]_vars PROVE DayInv'
<1>1. IInv'
  BY NextIInv DEF DayInv
<1>2. ASSUME made' = made, \A d \in Calls : call'[d] = call[d] \/ call'[d].pc # "inferred"
      PROVE  DayInv'
  <2>1. \A d \in Calls : Checked(d)'
    BY <1>2, CheckedKept DEF Checked, DayInv
  <2> QED
    BY <1>1, <1>2, <2>1, NothingWritten
<1>3. ASSUME NEW c \in Calls, Commit(c) PROVE DayInv'
  <2>1. \A d \in Calls : call'[d] = call[d] \/ call'[d].pc # "inferred"
    BY <1>3, EndsUnread DEF Commit
  <2>2. ASSUME NEW d \in Calls, call'[d].pc = "inferred" PROVE FALSE
    <3>1. call'[c].pc = "done"
      BY <1>3 DEF Commit, Release, Ended, Idle, DayInv, IInv, TypeOK
    <3>2. d # c /\ call[d].pc = "inferred" /\ call[c].pc = "inferred"
      BY <1>3, <2>1, <2>2, <3>1 DEF Commit
    <3>3. person = c /\ person = d
      BY <3>2 DEF DayInv, IInv, Reading, Alone
    <3> QED
      BY <3>2, <3>3
  <2>3. \A d \in Calls : Checked(d)'
    BY <2>2 DEF Checked
  <2> QED
    BY <1>1, <1>3, <2>3, CommitAlternates DEF DayInv
<1>4. ASSUME NEW c \in Calls, Infer(c) PROVE DayInv'
  <2>1. made' = made
    BY <1>4 DEF Infer, rows
  <2> QED
    BY <1>1, <1>4, <2>1, InferChecks, NothingWritten
<1>5. ASSUME NEW c \in Calls,
             LookUp(c) \/ Claim(c) \/ HoldPerson(c) \/ RefuseTime(c) \/ TurnAway(c) \/ Crash(c)
      PROVE  DayInv'
  <2>1. made' = made
    BY <1>5 DEF LookUp, Claim, HoldPerson, RefuseTime, TurnAway, Crash, rows
  <2>2. \/ \E how \in {"done", "refused", "lost"} : Release(c, how)
        \/ \E stage \in {"unclaimed", "claimed", "held"} : call' = [call EXCEPT ![c].pc = stage]
    BY <1>5 DEF LookUp, Claim, AnswerFromReceipt, HoldPerson, RefuseTime, TurnAway, Crash
  <2>3. \A d \in Calls : call'[d] = call[d] \/ call'[d].pc # "inferred"
    BY <2>2, EndsUnread DEF DayInv, IInv, TypeOK
  <2> QED
    BY <1>2, <2>1, <2>3
<1>6. ASSUME NEW c \in Calls, NEW t \in Taps, Send(c, t) PROVE DayInv'
  <2>1. made' = made
    BY <1>6 DEF Send, rows
  <2>2. \A d \in Calls : call'[d] = call[d] \/ call'[d].pc # "inferred"
    BY <1>6 DEF Send, Idle, DayInv, IInv, TypeOK
  <2> QED
    BY <1>2, <2>1, <2>2
<1>7. ASSUME (\E t \in Taps : Press(t)) \/ Tick \/ UNCHANGED vars PROVE DayInv'
  <2>1. made' = made /\ call' = call
    BY <1>7 DEF Press, Tick, vars, rows
  <2> QED
    BY <1>2, <2>1
<1> QED
  BY <1>3, <1>4, <1>5, <1>6, <1>7 DEF Next, Step

LEMMA InitDayInv == ASSUME Init PROVE DayInv
<1>1. Events = {} /\ \A c \in Calls : call[c].pc = "idle"
  BY DEF Init, Events, Idle
<1> QED
  BY <1>1, InitIInv
  DEF DayInv, Checked, OneAtATime, OpeningsAlternate, ReturnTapEndsTheBreak

LEMMA DayInvAlways == OnTheSpot => (Spec => []DayInv)
<1> SUFFICES ASSUME OnTheSpot PROVE Spec => []DayInv
  OBVIOUS
<1>1. Init => DayInv
  BY InitDayInv
<1>2. DayInv /\ [Next]_vars => DayInv'
  BY NextDayInv
<1> QED
  BY <1>1, <1>2, PTL DEF Spec

\* Where events count by their arrival, openings and closings take turns,
\* however taps are repeated, overlap and lose their answers: the type is read
\* behind hold and nothing is written until the event is (register_punch).
THEOREM DaysAreReadable == OnTheSpot => (Spec => []OpeningsAlternate)
<1>1. DayInv => OpeningsAlternate
  BY DEF DayInv
<1> QED
  BY <1>1, DayInvAlways, PTL

\* There, the one-tap of who comes back from a break ends the break and not the
\* working day, whatever it races with (interval None in register_punch).
THEOREM BreaksEndFirst == OnTheSpot => (Spec => []ReturnTapEndsTheBreak)
<1>1. DayInv => ReturnTapEndsTheBreak
  BY DEF DayInv
<1> QED
  BY <1>1, DayInvAlways, PTL

-----------------------------------------------------------------------------
(* The calls implement the register *)

record == [t \in Taps |-> EventOf(t)]

LEMMA EventOfMade ==
  ASSUME IInv, NEW c \in Calls, made[c] # Nothing
  PROVE  made[c].tap \in Taps /\ EventOf(made[c].tap) = made[c]
<1> DEFINE t == made[c].tap
           P(d) == made[d] # Nothing /\ made[d].tap = t
<1>1. t \in Taps
  BY DEF IInv, TypeOK, Punch
<1>2. PICK d \in Calls : P(d) /\ d = CHOOSE x \in Calls : P(x)
  OBVIOUS
<1>3. d = c
  BY <1>2, OneEvent DEF OneEventPerTap
<1> QED
  BY <1>1, <1>2, <1>3 DEF EventOf

LEMMA RecordedEvents ==
  ASSUME IInv
  PROVE  Register!Events = Events
<1>1. ASSUME NEW e \in Events PROVE e \in Register!Events
  <2>1. PICK c \in Calls : made[c] = e /\ made[c] # Nothing
    BY EventIsMade DEF IInv
  <2>2. e.tap \in Taps /\ EventOf(e.tap) = e /\ e # Nothing
    BY <2>1, EventOfMade
  <2> QED
    BY <2>2 DEF Register!Events
<1>2. ASSUME NEW t \in Taps, EventOf(t) # Nothing PROVE EventOf(t) \in Events
  <2>1. \E c \in Calls : made[c] # Nothing /\ made[c].tap = t
    BY <1>2 DEF EventOf
  <2>2. PICK c \in Calls : made[c] # Nothing /\ made[c].tap = t
    BY <2>1
  <2>3. EventOf(t) = made[c]
    BY <2>2, EventOfMade
  <2> QED
    BY <2>2, <2>3 DEF Events
<1> QED
  BY <1>1, <1>2 DEF Register!Events

LEMMA RegisterFollows ==
  ASSUME IInv, NEW type \in Types, NEW interval, NEW now \in Nat,
         type \in InferredTypes(interval, now)
  PROVE  Register!Follows(type, interval, now)
<1>1. \A e \in Events : e.at \in Nat /\ e.type \in Types
  BY EventIsMade DEF IInv, Punch
<1>2. Register!Recent(interval, now) = Recent(interval, now)
  BY <1>1, RecordedEvents, TimesAssumption DEF Register!Recent, Recent
<1>3. Register!Last(interval, now) = LastOpen(interval, now)
  BY <1>2 DEF Register!Last, LastOpen
<1>4. LastOpen(interval, now) \subseteq Events
  BY DEF LastOpen, Recent
<1>5. CASE LastOpen(interval, now) = {}
  BY <1>3, <1>5 DEF Register!Follows, InferredTypes
<1>6. CASE LastOpen(interval, now) # {}
  <2>1. PICK e \in LastOpen(interval, now) : type = IF e.type = "OUT" THEN "IN" ELSE "OUT"
    BY <1>6 DEF InferredTypes
  <2>2. e.type # type
    BY <2>1, <1>1, <1>4 DEF Types
  <2> QED
    BY <2>1, <2>2, <1>3, <1>6 DEF Register!Follows
<1> QED
  BY <1>5, <1>6

\* The owner of a key writes its tap's event and no other.
LEMMA WritesOneEvent ==
  ASSUME IInv, IInv', NEW c \in Calls, OwnsKey(c), NEW t \in Taps, call[c].tap = t,
         NEW e \in Punch, e.tap = t, made' = [made EXCEPT ![c] = e]
  PROVE  record[t] = Nothing /\ record' = [record EXCEPT ![t] = e]
<1>1. record[t] = Nothing
  BY FirstOfItsTap DEF record, EventOf
<1>2. made'[c] = e /\ \A d \in Calls \ {c} : made'[d] = made[d]
  BY DEF IInv, TypeOK
<1>3. e # Nothing /\ e.tap = t
  BY PunchAssumption
<1>4. EventOf(t)' = e
  <2> DEFINE P(x) == made'[x] # Nothing /\ made'[x].tap = t
  <2>1. \A d \in Calls : P(d) <=> d = c
    BY <1>2, <1>3, FirstOfItsTap
  <2>2. PICK d \in Calls : P(d) /\ d = CHOOSE x \in Calls : P(x)
    BY <2>1
  <2>3. d = c
    BY <2>1, <2>2
  <2> QED
    BY <2>2, <2>3, <1>2 DEF EventOf
<1>5. ASSUME NEW u \in Taps \ {t} PROVE EventOf(u)' = EventOf(u)
  <2>1. CASE \E d \in Calls : made[d] # Nothing /\ made[d].tap = u
    <3>1. PICK d \in Calls : made[d] # Nothing /\ made[d].tap = u
      BY <2>1
    <3>2. d # c /\ made'[d] = made[d]
      BY <1>2, <3>1, FirstOfItsTap DEF IInv, Paperwork, OwnsKey
    <3>3. EventOf(u) = made[d]
      BY <3>1, EventOfMade
    <3>4. EventOf(u)' = made'[d]
      <4> DEFINE P(x) == made'[x] # Nothing /\ made'[x].tap = u
      <4>1. P(d)
        BY <3>1, <3>2
      <4>2. OneEventPerTap'
        BY OneEvent, PTL
      <4>3. PICK x \in Calls : P(x) /\ x = CHOOSE y \in Calls : P(y)
        BY <4>1
      <4>4. x = d
        BY <4>1, <4>2, <4>3 DEF OneEventPerTap
      <4> QED
        BY <4>1, <4>3, <4>4 DEF EventOf
    <3> QED
      BY <3>2, <3>3, <3>4
  <2>2. CASE ~\E d \in Calls : made[d] # Nothing /\ made[d].tap = u
    <3>1. ~\E d \in Calls : made'[d] # Nothing /\ made'[d].tap = u
      BY <1>3, <1>2, <2>2
    <3> QED
      BY <2>2, <3>1 DEF EventOf
  <2> QED
    BY <2>1, <2>2
<1> QED
  BY <1>1, <1>4, <1>5 DEF record

\* A committed call is one event of the register.
LEMMA CommitIsRecord ==
  ASSUME IInv, IInv', NEW c \in Calls, Commit(c)
  PROVE  \E t \in Taps : Register!Record(t)
<1>1. call[c].pc = "inferred" /\ OwnsKey(c) /\ clock' = clock
  BY DEF Commit, OwnsKey
<1>2. PICK t \in Taps : t = call[c].tap
  BY <1>1 DEF IInv, Keys
<1>3. PICK type \in Types, interval \in Intervals, settled \in Nat :
         type = call[c].type /\ interval = call[c].interval /\ settled = call[c].settled
  BY DEF IInv, TypeOK
<1>4. clock \in Nat /\ (t \in Declares => pressed[t] \in Nat)
  BY <1>2, TimesAssumption DEF IInv, TypeOK, Queued
<1>5. PICK at \in AcceptedTime(t, clock) :
         made' = [made EXCEPT ![c] = [tap |-> t, interval |-> interval, type |-> type,
                                      at |-> at, recv |-> clock]]
  BY <1>2, <1>3 DEF Commit
<1>6. at \in 0 .. clock
  <2>1. /\ at \in Nat
        /\ IF t \in Declares
           THEN at <= clock /\ clock - at <= Grace /\ at <= Declared(t)
           ELSE at = clock
    BY <1>4, AcceptedIsVouched
  <2> QED
    BY <2>1, <1>4
<1>7. settled \in 0 .. clock /\ StillFollows(type, interval, settled)
  BY <1>1, <1>3, <1>4 DEF IInv, Reading
<1>8. [tap |-> t, interval |-> interval, type |-> type, at |-> at, recv |-> clock] \in Punch
  BY <1>4, <1>6 DEF Punch
<1>9. /\ record[t] = Nothing
      /\ record' = [record EXCEPT ![t] = [tap |-> t, interval |-> interval,
                        type |-> type, at |-> at, recv |-> clock]]
  <2>1. PICK e \in Punch : e = [tap |-> t, interval |-> interval, type |-> type,
                                at |-> at, recv |-> clock]
    BY <1>8
  <2>2. e.tap = t
    BY <2>1
  <2>3. made' = [made EXCEPT ![c] = e]
    BY <1>5, <2>1
  <2>4. record[t] = Nothing /\ record' = [record EXCEPT ![t] = e]
    BY <1>1, <1>2, <2>2, <2>3, WritesOneEvent
  <2> QED
    BY <2>1, <2>4
<1>10. \A f \in Register!Events : f.recv <= settled
  BY <1>7, RecordedEvents DEF StillFollows
<1>11. Register!Follows(type, interval, settled)
  BY <1>7, RegisterFollows DEF StillFollows
<1>12. interval = "BREAK" /\ type = "IN" => Register!Follows("OUT", "WORK", settled)
  BY <1>7, RegisterFollows DEF StillFollows, IsOpen, Types
<1>13. type \in {"IN", "OUT"} /\ interval \in {"WORK", "BREAK"}
  BY DEF Types, Intervals
<1>14. Register!Record(t)
  BY <1>1, <1>6, <1>7, <1>9, <1>10, <1>11, <1>12, <1>13 DEF Register!Record, record
<1> QED
  BY <1>14

LEMMA RegisterInit == Init => Register!Init
  BY DEF Init, Register!Init, EventOf

LEMMA NothingRecorded ==
  ASSUME made' = made
  PROVE  record' = record
  BY DEF record, EventOf

LEMMA RegisterStep ==
  ASSUME IInv, IInv', [Next]_vars
  PROVE  [Register!Next]_(Register!vars)
<1>1. ASSUME NEW c \in Calls, Commit(c) PROVE Register!Next
  BY <1>1, CommitIsRecord DEF Register!Next
<1>2. CASE Tick
  <2>1. made' = made /\ clock' = clock + 1
    BY <1>2 DEF Tick, rows
  <2> QED
    BY <2>1, NothingRecorded DEF Register!Next, Register!TimePasses, record
<1>3. CASE made' = made /\ clock' = clock
  BY <1>3, NothingRecorded DEF Register!vars, record
<1>4. ASSUME NEW t \in Taps, Press(t) PROVE made' = made /\ clock' = clock
  BY <1>4 DEF Press, rows
<1>5. ASSUME NEW c \in Calls, NEW t \in Taps, Send(c, t) PROVE made' = made /\ clock' = clock
  BY <1>5 DEF Send, rows
<1>6. ASSUME NEW c \in Calls, Step(c), ~Commit(c) PROVE made' = made /\ clock' = clock
  BY <1>6 DEF Step, LookUp, Claim, HoldPerson, Infer, RefuseTime, rows
<1>7. ASSUME NEW c \in Calls, TurnAway(c) \/ Crash(c) PROVE made' = made /\ clock' = clock
  BY <1>7 DEF TurnAway, Crash, rows
<1>8. CASE UNCHANGED vars
  BY <1>3, <1>8 DEF vars
<1> QED
  BY <1>1, <1>2, <1>3, <1>4, <1>5, <1>6, <1>7, <1>8 DEF Next

\* However calls overlap, are repeated, crash or lose their answers, the record
\* behaves as if each tap were written once, in one step, with a type that
\* follows from the record (register_punch behind hold and claim).
THEOREM CallsImplementRegister == Spec => ImplementsRegister
<1>1. Init => Register!Init
  BY RegisterInit
<1>2. IInv /\ IInv' /\ [Next]_vars => [Register!Next]_(Register!vars)
  BY RegisterStep
<1> QED
  BY <1>1, <1>2, Inductive, PTL DEF Spec, ImplementsRegister, Register!Spec

=============================================================================
