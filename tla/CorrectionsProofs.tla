------------------------- MODULE CorrectionsProofs -------------------------
(***************************************************************************)
(* Proofs about the correction procedure, for any company, any number of   *)
(* corrections and requests and any consent window.                        *)
(*                                                                         *)
(* The argument is the row lock.  A request that holds a correction's row  *)
(* found it in the status its operation starts from, and nobody else can   *)
(* write the row until it ends: so what it found is still true when it     *)
(* writes, and every decision leaves an open correction.                   *)
(***************************************************************************)
EXTENDS Corrections, TLAPS

InHand(r) == req[r].pc \in {"held", "looked", "decided"}

\* What is filed is well formed, and stays on the path it was filed on.
Filed ==
    \A c \in Corrections :
        /\ status[c] # "UNFILED" => asked[c] \in Claims
        /\ status[c] \in Open =>
              status[c] = FirstStatus(asked[c].by, asked[c].subject)

\* A request that holds a row is alone with it, and what entitled it to go on
\* still holds.
Holding ==
    \A r \in Requests :
        /\ req[r].pc = "sent" \/ InHand(r) =>
              /\ req[r].corr \in Corrections
              /\ req[r].who \in People
              /\ status[req[r].corr] # "UNFILED"
        /\ InHand(r) =>
              /\ lock[req[r].corr] = r
              /\ Entitled(req[r].op, req[r].corr, req[r].who)
        /\ req[r].pc = "decided" =>
              (req[r].alone <=> Decider(r) = asked[req[r].corr].subject)

\* An undecided correction carries no decision and no agreement.
Undisturbed ==
    \A c \in Corrections :
        status[c] \notin Resolved =>
            /\ outcome[c] = Undecided
            /\ answer[c] \in {Unsaid, [agreed |-> "no", account |-> "person", told |-> TRUE]}
            /\ status[c] = "UNFILED" => answer[c] = Unsaid

IInv ==
    /\ TypeOK /\ Filed /\ Holding /\ Undisturbed
    /\ RecordSaysOneThing /\ SelfDecidedIsMarked

USE DEF InHand

-----------------------------------------------------------------------------
LEMMA InitIInv == Init => IInv
<1> SUFFICES ASSUME Init PROVE IInv
  OBVIOUS
<1>1. TypeOK
  BY PeopleAssumption, CompanyAssumption, WindowAssumption
  DEF Init, TypeOK, Statuses, Answers, Unsaid, Outcomes, Undecided, Events, Punches,
      Calls, Stages, Ops, NotSent
<1>2. Filed
  BY DEF Init, Filed, Open
<1>3. Holding
  BY DEF Init, Holding, NotSent
<1>4. Undisturbed
  BY DEF Init, Undisturbed
<1>5. RecordSaysOneThing /\ SelfDecidedIsMarked
  BY DEF Init, RecordSaysOneThing, SelfDecidedIsMarked, Resolved, Applied, Undecided, Unsaid
<1> QED
  BY <1>1, <1>2, <1>3, <1>4, <1>5 DEF IInv

-----------------------------------------------------------------------------
\* Ending a request leaves what the others hold as it was: they hold other rows.
LEMMA HoldingKept ==
  ASSUME TypeOK, Holding,
         NEW r \in Requests, InHand(r),
         NEW how \in {"done", "refused"}, Release(r, how),
         UNCHANGED <<asked, today>>,
         \A d \in Corrections : d # req[r].corr =>
            status'[d] = status[d] /\ answer'[d] = answer[d],
         status'[req[r].corr] # "UNFILED"
  PROVE  Holding'
<1> DEFINE c == req[r].corr
<1>1. c \in Corrections /\ lock[c] = r
  BY DEF Holding
<1>2. /\ req' = [req EXCEPT ![r] = Ended(how)]
      /\ lock' = [lock EXCEPT ![c] = Nothing]
  BY DEF Release
<1>3. Ended(how).pc = how
  BY DEF Ended, NotSent
<1> SUFFICES ASSUME NEW q \in Requests
             PROVE  /\ req'[q].pc = "sent" \/ InHand(q)' =>
                          /\ req'[q].corr \in Corrections
                          /\ req'[q].who \in People
                          /\ status'[req'[q].corr] # "UNFILED"
                    /\ InHand(q)' =>
                          /\ lock'[req'[q].corr] = q
                          /\ Entitled(req[q].op, req[q].corr, req[q].who)'
                    /\ req'[q].pc = "decided" =>
                          (req'[q].alone <=> Decider(q)' = asked'[req'[q].corr].subject)
  BY DEF Holding
<1>4. CASE q = r
  <2>1. req'[q].pc = how
    BY <1>2, <1>3, <1>4 DEF TypeOK
  <2> QED
    BY <2>1
<1>5. CASE q # r
  <2>1. req'[q] = req[q]
    BY <1>2, <1>5 DEF TypeOK
  <2>2. req[q].pc = "sent" \/ InHand(q) =>
           /\ req[q].corr \in Corrections /\ req[q].who \in People
           /\ status'[req[q].corr] # "UNFILED"
    BY DEF Holding
  <2>3. ASSUME InHand(q)
        PROVE  /\ lock'[req[q].corr] = q
               /\ Entitled(req[q].op, req[q].corr, req[q].who)'
    <3> DEFINE d == req[q].corr
    <3>1. d \in Corrections /\ lock[d] = q /\ Entitled(req[q].op, d, req[q].who)
      BY <2>3 DEF Holding
    <3>2. d # c
      BY <3>1, <1>1, <1>5
    <3>3. lock'[d] = q /\ status'[d] = status[d] /\ answer'[d] = answer[d]
      BY <3>1, <3>2, <1>2 DEF TypeOK
    <3> QED
      BY <3>1, <3>3, <2>1 DEF Entitled, ConsentWindowHasPassed
  <2>4. req[q].pc = "decided" =>
           (req[q].alone <=> Decider(q)' = asked'[req[q].corr].subject)
    BY <2>1 DEF Holding, Decider
  <2> QED
    BY <2>1, <2>2, <2>3, <2>4
<1> QED
  BY <1>4, <1>5

\* Ending a request is well typed.
LEMMA ReleaseType ==
  ASSUME TypeOK, NEW r \in Requests, NEW how \in {"done", "refused"}, Release(r, how)
  PROVE  /\ req' \in [Requests -> Calls]
         /\ lock' \in [Corrections -> Requests \cup {Nothing}]
<1>1. Ended(how) \in Calls
  BY DEF Ended, NotSent, Calls, Stages, Ops
<1> QED
  BY <1>1 DEF TypeOK, Release

\* A request that only stops, or moves on in its hands, changes no paper.
LEMMA PapersKept ==
  ASSUME IInv, UNCHANGED papers
  PROVE  Filed' /\ Undisturbed' /\ RecordSaysOneThing' /\ SelfDecidedIsMarked'
<1>1. UNCHANGED <<asked, status, answer, outcome, punch>>
  BY DEF papers
<1> QED
  BY <1>1 DEF IInv, Filed, Undisturbed, RecordSaysOneThing, SelfDecidedIsMarked

-----------------------------------------------------------------------------
LEMMA FileIInv ==
  ASSUME IInv, NEW c \in Corrections, NEW by \in People, NEW subject \in People,
         NEW kind \in Kinds, NEW target \in Punches \cup {Nothing},
         File(c, by, subject, kind, target)
  PROVE  IInv'
<1> DEFINE claim == [kind |-> kind, target |-> target, subject |-> subject,
                     by |-> by, on |-> today]
<1> USE DEF File
<1>1. /\ asked' = [asked EXCEPT ![c] = claim]
      /\ status' = [status EXCEPT ![c] = FirstStatus(by, subject)]
      /\ status[c] = "UNFILED"
      /\ UNCHANGED <<answer, outcome, punch, lock, req, staff, today>>
  OBVIOUS
<1>2. claim \in Claims /\ FirstStatus(by, subject) \in Open
  BY DEF IInv, TypeOK, Claims, FirstStatus, Open
<1>3. claim.by = by /\ claim.subject = subject
  OBVIOUS
<1> HIDE DEF claim, File
<1>4. TypeOK'
  BY <1>1, <1>2 DEF IInv, TypeOK, Statuses
<1>5. Filed'
  BY <1>1, <1>2, <1>3 DEF IInv, TypeOK, Filed
<1>6. \A d \in Corrections : d # c => asked'[d] = asked[d] /\ status'[d] = status[d]
  BY <1>1 DEF IInv, TypeOK
<1>7. Holding'
  <2> SUFFICES ASSUME NEW q \in Requests
               PROVE  /\ req[q].pc = "sent" \/ InHand(q) =>
                            /\ req[q].corr \in Corrections
                            /\ req[q].who \in People
                            /\ status'[req[q].corr] # "UNFILED"
                      /\ InHand(q) =>
                            /\ lock[req[q].corr] = q
                            /\ Entitled(req[q].op, req[q].corr, req[q].who)'
                      /\ req[q].pc = "decided" =>
                            (req[q].alone <=> Decider(q)' = asked'[req[q].corr].subject)
    BY <1>1 DEF Holding
  <2>1. CASE req[q].pc = "sent" \/ InHand(q)
    <3>1. /\ req[q].corr \in Corrections /\ req[q].who \in People
          /\ status[req[q].corr] # "UNFILED"
      BY <2>1 DEF IInv, Holding
    <3>2. asked'[req[q].corr] = asked[req[q].corr] /\ status'[req[q].corr] = status[req[q].corr]
      BY <3>1, <1>1, <1>6
    <3> QED
      BY <3>1, <3>2, <1>1 DEF IInv, Holding, Entitled, ConsentWindowHasPassed, Decider
  <2>2. CASE ~(req[q].pc = "sent" \/ InHand(q))
    BY <2>2
  <2> QED
    BY <2>1, <2>2
<1>8. Undisturbed'
  BY <1>1, <1>2, <1>6 DEF IInv, TypeOK, Undisturbed, Open, Resolved, Applied
<1>9. RecordSaysOneThing' /\ SelfDecidedIsMarked'
  <2>1. status'[c] \in Open /\ status'[c] \notin Resolved
    BY <1>1, <1>2 DEF IInv, TypeOK, Open, Resolved, Applied
  <2>2. outcome[c] = Undecided /\ answer[c] = Unsaid
    BY <1>1 DEF IInv, Undisturbed, Resolved, Applied
  <2> QED
    BY <1>1, <1>6, <2>1, <2>2 DEF IInv, TypeOK, RecordSaysOneThing, SelfDecidedIsMarked,
       Open, Resolved, Applied, Undecided, Unsaid
<1> QED
  BY <1>4, <1>5, <1>7, <1>8, <1>9 DEF IInv

-----------------------------------------------------------------------------
LEMMA StartIInv ==
  ASSUME IInv, NEW r \in Requests, NEW op \in Ops, NEW c \in Corrections,
         NEW who \in People, Start(r, op, c, who)
  PROVE  IInv'
<1> DEFINE call == [pc |-> "sent", op |-> op, corr |-> c, who |-> who, alone |-> FALSE]
<1>1. /\ req[r].pc = "idle" /\ status[c] # "UNFILED"
      /\ req' = [req EXCEPT ![r] = call]
      /\ UNCHANGED <<papers, lock, staff, today>>
  BY DEF Start
<1>2. TypeOK'
  BY <1>1 DEF IInv, TypeOK, papers, Calls, Stages
<1>3. Holding'
  BY <1>1 DEF IInv, TypeOK, Holding, papers, Entitled, ConsentWindowHasPassed, Decider
<1> QED
  BY <1>1, <1>2, <1>3, PapersKept DEF IInv

\* A request that is turned away ends without touching a paper.
LEMMA RefusedIInv ==
  ASSUME IInv, NEW r \in Requests, InHand(r), Release(r, "refused"),
         UNCHANGED <<papers, staff, today>>
  PROVE  IInv'
<1>1. TypeOK'
  BY ReleaseType DEF IInv, TypeOK, papers
<1>2. Holding'
  BY HoldingKept DEF IInv, Holding, papers
<1> QED
  BY <1>1, <1>2, PapersKept DEF IInv

LEMMA ClaimIInv ==
  ASSUME IInv, NEW r \in Requests, Claim(r)
  PROVE  IInv'
<1> DEFINE c == req[r].corr
<1>1. /\ req[r].pc = "sent" /\ lock[c] = Nothing
      /\ UNCHANGED <<papers, staff, today>>
  BY DEF Claim
<1>2. c \in Corrections /\ req[r].who \in People /\ status[c] # "UNFILED"
  BY <1>1 DEF IInv, Holding
<1>3. CASE Entitled(req[r].op, c, req[r].who)
  <2>1. lock' = [lock EXCEPT ![c] = r] /\ req' = [req EXCEPT ![r].pc = "held"]
    BY <1>3 DEF Claim
  <2>2. TypeOK'
    <3>1. req' \in [Requests -> Calls]
      BY <2>1 DEF IInv, TypeOK, Calls, Stages
    <3>2. lock' \in [Corrections -> Requests \cup {Nothing}]
      BY <2>1 DEF IInv, TypeOK
    <3> QED
      BY <1>1, <3>1, <3>2 DEF IInv, TypeOK, papers
  <2>3. \A q \in Requests : InHand(q) => req[q].corr # c
    BY <1>1, PeopleAssumption DEF IInv, Holding, Punches
  <2>4. Holding'
    BY <1>1, <1>2, <1>3, <2>1, <2>3
    DEF IInv, TypeOK, Holding, papers, Entitled, ConsentWindowHasPassed, Decider, Calls
  <2> QED
    BY <1>1, <2>2, <2>4, PapersKept DEF IInv
<1>4. CASE ~Entitled(req[r].op, c, req[r].who)
  <2>1. req' = [req EXCEPT ![r] = Ended("refused")] /\ lock' = lock
    BY <1>4 DEF Claim
  <2>2. Ended("refused") \in Calls /\ Ended("refused").pc = "refused"
    BY DEF Ended, NotSent, Calls, Stages, Ops
  <2>3. TypeOK'
    BY <1>1, <2>1, <2>2 DEF IInv, TypeOK, papers
  <2>4. Holding'
    BY <1>1, <2>1, <2>2
    DEF IInv, TypeOK, Holding, papers, Entitled, ConsentWindowHasPassed, Decider
  <2> QED
    BY <1>1, <2>3, <2>4, PapersKept DEF IInv
<1> QED
  BY <1>3, <1>4

LEMMA LookAtTargetIInv ==
  ASSUME IInv, NEW r \in Requests, LookAtTarget(r)
  PROVE  IInv'
<1>1. req[r].pc = "held" /\ UNCHANGED <<papers, staff, today>>
  BY DEF LookAtTarget
<1>2. CASE TargetInForce(req[r].corr)
  <2>1. req' = [req EXCEPT ![r].pc = "looked"] /\ lock' = lock
    BY <1>2 DEF LookAtTarget
  <2>2. TypeOK'
    BY <1>1, <2>1 DEF IInv, TypeOK, papers, Calls, Stages
  <2>3. Holding'
    BY <1>1, <2>1
    DEF IInv, TypeOK, Holding, papers, Entitled, ConsentWindowHasPassed, Decider, Calls
  <2> QED
    BY <1>1, <2>2, <2>3, PapersKept DEF IInv
<1>3. CASE ~TargetInForce(req[r].corr)
  BY <1>1, <1>3, RefusedIInv DEF LookAtTarget
<1> QED
  BY <1>2, <1>3

LEMMA RefuseSelfDecisionIInv ==
  ASSUME IInv, NEW r \in Requests, RefuseSelfDecision(r)
  PROVE  IInv'
<1> DEFINE subject == asked[req[r].corr].subject
<1>1. InHand(r) /\ UNCHANGED <<papers, staff, today>>
  BY DEF RefuseSelfDecision, AtFourEyes
<1>2. CASE MustLeaveIt(Decider(r), subject)
  BY <1>1, <1>2, RefusedIInv DEF RefuseSelfDecision
<1>3. CASE ~MustLeaveIt(Decider(r), subject)
  <2>1. /\ req' = [req EXCEPT ![r].pc = "decided", ![r].alone = (Decider(r) = subject)]
        /\ lock' = lock
    BY <1>3 DEF RefuseSelfDecision
  <2>2. TypeOK'
    <3> DEFINE alone == Decider(r) = subject
               call == [req[r] EXCEPT !.pc = "decided", !.alone = alone]
    <3>1. req' = [req EXCEPT ![r] = call]
      BY <2>1 DEF IInv, TypeOK
    <3>2. alone \in BOOLEAN /\ req[r] \in Calls
      BY DEF IInv, TypeOK
    <3>3. call \in Calls
      <4> HIDE DEF alone
      <4> QED
        BY <3>2 DEF Calls, Stages
    <3>4. req' \in [Requests -> Calls]
      <4> HIDE DEF call
      <4> QED
        BY <3>1, <3>3 DEF IInv, TypeOK
    <3> QED
      BY <3>4, <2>1, <1>1 DEF IInv, TypeOK, papers
  <2>3. Holding'
    BY <1>1, <2>1
    DEF IInv, TypeOK, Holding, papers, Entitled, ConsentWindowHasPassed, Decider, Calls
  <2> QED
    BY <1>1, <2>2, <2>3, PapersKept DEF IInv
<1> QED
  BY <1>2, <1>3

LEMMA CrashIInv ==
  ASSUME IInv, NEW r \in Requests, Crash(r)
  PROVE  IInv'
<1>1. /\ req' = [req EXCEPT ![r] = Ended("lost")]
      /\ lock' = [c \in Corrections |-> IF lock[c] = r THEN Nothing ELSE lock[c]]
      /\ UNCHANGED <<papers, staff, today>>
  BY DEF Crash
<1>2. Ended("lost") \in Calls /\ Ended("lost").pc = "lost"
  BY DEF Ended, NotSent, Calls, Stages, Ops
<1>3. TypeOK'
  BY <1>1, <1>2 DEF IInv, TypeOK, papers
<1>4. Holding'
  BY <1>1, <1>2
  DEF IInv, TypeOK, Holding, papers, Entitled, ConsentWindowHasPassed, Decider
<1> QED
  BY <1>1, <1>3, <1>4, PapersKept DEF IInv

LEMMA SetRoleIInv ==
  ASSUME IInv, NEW p \in People, NEW role \in Staff, SetRole(p, role)
  PROVE  IInv'
<1>1. staff' = [staff EXCEPT ![p] = role] /\ UNCHANGED <<papers, lock, req, today>>
  BY DEF SetRole
<1>2. TypeOK'
  BY <1>1 DEF IInv, TypeOK, papers
<1>3. Holding'
  BY <1>1 DEF IInv, Holding, papers, Entitled, ConsentWindowHasPassed, Decider
<1> QED
  BY <1>1, <1>2, <1>3, PapersKept DEF IInv

\* A window that has run out stays so: waiting never costs a claim its ground.
LEMMA TickIInv == IInv /\ Tick => IInv'
<1> SUFFICES ASSUME IInv, Tick PROVE IInv'
  OBVIOUS
<1>1. today < MaxDay /\ today' = today + 1 /\ UNCHANGED <<papers, lock, req, staff>>
  BY DEF Tick
<1>2. TypeOK'
  BY <1>1, WindowAssumption DEF IInv, TypeOK, papers
<1>3. Holding'
  <2>1. \A c \in Corrections : status[c] # "UNFILED" /\ ConsentWindowHasPassed(c)
                                  => ConsentWindowHasPassed(c)'
    BY <1>1, WindowAssumption DEF IInv, TypeOK, Filed, Claims, papers, ConsentWindowHasPassed
  <2> QED
    BY <1>1, <2>1 DEF IInv, Holding, papers, Entitled, Decider
<1> QED
  BY <1>1, <1>2, <1>3, PapersKept DEF IInv

-----------------------------------------------------------------------------
(* The decisions *)

\* What a request in hand may count on: the correction is open, and its own.
LEMMA InHandFacts ==
  ASSUME IInv, NEW r \in Requests, InHand(r)
  PROVE  /\ req[r].corr \in Corrections
         /\ asked[req[r].corr] \in Claims
         /\ status[req[r].corr] \in Open
         /\ status[req[r].corr] = StartsFrom(req[r].op)
         /\ status[req[r].corr] =
               FirstStatus(asked[req[r].corr].by, asked[req[r].corr].subject)
         /\ outcome[req[r].corr] = Undecided
         /\ answer[req[r].corr] \in
               {Unsaid, [agreed |-> "no", account |-> "person", told |-> TRUE]}
         /\ Decider(r) \in People
<1> DEFINE c == req[r].corr
<1>1. c \in Corrections /\ req[r].who \in People /\ status[c] # "UNFILED"
      /\ status[c] = StartsFrom(req[r].op)
  BY DEF IInv, Holding, Entitled
<1>2. status[c] \in Open
  BY <1>1 DEF StartsFrom, Open
<1>3. asked[c] \in Claims /\ status[c] = FirstStatus(asked[c].by, asked[c].subject)
  BY <1>1, <1>2 DEF IInv, Filed
<1>4. outcome[c] = Undecided
      /\ answer[c] \in {Unsaid, [agreed |-> "no", account |-> "person", told |-> TRUE]}
  BY <1>1, <1>2 DEF IInv, Undisturbed, Open, Resolved, Applied
<1>5. Decider(r) \in People
  BY <1>1, <1>3 DEF Decider, Claims
<1> QED
  BY <1>1, <1>2, <1>3, <1>4, <1>5

LEMMA ChangeType ==
  ASSUME IInv, NEW r \in Requests, InHand(r), Change(r, req[r].corr)
  PROVE  punch' \in [Punches -> Events]
<1> DEFINE claim == asked[req[r].corr]
<1>1. claim \in Claims /\ r \in Punches
  BY InHandFacts DEF Punches
<1>2. [state |-> "active", next |-> Nothing, owner |-> claim.subject] \in Events
  BY <1>1 DEF Claims, Events
<1>3. \A p \in Punches :
         [punch[p] EXCEPT !.state = "void",
                          !.next = IF claim.kind = "MODIFY" THEN r ELSE Nothing] \in Events
  BY <1>1 DEF IInv, TypeOK, Events
<1>4. \A p \in Punches : punch[p] \in Events
  BY DEF IInv, TypeOK
<1> QED
  BY <1>2, <1>3, <1>4 DEF Change

\* What the person's side must say for the correction to end in a status.
Fits(said, to, c) ==
    /\ to = "DISPUTED" =>
          /\ said.told
          /\ \/ said.agreed = "no" /\ said.account = "person"
             \/ said.agreed = "silent" /\ said.account = "silence"
    /\ said.agreed = "yes" => to = "APPROVED"
    /\ to = "APPROVED" => (said.agreed = "yes" <=> asked[c].by # asked[c].subject)

\* A decision that says of consent what it did keeps the invariant.
LEMMA DecisionIInv ==
  ASSUME IInv, NEW r \in Requests, req[r].pc = "decided",
         NEW to \in Resolved, Settle(r, req[r].corr, to), Commit(r),
         punch' \in [Punches -> Events],
         NEW said \in Answers, answer' = [answer EXCEPT ![req[r].corr] = said],
         Fits(said, to, req[r].corr)
  PROVE  IInv'
<1> DEFINE c == req[r].corr
           decision == [by |-> Decider(r), alone |-> req[r].alone,
                        imposed |-> outcome[c].imposed \/ to = "DISPUTED",
                        result |-> IF to \in Applied THEN Result(r, c) ELSE outcome[c].result]
<1>1. /\ c \in Corrections /\ asked[c] \in Claims /\ status[c] \in Open
      /\ outcome[c] = Undecided /\ Decider(r) \in People
  BY InHandFacts
<1>2. /\ status' = [status EXCEPT ![c] = to]
      /\ outcome' = [outcome EXCEPT ![c] = decision]
      /\ Release(r, "done") /\ UNCHANGED <<asked, staff, today>>
  BY DEF Settle, Commit
<1>3. /\ decision.by = Decider(r) /\ decision.alone = req[r].alone
      /\ decision.imposed <=> to = "DISPUTED"
  <2>1. outcome[c].imposed = FALSE
    BY <1>1 DEF Undecided
  <2>2. outcome[c].imposed \/ to = "DISPUTED" <=> to = "DISPUTED"
    BY <2>1
  <2> QED
    BY <2>2
<1>4. decision \in Outcomes
  <2>1. req[r].alone \in BOOLEAN
    BY DEF IInv, TypeOK, Calls
  <2>2. Result(r, c) \in Punches \cup {Nothing} /\ outcome[c].result = Nothing
    BY <1>1 DEF Result, Punches, Undecided
  <2>3. (outcome[c].imposed \/ to = "DISPUTED") \in BOOLEAN
    OBVIOUS
  <2> QED
    BY <1>1, <2>1, <2>2, <2>3 DEF Outcomes
<1> HIDE DEF decision
<1>5. TypeOK'
  <2>1. status' \in [Corrections -> Statuses] /\ outcome' \in [Corrections -> Outcomes]
    BY <1>2, <1>4 DEF IInv, TypeOK, Statuses
  <2>2. answer' \in [Corrections -> Answers]
    BY DEF IInv, TypeOK
  <2> QED
    BY <1>2, <2>1, <2>2, ReleaseType DEF IInv, TypeOK
<1>6. \A d \in Corrections : d # c =>
         status'[d] = status[d] /\ answer'[d] = answer[d] /\ outcome'[d] = outcome[d]
  BY <1>2 DEF IInv, TypeOK
<1>7. status'[c] = to /\ outcome'[c] = decision /\ answer'[c] = said
  BY <1>1, <1>2 DEF IInv, TypeOK
<1>8. Filed'
  BY <1>1, <1>2, <1>6, <1>7 DEF IInv, Filed, Open, Resolved, Applied
<1>9. Holding'
  BY <1>2, <1>6, <1>7, HoldingKept DEF IInv, Resolved, Applied
<1>10. Undisturbed'
  BY <1>6, <1>7 DEF IInv, Undisturbed
<1>11. RecordSaysOneThing'
  BY <1>2, <1>3, <1>6, <1>7 DEF IInv, RecordSaysOneThing, Fits
<1>12. SelfDecidedIsMarked'
  <2>1. req[r].alone <=> Decider(r) = asked[c].subject
    BY DEF IInv, Holding
  <2> QED
    BY <1>2, <1>3, <1>6, <1>7, <2>1 DEF IInv, SelfDecidedIsMarked
<1> QED
  BY <1>5, <1>8, <1>9, <1>10, <1>11, <1>12 DEF IInv

LEMMA ApproveCorrectionIInv ==
  ASSUME IInv, NEW r \in Requests, ApproveCorrection(r)
  PROVE  IInv'
<1> DEFINE c == req[r].corr
<1>1. /\ req[r].pc = "decided" /\ req[r].op = "approve"
      /\ Settle(r, c, "APPROVED") /\ Change(r, c) /\ Commit(r) /\ answer' = answer
  BY DEF ApproveCorrection, Decided
<1>2. answer[c] \in Answers /\ answer' = [answer EXCEPT ![c] = answer[c]]
  BY <1>1, InHandFacts DEF IInv, TypeOK
<1>3. Fits(answer[c], "APPROVED", c)
  BY <1>1, InHandFacts DEF StartsFrom, FirstStatus, Unsaid, Fits
<1>4. punch' \in [Punches -> Events] /\ "APPROVED" \in Resolved
  BY <1>1, ChangeType DEF Resolved, Applied
<1> QED
  BY <1>1, <1>2, <1>3, <1>4, DecisionIInv

LEMMA AcceptCorrectionIInv ==
  ASSUME IInv, NEW r \in Requests, AcceptCorrection(r)
  PROVE  IInv'
<1> DEFINE c == req[r].corr
           said == [answer[c] EXCEPT !.agreed = "yes"]
<1>1. /\ req[r].pc = "decided" /\ req[r].op = "accept"
      /\ Settle(r, c, "APPROVED") /\ Change(r, c) /\ Commit(r)
      /\ answer' = [answer EXCEPT ![c].agreed = "yes"]
  BY DEF AcceptCorrection, Decided
<1>2. said \in Answers /\ answer' = [answer EXCEPT ![c] = said] /\ said.agreed = "yes"
  BY <1>1, InHandFacts DEF IInv, TypeOK, Answers
<1>3. Fits(said, "APPROVED", c)
  BY <1>1, <1>2, InHandFacts DEF StartsFrom, FirstStatus, Fits
<1>4. punch' \in [Punches -> Events] /\ "APPROVED" \in Resolved
  BY <1>1, ChangeType DEF Resolved, Applied
<1> HIDE DEF said
<1> QED
  BY <1>1, <1>2, <1>3, <1>4, DecisionIInv

LEMMA ApplyWithoutAgreementIInv ==
  ASSUME IInv, NEW r \in Requests, ApplyWithoutAgreement(r)
  PROVE  IInv'
<1> DEFINE c == req[r].corr
           silence == [answer[c] EXCEPT !.account = "silence", !.told = TRUE]
           said == IF answer[c].agreed = "silent" THEN silence ELSE answer[c]
<1>1. /\ req[r].pc = "decided" /\ req[r].op = "apply"
      /\ Settle(r, c, "DISPUTED") /\ Change(r, c) /\ Commit(r)
      /\ answer' = IF answer[c].agreed = "silent"
                   THEN [answer EXCEPT ![c].account = "silence", ![c].told = TRUE]
                   ELSE answer
  BY DEF ApplyWithoutAgreement, Decided
<1>2. /\ c \in Corrections /\ answer[c] \in Answers
      /\ answer[c] \in {Unsaid, [agreed |-> "no", account |-> "person", told |-> TRUE]}
  BY <1>1, InHandFacts DEF IInv, TypeOK
<1>3. said \in Answers /\ answer' = [answer EXCEPT ![c] = said]
  <2>1. CASE answer[c].agreed = "silent"
    BY <1>1, <1>2, <2>1 DEF IInv, TypeOK, Answers
  <2>2. CASE answer[c].agreed # "silent"
    BY <1>1, <1>2, <2>2 DEF IInv, TypeOK
  <2> QED
    BY <2>1, <2>2
<1>4. Fits(said, "DISPUTED", c)
  BY <1>2 DEF Unsaid, Fits
<1>5. punch' \in [Punches -> Events] /\ "DISPUTED" \in Resolved
  BY <1>1, ChangeType DEF Resolved, Applied
<1> HIDE DEF said
<1> QED
  BY <1>1, <1>3, <1>4, <1>5, DecisionIInv

\* Turning down and taking back write no consent and touch no event.
LEMMA ClosingIInv ==
  ASSUME IInv, NEW r \in Requests, req[r].pc = "decided",
         NEW to \in {"REJECTED", "WITHDRAWN"}, Settle(r, req[r].corr, to), Commit(r),
         UNCHANGED <<answer, punch>>
  PROVE  IInv'
<1> DEFINE c == req[r].corr
<1>1. /\ answer[c] \in Answers /\ answer' = [answer EXCEPT ![c] = answer[c]]
      /\ Fits(answer[c], to, c)
  BY InHandFacts DEF IInv, TypeOK, Unsaid, Fits
<1>2. punch' \in [Punches -> Events] /\ to \in Resolved
  BY DEF IInv, TypeOK, Resolved
<1> QED
  BY <1>1, <1>2, DecisionIInv

\* An objection leaves the proposal open, and whoever holds another row alone.
LEMMA DisputeCorrectionIInv ==
  ASSUME IInv, NEW r \in Requests, DisputeCorrection(r)
  PROVE  IInv'
<1> DEFINE c == req[r].corr
           said == [agreed |-> "no", account |-> "person", told |-> TRUE]
<1>1. /\ req[r].pc = "held" /\ Release(r, "done")
      /\ answer' = [answer EXCEPT ![c] = said]
      /\ UNCHANGED <<asked, status, outcome, punch, staff, today>>
  BY DEF DisputeCorrection, Commit
<1>2. c \in Corrections /\ status[c] \in Open
  BY <1>1, InHandFacts
<1>3. said \in Answers
  BY DEF Answers
<1>4. TypeOK'
  BY <1>1, <1>3, ReleaseType DEF IInv, TypeOK
<1>5. Holding'
  <2>1. \A d \in Corrections : d # c => answer'[d] = answer[d]
    BY <1>1 DEF IInv, TypeOK
  <2> QED
    BY <1>1, <1>2, <2>1, HoldingKept DEF IInv, Open
<1>6. Filed' /\ SelfDecidedIsMarked'
  BY <1>1 DEF IInv, Filed, SelfDecidedIsMarked
<1>7. Undisturbed' /\ RecordSaysOneThing'
  BY <1>1, <1>2 DEF IInv, TypeOK, Undisturbed, RecordSaysOneThing, Open
<1> QED
  BY <1>4, <1>5, <1>6, <1>7 DEF IInv

-----------------------------------------------------------------------------
LEMMA NextIInv == IInv /\ [Next]_vars => IInv'
<1> SUFFICES ASSUME IInv, [Next]_vars PROVE IInv'
  OBVIOUS
<1>1. ASSUME NEW c \in Corrections, NEW by \in People, NEW subject \in People,
             NEW kind \in Kinds, NEW target \in Punches \cup {Nothing},
             File(c, by, subject, kind, target)
      PROVE  IInv'
  BY <1>1, FileIInv
<1>2. ASSUME NEW r \in Requests, NEW op \in Ops, NEW c \in Corrections,
             NEW who \in People, Start(r, op, c, who)
      PROVE  IInv'
  BY <1>2, StartIInv
<1>3. ASSUME NEW r \in Requests, Step(r) PROVE IInv'
  <2>1. CASE Claim(r)
    BY <2>1, ClaimIInv
  <2>2. CASE LookAtTarget(r)
    BY <2>2, LookAtTargetIInv
  <2>3. CASE RefuseSelfDecision(r)
    BY <2>3, RefuseSelfDecisionIInv
  <2>4. CASE ApproveCorrection(r)
    BY <2>4, ApproveCorrectionIInv
  <2>5. CASE AcceptCorrection(r)
    BY <2>5, AcceptCorrectionIInv
  <2>6. CASE ApplyWithoutAgreement(r)
    BY <2>6, ApplyWithoutAgreementIInv
  <2>7. CASE RejectCorrection(r)
    BY <2>7, ClosingIInv DEF RejectCorrection, Decided
  <2>8. CASE WithdrawCorrection(r)
    BY <2>8, ClosingIInv DEF WithdrawCorrection, Decided
  <2>9. CASE DisputeCorrection(r)
    BY <2>9, DisputeCorrectionIInv
  <2> QED
    BY <1>3, <2>1, <2>2, <2>3, <2>4, <2>5, <2>6, <2>7, <2>8, <2>9 DEF Step
<1>4. ASSUME NEW r \in Requests, Crash(r) PROVE IInv'
  BY <1>4, CrashIInv
<1>5. ASSUME NEW p \in People, NEW role \in Staff, SetRole(p, role) PROVE IInv'
  BY <1>5, SetRoleIInv
<1>6. CASE Tick
  BY <1>6, TickIInv
<1>7. CASE UNCHANGED vars
  BY <1>7 DEF vars, IInv, TypeOK, Filed, Holding, Undisturbed, RecordSaysOneThing,
     SelfDecidedIsMarked, Entitled, ConsentWindowHasPassed, Decider
<1> QED
  BY <1>1, <1>2, <1>3, <1>4, <1>5, <1>6, <1>7 DEF Next

LEMMA Invariance == Spec => []IInv
BY InitIInv, NextIInv, PTL DEF Spec

\* Every variable keeps its type, whatever the requests do to each other.
THEOREM TypeCorrect == Spec => []TypeOK
<1>1. IInv => TypeOK
  BY DEF IInv
<1> QED
  BY <1>1, Invariance, PTL

\* However answers, deadlines, refusals and crashes interleave, no correction
\* ever says both that there was agreement and that there was not: DISPUTED
\* and the imposed mark go together, with an account and the representatives
\* told, and agreement only stands beside the change it allowed.
THEOREM ConsentIsUnambiguous == Spec => []RecordSaysOneThing
<1>1. IInv => RecordSaysOneThing
  BY DEF IInv
<1> QED
  BY <1>1, Invariance, PTL

\* Nobody's own correction is resolved by them without the mark that says so.
THEOREM SelfDecisionsAreMarked == Spec => []SelfDecidedIsMarked
<1>1. IInv => SelfDecidedIsMarked
  BY DEF IInv
<1> QED
  BY <1>1, Invariance, PTL

-----------------------------------------------------------------------------
(* What no step may do *)

\* The only corrections a request's step writes are open ones.
LEMMA StepLeavesTheRest ==
  ASSUME IInv, NEW r \in Requests, Step(r),
         NEW c \in Corrections, status[c] \notin Open
  PROVE  UNCHANGED <<asked[c], status[c], answer[c], outcome[c]>>
<1> DEFINE d == req[r].corr
<1>1. CASE Claim(r) \/ LookAtTarget(r) \/ RefuseSelfDecision(r)
  BY <1>1 DEF Claim, LookAtTarget, RefuseSelfDecision, papers
<1>2. CASE \/ ApproveCorrection(r) \/ AcceptCorrection(r) \/ ApplyWithoutAgreement(r)
           \/ RejectCorrection(r) \/ WithdrawCorrection(r) \/ DisputeCorrection(r)
  <2>1. InHand(r) /\ asked' = asked
    BY <1>2 DEF ApproveCorrection, AcceptCorrection, ApplyWithoutAgreement,
       RejectCorrection, WithdrawCorrection, DisputeCorrection, Decided, Commit
  <2>2. d # c
    BY <2>1, InHandFacts
  <2>3. status'[c] = status[c] /\ outcome'[c] = outcome[c]
    BY <1>2, <2>2 DEF IInv, TypeOK, ApproveCorrection, AcceptCorrection,
       ApplyWithoutAgreement, RejectCorrection, WithdrawCorrection, DisputeCorrection, Settle
  <2>4. answer'[c] = answer[c]
    BY <1>2, <2>2 DEF IInv, TypeOK, ApproveCorrection, AcceptCorrection,
       ApplyWithoutAgreement, RejectCorrection, WithdrawCorrection, DisputeCorrection
  <2> QED
    BY <2>1, <2>3, <2>4
<1> QED
  BY <1>1, <1>2 DEF Step

\* A resolved correction is history: no request, crash, promotion or passing
\* day changes what it says.
THEOREM ResolvedStays == Spec => ResolvedIsFinal
<1>1. ASSUME IInv, [Next]_vars, NEW c \in Corrections, status[c] \in Resolved
      PROVE  UNCHANGED <<asked[c], status[c], answer[c], outcome[c]>>
  <2>1. status[c] \notin Open /\ status[c] # "UNFILED"
    BY <1>1 DEF Resolved, Applied, Open
  <2>2. ASSUME NEW d \in Corrections, NEW by \in People, NEW subject \in People,
               NEW kind \in Kinds, NEW target \in Punches \cup {Nothing},
               File(d, by, subject, kind, target)
        PROVE  UNCHANGED <<asked[c], status[c], answer[c], outcome[c]>>
    BY <1>1, <2>1, <2>2 DEF File, IInv, TypeOK
  <2>3. ASSUME NEW r \in Requests, Step(r)
        PROVE  UNCHANGED <<asked[c], status[c], answer[c], outcome[c]>>
    BY <1>1, <2>1, <2>3, StepLeavesTheRest
  <2>4. ASSUME UNCHANGED papers
        PROVE  UNCHANGED <<asked[c], status[c], answer[c], outcome[c]>>
    BY <2>4 DEF papers
  <2>5. CASE UNCHANGED vars
    BY <2>5 DEF vars
  <2> QED
    BY <1>1, <2>2, <2>3, <2>4, <2>5 DEF Next, Start, Crash, SetRole, Tick
<1>2. IInv /\ [Next]_vars =>
         [\A c \in Corrections : status[c] \in Resolved =>
             UNCHANGED <<asked[c], status[c], answer[c], outcome[c]>>]_vars
  BY <1>1
<1> QED
  BY <1>2, Invariance, PTL DEF Spec, ResolvedIsFinal

\* Whatever the roles and departments become, an open correction has somebody
\* the four-eyes rule lets through, as long as there is an administrator.
THEOREM NoDeadEnd == Spec => []SomebodyCanAlwaysDecide
<1>1. IInv => SomebodyCanAlwaysDecide
  <2> SUFFICES ASSUME IInv, NEW a \in People, staff[a] = "ADMIN",
                      NEW c \in Corrections, status[c] \in Open
               PROVE  \E who \in People :
                         /\ CanManage(who)
                         /\ CanSee(who, asked[c].subject)
                         /\ ~MustLeaveIt(who, asked[c].subject)
    BY DEF SomebodyCanAlwaysDecide
  <2> DEFINE subject == asked[c].subject
  <2>1. CASE a # subject \/ ~SomeoneElseCouldDecide(a, subject)
    BY <2>1 DEF CanManage, CanSee, MustLeaveIt
  <2>2. CASE a = subject /\ SomeoneElseCouldDecide(a, subject)
    <3>1. PICK other \in People \ {a} :
             \/ staff[other] = "ADMIN"
             \/ staff[other] = "MANAGER" /\ CanSee(other, subject)
      BY <2>2 DEF SomeoneElseCouldDecide
    <3>2. CanManage(other) /\ CanSee(other, subject) /\ ~MustLeaveIt(other, subject)
      BY <2>2, <3>1 DEF CanManage, CanSee, MustLeaveIt
    <3> QED
      BY <3>2
  <2> QED
    BY <2>1, <2>2
<1> QED
  BY <1>1, Invariance, PTL

-----------------------------------------------------------------------------
(* The procedure implements RecordChange *)

Phase   == [c \in Corrections |-> PhaseOf(c)]
Voice   == [c \in Corrections |-> VoiceOf(c)]
Overdue == {c \in Corrections : status[c] # "UNFILED" /\ ConsentWindowHasPassed(c)}

\* A step that writes no correction and moves no clock is a stutter above.
LEMMA QuietStep ==
  ASSUME UNCHANGED <<asked, status, answer, today>>
  PROVE  UNCHANGED <<Phase, Voice, Overdue>>
BY DEF Phase, Voice, Overdue, PhaseOf, VoiceOf, ConsentWindowHasPassed

\* A decision moves one correction: its phase to the one its new status means.
LEMMA DecisionAbove ==
  ASSUME IInv, NEW r \in Requests, InHand(r), NEW c, c = req[r].corr,
         NEW to \in Statuses \ {"UNFILED"}, status' = [status EXCEPT ![c] = to],
         NEW said \in Answers, answer' = [answer EXCEPT ![c] = said],
         UNCHANGED <<asked, today>>
  PROVE  /\ Phase' = [Phase EXCEPT ![c] = PhaseOf(c)']
         /\ Voice' = [Voice EXCEPT ![c] = VoiceOf(c)']
         /\ UNCHANGED Overdue
<1>1. c \in Corrections /\ status[c] # "UNFILED"
  BY InHandFacts DEF Open
<1>2. status'[c] = to /\ answer'[c] = said
  BY <1>1 DEF IInv, TypeOK
<1>3. \A d \in Corrections : d # c =>
         /\ status'[d] = status[d] /\ answer'[d] = answer[d]
         /\ PhaseOf(d)' = PhaseOf(d) /\ VoiceOf(d)' = VoiceOf(d)
  BY DEF IInv, TypeOK, PhaseOf, VoiceOf
<1>4. Phase' = [Phase EXCEPT ![c] = PhaseOf(c)']
  BY <1>1, <1>3 DEF Phase
<1>5. Voice' = [Voice EXCEPT ![c] = VoiceOf(c)']
  BY <1>1, <1>3 DEF Voice
<1>6. UNCHANGED Overdue
  BY <1>1, <1>2, <1>3 DEF Overdue, ConsentWindowHasPassed
<1> QED
  BY <1>4, <1>5, <1>6

LEMMA FileAbove ==
  ASSUME IInv, NEW c \in Corrections, NEW by \in People, NEW subject \in People,
         NEW kind \in Kinds, NEW target \in Punches \cup {Nothing},
         File(c, by, subject, kind, target)
  PROVE  Change4b!Next
<1>1. /\ status[c] = "UNFILED" /\ status' = [status EXCEPT ![c] = FirstStatus(by, subject)]
      /\ UNCHANGED <<answer, today>>
      /\ \A d \in Corrections : d # c => asked'[d] = asked[d] /\ status'[d] = status[d]
  BY DEF File, IInv, TypeOK
<1>2. status'[c] = FirstStatus(by, subject)
  BY <1>1 DEF IInv, TypeOK
<1>3. PhaseOf(c) = "none"
  BY <1>1 DEF PhaseOf
<1>8. PICK to \in {"asked", "proposed"} : PhaseOf(c)' = to
  BY <1>2 DEF PhaseOf, FirstStatus
<1>4. Phase' = [Phase EXCEPT ![c] = to]
  <2>1. \A d \in Corrections : d # c => PhaseOf(d)' = PhaseOf(d)
    BY <1>1 DEF PhaseOf
  <2> QED
    BY <1>8, <2>1 DEF Phase
<1>5. UNCHANGED Voice
  BY <1>1 DEF Voice, VoiceOf
<1>6. Overdue' \in {Overdue, Overdue \cup {c}}
  <2>1. c \notin Overdue
    BY <1>1 DEF Overdue
  <2>2. \A d \in Corrections : d # c => (d \in Overdue' <=> d \in Overdue)
    BY <1>1 DEF Overdue, ConsentWindowHasPassed
  <2>3. Overdue \subseteq Corrections /\ Overdue' \subseteq Corrections
    BY DEF Overdue
  <2>4. CASE c \in Overdue'
    <3>1. Overdue' = Overdue \cup {c}
      BY <2>2, <2>3, <2>4
    <3> QED
      BY <3>1
  <2>5. CASE c \notin Overdue'
    <3>1. Overdue' = Overdue
      BY <2>1, <2>2, <2>3, <2>5
    <3> QED
      BY <3>1
  <2> QED
    BY <2>4, <2>5
<1>7. Change4b!Raise(c, to)
  BY <1>3, <1>4, <1>5, <1>6 DEF Change4b!Raise, Phase, Voice, Overdue
<1> QED
  BY <1>7 DEF Change4b!Next

LEMMA StepAbove ==
  ASSUME IInv, NEW r \in Requests, Step(r)
  PROVE  Change4b!Next \/ UNCHANGED <<Phase, Voice, Overdue>>
<1>0. PICK c : c = req[r].corr
  OBVIOUS
<1>1. CASE Claim(r) \/ LookAtTarget(r) \/ RefuseSelfDecision(r)
  <2>1. UNCHANGED <<asked, status, answer, today>>
    BY <1>1 DEF Claim, LookAtTarget, RefuseSelfDecision, papers
  <2> QED
    BY <2>1, QuietStep
<1>2. CASE ApproveCorrection(r)
  <2>1. /\ InHand(r) /\ req[r].op = "approve" /\ UNCHANGED <<answer, asked, today>>
        /\ status' = [status EXCEPT ![c] = "APPROVED"]
    BY <1>0, <1>2 DEF ApproveCorrection, Decided, Settle, Commit
  <2>2. c \in Corrections /\ answer[c] \in Answers /\ answer' = [answer EXCEPT ![c] = answer[c]]
    BY <2>1, <1>0, InHandFacts DEF IInv, TypeOK
  <2>3. status[c] = "PENDING"
    BY <2>1, <1>0, InHandFacts DEF StartsFrom
  <2>4. /\ Phase' = [Phase EXCEPT ![c] = PhaseOf(c)'] /\ UNCHANGED Overdue
    BY <2>1, <2>2, <1>0, DecisionAbove DEF Statuses, Resolved, Applied
  <2>5. UNCHANGED Voice
    BY <2>1 DEF Voice, VoiceOf
  <2>6. PhaseOf(c) = "asked" /\ PhaseOf(c)' = "applied"
    <3>1. status'[c] = "APPROVED"
      BY <2>1, <2>2 DEF IInv, TypeOK
    <3> QED
      BY <2>3, <3>1 DEF PhaseOf
  <2>7. Change4b!Decide(c, "applied")
    BY <2>2, <2>4, <2>5, <2>6 DEF Change4b!Decide, Phase, Voice, Overdue
  <2> QED
    BY <2>2, <2>7 DEF Change4b!Next
<1>3. CASE AcceptCorrection(r)
  <2> DEFINE said == [answer[c] EXCEPT !.agreed = "yes"]
  <2>1. /\ InHand(r) /\ req[r].op = "accept" /\ UNCHANGED <<asked, today>>
        /\ status' = [status EXCEPT ![c] = "APPROVED"]
        /\ answer' = [answer EXCEPT ![c].agreed = "yes"]
    BY <1>0, <1>3 DEF AcceptCorrection, Decided, Settle, Commit
  <2>2. /\ c \in Corrections /\ said \in Answers /\ said.agreed = "yes"
        /\ answer' = [answer EXCEPT ![c] = said]
    BY <2>1, <1>0, InHandFacts DEF IInv, TypeOK, Answers
  <2>3. status[c] = "AWAITING_EMPLOYEE"
    BY <2>1, <1>0, InHandFacts DEF StartsFrom
  <2> HIDE DEF said
  <2>4. /\ Phase' = [Phase EXCEPT ![c] = PhaseOf(c)'] /\ UNCHANGED Overdue
        /\ Voice' = [Voice EXCEPT ![c] = VoiceOf(c)']
    BY <2>1, <2>2, <1>0, DecisionAbove DEF Statuses, Resolved, Applied
  <2>5. PhaseOf(c) = "proposed" /\ PhaseOf(c)' = "applied" /\ VoiceOf(c)' = "agreed"
    <3>1. status'[c] = "APPROVED" /\ answer'[c] = said
      BY <2>1, <2>2 DEF IInv, TypeOK
    <3> QED
      BY <2>2, <2>3, <3>1 DEF PhaseOf, VoiceOf
  <2>6. Change4b!Agree(c)
    BY <2>2, <2>4, <2>5 DEF Change4b!Agree, Phase, Voice, Overdue
  <2> QED
    BY <2>2, <2>6 DEF Change4b!Next
<1>4. CASE ApplyWithoutAgreement(r)
  <2> DEFINE silence == [answer[c] EXCEPT !.account = "silence", !.told = TRUE]
             said == IF answer[c].agreed = "silent" THEN silence ELSE answer[c]
  <2>1. /\ InHand(r) /\ req[r].op = "apply" /\ UNCHANGED <<asked, today>>
        /\ status' = [status EXCEPT ![c] = "DISPUTED"]
        /\ answer' = IF answer[c].agreed = "silent"
                     THEN [answer EXCEPT ![c].account = "silence", ![c].told = TRUE]
                     ELSE answer
    BY <1>0, <1>4 DEF ApplyWithoutAgreement, Decided, Settle, Commit
  <2>2. /\ c \in Corrections /\ answer[c] \in Answers
        /\ status[c] = "AWAITING_EMPLOYEE" /\ answer[c].agreed # "yes"
    BY <2>1, <1>0, InHandFacts DEF IInv, TypeOK, StartsFrom, Unsaid
  <2>3. /\ said \in Answers /\ said.agreed = answer[c].agreed
        /\ answer' = [answer EXCEPT ![c] = said]
    <3>1. CASE answer[c].agreed = "silent"
      BY <2>1, <2>2, <3>1 DEF IInv, TypeOK, Answers
    <3>2. CASE answer[c].agreed # "silent"
      BY <2>1, <2>2, <3>2 DEF IInv, TypeOK
    <3> QED
      BY <3>1, <3>2
  <2> HIDE DEF said
  <2>4. /\ Phase' = [Phase EXCEPT ![c] = PhaseOf(c)'] /\ UNCHANGED Overdue
        /\ Voice' = [Voice EXCEPT ![c] = VoiceOf(c)']
    BY <2>1, <2>3, <1>0, DecisionAbove DEF Statuses, Resolved, Applied
  <2>5. PhaseOf(c) = "proposed" /\ PhaseOf(c)' = "imposed" /\ VoiceOf(c)' = VoiceOf(c)
    <3>1. status'[c] = "DISPUTED" /\ answer'[c] = said
      BY <2>1, <2>2, <2>3 DEF IInv, TypeOK
    <3> QED
      BY <2>2, <2>3, <3>1 DEF PhaseOf, VoiceOf
  <2>6. UNCHANGED Voice
    BY <2>4, <2>5 DEF Voice
  <2>7. VoiceOf(c) = "objected" \/ c \in Overdue
    <3>1. answer[c].agreed = "silent" => ConsentWindowHasPassed(c)
      BY <1>0, <2>1 DEF IInv, Holding, Entitled
    <3>2. answer[c].agreed \in {"silent", "yes", "no"}
      BY <2>2 DEF Answers
    <3> QED
      BY <2>2, <3>1, <3>2 DEF VoiceOf, Overdue
  <2>8. Change4b!Impose(c)
    BY <2>2, <2>4, <2>5, <2>6, <2>7 DEF Change4b!Impose, Phase, Voice, Overdue
  <2> QED
    BY <2>2, <2>8 DEF Change4b!Next
<1>5. ASSUME NEW to \in {"REJECTED", "WITHDRAWN"}, Settle(r, c, to), Commit(r),
             InHand(r), UNCHANGED answer,
             status[c] = IF to = "REJECTED" THEN "PENDING" ELSE "AWAITING_EMPLOYEE"
      PROVE  Change4b!Next
  <2>1. status' = [status EXCEPT ![c] = to] /\ UNCHANGED <<answer, asked, today>>
    BY <1>5 DEF Settle, Commit
  <2>2. c \in Corrections /\ answer[c] \in Answers /\ answer' = [answer EXCEPT ![c] = answer[c]]
    BY <1>5, <2>1, <1>0, InHandFacts DEF IInv, TypeOK
  <2>3. /\ Phase' = [Phase EXCEPT ![c] = PhaseOf(c)'] /\ UNCHANGED Overdue
    BY <1>5, <2>1, <2>2, <1>0, DecisionAbove DEF Statuses, Resolved
  <2>4. UNCHANGED Voice
    BY <2>1 DEF Voice, VoiceOf
  <2>5. /\ PhaseOf(c)' = "closed"
        /\ PhaseOf(c) = IF to = "REJECTED" THEN "asked" ELSE "proposed"
    <3>1. status'[c] = to
      BY <2>1, <2>2 DEF IInv, TypeOK
    <3> QED
      BY <1>5, <3>1 DEF PhaseOf
  <2>6. CASE to = "REJECTED"
    <3>1. Change4b!Decide(c, "closed")
      BY <2>2, <2>3, <2>4, <2>5, <2>6 DEF Change4b!Decide, Phase, Voice, Overdue
    <3> QED
      BY <2>2, <3>1 DEF Change4b!Next
  <2>7. CASE to = "WITHDRAWN"
    <3>1. Change4b!TakeBack(c)
      BY <2>2, <2>3, <2>4, <2>5, <2>7 DEF Change4b!TakeBack, Phase, Voice, Overdue
    <3> QED
      BY <2>2, <3>1 DEF Change4b!Next
  <2> QED
    BY <2>6, <2>7
<1>6. CASE RejectCorrection(r)
  BY <1>5, <1>6, <1>0, InHandFacts DEF RejectCorrection, Decided, StartsFrom
<1>7. CASE WithdrawCorrection(r)
  BY <1>5, <1>7, <1>0, InHandFacts DEF WithdrawCorrection, Decided, StartsFrom
<1>8. CASE DisputeCorrection(r)
  <2> DEFINE said == [agreed |-> "no", account |-> "person", told |-> TRUE]
  <2>1. /\ InHand(r) /\ req[r].op = "dispute" /\ UNCHANGED <<asked, status, today>>
        /\ answer' = [answer EXCEPT ![c] = said]
    BY <1>0, <1>8 DEF DisputeCorrection, Commit
  <2>2. /\ c \in Corrections /\ status[c] = "AWAITING_EMPLOYEE"
        /\ status' = [status EXCEPT ![c] = status[c]] /\ said \in Answers
    BY <2>1, <1>0, InHandFacts DEF IInv, TypeOK, StartsFrom, Answers
  <2>3. /\ Voice' = [Voice EXCEPT ![c] = VoiceOf(c)'] /\ UNCHANGED Overdue
    BY <2>1, <2>2, <1>0, DecisionAbove DEF Statuses, Open
  <2>4. UNCHANGED Phase
    BY <2>1 DEF Phase, PhaseOf
  <2>5. PhaseOf(c) = "proposed" /\ VoiceOf(c)' = "objected"
    <3>1. answer'[c] = said
      BY <2>1, <2>2 DEF IInv, TypeOK
    <3> QED
      BY <2>2, <3>1 DEF PhaseOf, VoiceOf
  <2>6. Change4b!Object(c)
    BY <2>2, <2>3, <2>4, <2>5 DEF Change4b!Object, Phase, Voice, Overdue
  <2> QED
    BY <2>2, <2>6 DEF Change4b!Next
<1> QED
  BY <1>1, <1>2, <1>3, <1>4, <1>6, <1>7, <1>8 DEF Step

\* Every behaviour of the requests is a behaviour art. 4.b allows: nothing is
\* applied without agreement unless the person objected or had their time, and
\* nothing settled moves.
THEOREM ProcedureImplementsLaw == Spec => ImplementsRecordChange
<1>1. Init => Change4b!Init
  BY DEF Init, Change4b!Init, PhaseOf, VoiceOf, Unsaid
<1>2. IInv /\ [Next]_vars => [Change4b!Next]_(Change4b!vars)
  <2> SUFFICES ASSUME IInv, [Next]_vars
               PROVE  Change4b!Next \/ UNCHANGED <<Phase, Voice, Overdue>>
    BY DEF Change4b!vars, Phase, Voice, Overdue
  <2>1. CASE Tick
    <3>1. UNCHANGED <<asked, status, answer>> /\ today' = today + 1
      BY <2>1 DEF Tick, papers
    <3>2. UNCHANGED <<Phase, Voice>>
      BY <3>1 DEF Phase, Voice, PhaseOf, VoiceOf
    <3>3. Overdue \subseteq Overdue' /\ Overdue' \subseteq Corrections
      <4>1. \A c \in Corrections : status[c] # "UNFILED" => asked[c].on \in Nat
        BY DEF IInv, Filed, Claims
      <4> QED
        BY <3>1, <4>1, WindowAssumption DEF IInv, TypeOK, Overdue, ConsentWindowHasPassed
    <3>4. Change4b!TimePasses
      BY <3>2, <3>3 DEF Change4b!TimePasses, Phase, Voice, Overdue
    <3> QED
      BY <3>4 DEF Change4b!Next
  <2>2. ASSUME NEW c \in Corrections, NEW by \in People, NEW subject \in People,
               NEW kind \in Kinds, NEW target \in Punches \cup {Nothing},
               File(c, by, subject, kind, target)
        PROVE  Change4b!Next
    BY <2>2, FileAbove
  <2>3. ASSUME NEW r \in Requests, Step(r)
        PROVE  Change4b!Next \/ UNCHANGED <<Phase, Voice, Overdue>>
    BY <2>3, StepAbove
  <2>4. ASSUME UNCHANGED <<papers, today>> PROVE UNCHANGED <<Phase, Voice, Overdue>>
    BY <2>4, QuietStep DEF papers
  <2>5. CASE UNCHANGED vars
    BY <2>5, QuietStep DEF vars
  <2> QED
    BY <2>1, <2>2, <2>3, <2>4, <2>5 DEF Next, Start, Crash, SetRole
<1> QED
  BY <1>1, <1>2, Invariance, PTL DEF Spec, ImplementsRecordChange, Change4b!Spec

-----------------------------------------------------------------------------
(* The record and its papers *)

\* What lets a step count on the papers: a request writes its event only when
\* it commits, a correction names an event that exists and one that retires an
\* event names it, and a result is the event of a request that applied it.
Backed ==
    /\ \A r \in Requests : req[r].pc # "done" => punch[r].state = "none"
    /\ \A c \in Corrections : status[c] # "UNFILED" /\ asked[c].target # Nothing =>
          punch[asked[c].target].state # "none"
    /\ \A c \in Corrections : status[c] # "UNFILED" /\ asked[c].kind \in Retiring =>
          asked[c].target # Nothing
    /\ \A c \in Corrections : outcome[c].result # Nothing =>
          outcome[c].result \in Requests /\ status[c] \in Applied

PaperInv == IInv /\ Backed /\ EveryChangeHasItsPaper

LEMMA InitPapers == Init => Backed /\ EveryChangeHasItsPaper
<1> SUFFICES ASSUME Init PROVE Backed /\ EveryChangeHasItsPaper
  OBVIOUS
<1>1. \A r \in Requests : punch[r].state = "none"
  BY PeopleAssumption DEF Init, Punches
<1>2. \A p \in Punches : punch[p].state # "void"
  BY DEF Init, Punches
<1>3. \A c \in Corrections : status[c] = "UNFILED" /\ outcome[c].result = Nothing
  BY DEF Init, Undecided
<1> QED
  BY <1>1, <1>2, <1>3 DEF Backed, EveryChangeHasItsPaper, Applied

\* Whatever a request does short of committing leaves record and papers alone.
LEMMA QuietPapers ==
  ASSUME PaperInv, UNCHANGED <<asked, status, outcome, punch>>,
         \A q \in Requests : req'[q].pc # "done" => req[q].pc # "done" \/ punch[q].state = "none"
  PROVE  Backed' /\ EveryChangeHasItsPaper'
BY DEF PaperInv, Backed, EveryChangeHasItsPaper

LEMMA FilePapers ==
  ASSUME PaperInv, NEW c \in Corrections, NEW by \in People, NEW subject \in People,
         NEW kind \in Kinds, NEW target \in Punches \cup {Nothing},
         File(c, by, subject, kind, target)
  PROVE  Backed' /\ EveryChangeHasItsPaper'
<1> DEFINE claim == [kind |-> kind, target |-> target, subject |-> subject,
                     by |-> by, on |-> today]
<1>1. /\ asked' = [asked EXCEPT ![c] = claim]
      /\ status' = [status EXCEPT ![c] = FirstStatus(by, subject)]
      /\ status[c] = "UNFILED"
      /\ UNCHANGED <<outcome, punch, req>>
      /\ target # Nothing => punch[target].state # "none"
      /\ kind \in Retiring => target # Nothing
  BY DEF File
<1>2. claim.target = target /\ claim.kind = kind
  OBVIOUS
<1> HIDE DEF claim
<1>3. /\ asked'[c] = claim /\ status'[c] \notin Applied /\ status[c] \notin Applied
      /\ \A d \in Corrections : d # c => asked'[d] = asked[d] /\ status'[d] = status[d]
  BY <1>1 DEF PaperInv, IInv, TypeOK, FirstStatus, Applied
<1>4. outcome[c].result = Nothing
  BY <1>3 DEF PaperInv, Backed
<1>5. Backed'
  BY <1>1, <1>2, <1>3, <1>4 DEF PaperInv, Backed
<1>6. \A d \in Corrections : status[d] \in Applied <=> status'[d] \in Applied
  BY <1>3
<1>7. \A d \in Corrections : status[d] \in Applied => d # c
  BY <1>3
<1>8. EveryChangeHasItsPaper'
  BY <1>1, <1>3, <1>6, <1>7 DEF PaperInv, EveryChangeHasItsPaper
<1> QED
  BY <1>5, <1>8

\* Applying a correction: its event is new, and only the event it asks to change
\* or to void is retired.
LEMMA ApplyPapers ==
  ASSUME PaperInv, NEW r \in Requests, req[r].pc = "decided",
         NEW to \in Applied, Settle(r, req[r].corr, to), Change(r, req[r].corr), Commit(r)
  PROVE  Backed' /\ EveryChangeHasItsPaper'
<1> DEFINE c == req[r].corr
           new == [state |-> "active", next |-> Nothing, owner |-> asked[c].subject]
<1>1. /\ c \in Corrections /\ asked[c] \in Claims /\ status[c] \in Open
      /\ outcome[c] = Undecided /\ asked' = asked
  BY InHandFacts DEF PaperInv, Commit
<1>2. /\ status[c] \notin Applied /\ status[c] # "UNFILED" /\ outcome[c].result = Nothing
  BY <1>1 DEF Open, Applied, Undecided
<1>3. /\ status'[c] = to /\ outcome'[c].result = Result(r, c)
      /\ \A d \in Corrections : d # c => status'[d] = status[d] /\ outcome'[d] = outcome[d]
  BY <1>1 DEF Settle, PaperInv, IInv, TypeOK
<1>4. /\ punch[r].state = "none" /\ r \in Punches /\ r # Nothing
      /\ asked[c].target # Nothing => asked[c].target \in Punches /\ punch[asked[c].target].state # "none"
  BY <1>1, <1>2, PeopleAssumption DEF PaperInv, Backed, Punches, Claims
<1>5. /\ asked[c].kind # "VOID" => punch'[r] = new
      /\ asked[c].kind = "VOID" => punch'[r] = punch[r]
  BY <1>4 DEF Change
<1>6. asked[c].kind \in Retiring =>
         /\ asked[c].target # Nothing
         /\ asked[c].target # r
         /\ punch'[asked[c].target].state = "void"
         /\ punch'[asked[c].target].owner = punch[asked[c].target].owner
  <2>1. asked[c].kind \in Retiring => asked[c].target # Nothing
    BY <1>1, <1>2 DEF PaperInv, Backed
  <2>2. \A p \in Punches : asked[c].kind \in Retiring /\ p = asked[c].target /\ p # r =>
           punch'[p] = [punch[p] EXCEPT !.state = "void",
                            !.next = IF asked[c].kind = "MODIFY" THEN r ELSE Nothing]
    BY DEF Change
  <2>3. \A p \in Punches : punch[p] \in Events
    BY DEF PaperInv, IInv, TypeOK
  <2> QED
    BY <1>4, <2>1, <2>2, <2>3 DEF Events
<1>7. \A p \in Punches : p # r /\ ~(p = asked[c].target /\ asked[c].kind \in Retiring) =>
         punch'[p] = punch[p]
  BY DEF Change
<1>8. new.state = "active" /\ new.owner = asked[c].subject
  OBVIOUS
<1> HIDE DEF new
<1>9. \A p \in Punches : p # r =>
         /\ punch[p].state # "none" <=> punch'[p].state # "none"
         /\ punch'[p].owner = punch[p].owner
         /\ punch[p].state = "void" => punch'[p].state = "void"
  BY <1>4, <1>6, <1>7, PeopleAssumption
<1>10. \A d \in Corrections : outcome[d].result # r
  BY <1>4 DEF PaperInv, Backed, EveryChangeHasItsPaper
<1>11. \A q \in Requests : req'[q].pc # "done" => q # r /\ req[q].pc # "done"
  <2>1. req' = [req EXCEPT ![r] = Ended("done")] /\ Ended("done").pc = "done"
    BY DEF Commit, Release, Ended, NotSent
  <2> QED
    BY <2>1 DEF PaperInv, IInv, TypeOK
<1>12. \A q \in Requests : q \in Punches
  BY DEF Punches
<1>13. Backed'
  <2>1. \A q \in Requests : req'[q].pc # "done" => punch'[q].state = "none"
    BY <1>9, <1>11, <1>12 DEF PaperInv, Backed
  <2>2. ASSUME NEW d \in Corrections, status'[d] # "UNFILED", asked[d].target # Nothing
        PROVE  punch'[asked[d].target].state # "none"
    <3>1. status[d] # "UNFILED"
      BY <2>2, <1>2, <1>3
    <3>2. asked[d].target \in Punches /\ punch[asked[d].target].state # "none"
      BY <2>2, <3>1 DEF PaperInv, IInv, Filed, Claims, Backed
    <3> QED
      BY <3>2, <1>4, <1>9
  <2>3. \A d \in Corrections : status'[d] # "UNFILED" /\ asked[d].kind \in Retiring =>
           asked[d].target # Nothing
    BY <1>2, <1>3 DEF PaperInv, Backed
  <2>4. \A d \in Corrections : outcome'[d].result # Nothing =>
           outcome'[d].result \in Requests /\ status'[d] \in Applied
    BY <1>3 DEF PaperInv, Backed, Result
  <2> QED
    BY <1>1, <2>1, <2>2, <2>3, <2>4 DEF Backed
<1>14. ASSUME NEW q \in Requests, punch'[q].state # "none"
       PROVE  \E d \in Corrections :
                 /\ status'[d] \in Applied
                 /\ outcome'[d].result = q
                 /\ asked[d].subject = punch'[q].owner
                 /\ \A e \in Corrections \ {d} : outcome'[e].result # q
  <2>1. CASE q = r
    <3>1. asked[c].kind # "VOID" /\ punch'[r] = new
      BY <2>1, <1>14, <1>4, <1>5
    <3>2. outcome'[c].result = r
      BY <3>1, <1>3 DEF Result
    <3> QED
      BY <2>1, <3>1, <3>2, <1>1, <1>3, <1>8, <1>10
  <2>2. CASE q # r
    <3>1. punch[q].state # "none" /\ punch'[q].owner = punch[q].owner
      BY <2>2, <1>14, <1>9, <1>12
    <3>2. PICK d \in Corrections :
                 /\ status[d] \in Applied
                 /\ outcome[d].result = q
                 /\ asked[d].subject = punch[q].owner
                 /\ \A e \in Corrections \ {d} : outcome[e].result # q
      BY <3>1 DEF PaperInv, EveryChangeHasItsPaper
    <3>3. d # c /\ outcome'[c].result # q
      BY <3>2, <1>2, <1>3, <2>2, PeopleAssumption DEF Result, Punches
    <3> QED
      BY <3>1, <3>2, <3>3, <1>3
  <2> QED
    BY <2>1, <2>2
<1>15. ASSUME NEW p \in Punches, punch'[p].state = "void"
       PROVE  \E d \in Corrections :
                 status'[d] \in Applied /\ asked[d].kind \in Retiring /\ asked[d].target = p
  <2>1. CASE p = asked[c].target /\ asked[c].kind \in Retiring
    BY <2>1, <1>1, <1>3
  <2>2. CASE ~(p = asked[c].target /\ asked[c].kind \in Retiring)
    <3>1. punch[p].state = "void"
      BY <2>2, <1>15, <1>4, <1>5, <1>7, <1>8
    <3>2. PICK d \in Corrections :
             status[d] \in Applied /\ asked[d].kind \in Retiring /\ asked[d].target = p
      BY <3>1 DEF PaperInv, EveryChangeHasItsPaper
    <3> QED
      BY <3>2, <1>2, <1>3
  <2> QED
    BY <2>1, <2>2
<1>16. ASSUME NEW d \in Corrections, status'[d] \in Applied
       PROVE  /\ asked[d].kind # "VOID" <=> outcome'[d].result # Nothing
              /\ outcome'[d].result # Nothing => punch'[outcome'[d].result].state # "none"
              /\ asked[d].kind \in Retiring => punch'[asked[d].target].state = "void"
  <2>1. CASE d = c
    BY <2>1, <1>3, <1>4, <1>5, <1>6, <1>8 DEF Result
  <2>2. CASE d # c
    <3>1. status[d] \in Applied /\ outcome'[d] = outcome[d]
      BY <2>2, <1>16, <1>3
    <3>2. outcome[d].result # Nothing =>
             /\ outcome[d].result \in Punches /\ outcome[d].result # r
             /\ punch[outcome[d].result].state # "none"
      BY <3>1, <1>10, <1>12 DEF PaperInv, Backed, EveryChangeHasItsPaper
    <3>3. asked[d].kind \in Retiring =>
             asked[d].target \in Punches /\ punch[asked[d].target].state = "void"
      BY <3>1 DEF PaperInv, IInv, Filed, Claims, Backed, EveryChangeHasItsPaper, Applied
    <3> QED
      BY <3>1, <3>2, <3>3, <1>4, <1>9 DEF PaperInv, EveryChangeHasItsPaper
  <2> QED
    BY <2>1, <2>2
<1>17. EveryChangeHasItsPaper'
  BY <1>1, <1>14, <1>15, <1>16 DEF EveryChangeHasItsPaper
<1> QED
  BY <1>13, <1>17

\* Turning down and taking back leave a correction nothing came of.
LEMMA ClosePapers ==
  ASSUME PaperInv, NEW r \in Requests, req[r].pc = "decided",
         NEW to \in {"REJECTED", "WITHDRAWN"}, Settle(r, req[r].corr, to), Commit(r),
         UNCHANGED punch
  PROVE  Backed' /\ EveryChangeHasItsPaper'
<1> DEFINE c == req[r].corr
<1>1. /\ c \in Corrections /\ status[c] \in Open
      /\ outcome[c] = Undecided /\ asked' = asked
  BY InHandFacts DEF PaperInv, Commit
<1>2. status[c] \notin Applied /\ status[c] # "UNFILED" /\ to \notin Applied
  BY <1>1 DEF Open, Applied
<1>3. /\ status'[c] = to /\ outcome'[c].result = Nothing
      /\ \A d \in Corrections : d # c => status'[d] = status[d] /\ outcome'[d] = outcome[d]
  BY <1>1, <1>2 DEF Settle, PaperInv, IInv, TypeOK, Undecided
<1>4. \A d \in Corrections : /\ outcome'[d].result = outcome[d].result
                             /\ status'[d] \in Applied <=> status[d] \in Applied
                             /\ status'[d] # "UNFILED" => status[d] # "UNFILED"
  BY <1>1, <1>2, <1>3 DEF Undecided
<1>5. \A q \in Requests : req'[q].pc # "done" => req[q].pc # "done"
  <2>1. req' = [req EXCEPT ![r] = Ended("done")] /\ Ended("done").pc = "done"
    BY DEF Commit, Release, Ended, NotSent
  <2> QED
    BY <2>1 DEF PaperInv, IInv, TypeOK
<1> QED
  BY <1>1, <1>4, <1>5 DEF PaperInv, Backed, EveryChangeHasItsPaper

LEMMA StepPapers ==
  ASSUME PaperInv, NEW r \in Requests, Step(r)
  PROVE  Backed' /\ EveryChangeHasItsPaper'
<1>1. req \in [Requests -> Calls] /\ \A how \in {"done", "refused"} : Ended(how).pc = how
  BY DEF PaperInv, IInv, TypeOK, Ended, NotSent
<1>2. CASE Claim(r) \/ LookAtTarget(r) \/ RefuseSelfDecision(r)
  <2>1. UNCHANGED papers /\ req[r].pc # "done"
    BY <1>2 DEF Claim, LookAtTarget, RefuseSelfDecision, AtFourEyes
  <2>2. \A q \in Requests : q # r => req'[q] = req[q]
    BY <1>1, <1>2 DEF Claim, LookAtTarget, RefuseSelfDecision, Release
  <2> QED
    BY <2>1, <2>2, QuietPapers DEF papers
<1>3. CASE ApproveCorrection(r)
  BY <1>3, ApplyPapers DEF ApproveCorrection, Decided, Applied
<1>4. CASE AcceptCorrection(r)
  BY <1>4, ApplyPapers DEF AcceptCorrection, Decided, Applied
<1>5. CASE ApplyWithoutAgreement(r)
  BY <1>5, ApplyPapers DEF ApplyWithoutAgreement, Decided, Applied
<1>6. CASE RejectCorrection(r)
  BY <1>6, ClosePapers DEF RejectCorrection, Decided
<1>7. CASE WithdrawCorrection(r)
  BY <1>7, ClosePapers DEF WithdrawCorrection, Decided
<1>8. CASE DisputeCorrection(r)
  <2>1. UNCHANGED <<asked, status, outcome, punch>> /\ req' = [req EXCEPT ![r] = Ended("done")]
    BY <1>8 DEF DisputeCorrection, Commit, Release
  <2> QED
    BY <1>1, <2>1, QuietPapers
<1> QED
  BY <1>2, <1>3, <1>4, <1>5, <1>6, <1>7, <1>8 DEF Step

LEMMA NextPapers == PaperInv /\ [Next]_vars => PaperInv'
<1> SUFFICES ASSUME PaperInv, [Next]_vars PROVE Backed' /\ EveryChangeHasItsPaper'
  BY NextIInv DEF PaperInv
<1>1. ASSUME NEW c \in Corrections, NEW by \in People, NEW subject \in People,
             NEW kind \in Kinds, NEW target \in Punches \cup {Nothing},
             File(c, by, subject, kind, target)
      PROVE  Backed' /\ EveryChangeHasItsPaper'
  BY <1>1, FilePapers
<1>2. ASSUME NEW r \in Requests, NEW op \in Ops, NEW c \in Corrections,
             NEW who \in People, Start(r, op, c, who)
      PROVE  Backed' /\ EveryChangeHasItsPaper'
  BY <1>2, QuietPapers DEF Start, papers, PaperInv, IInv, TypeOK
<1>3. ASSUME NEW r \in Requests, Step(r) PROVE Backed' /\ EveryChangeHasItsPaper'
  BY <1>3, StepPapers
<1>4. ASSUME NEW r \in Requests, Crash(r) PROVE Backed' /\ EveryChangeHasItsPaper'
  BY <1>4, QuietPapers DEF Crash, papers, PaperInv, IInv, TypeOK
<1>5. ASSUME UNCHANGED <<papers, req>> PROVE Backed' /\ EveryChangeHasItsPaper'
  BY <1>5, QuietPapers DEF papers
<1>6. CASE UNCHANGED vars
  BY <1>5, <1>6 DEF vars, papers
<1> QED
  BY <1>1, <1>2, <1>3, <1>4, <1>5, <1>6 DEF Next, SetRole, Tick

\* Every substitute event is the result of exactly one applied correction about
\* its owner, every void event has the correction that voided it, and every
\* applied correction did what it asked for, whatever overlaps or dies.
THEOREM PapersMatchTheRecord == Spec => []EveryChangeHasItsPaper
<1>1. Init => PaperInv
  BY InitIInv, InitPapers DEF PaperInv
<1>2. PaperInv => EveryChangeHasItsPaper
  BY DEF PaperInv
<1> QED
  BY <1>1, <1>2, NextPapers, PTL DEF Spec

\* No step makes an event disappear, brings it back into force or gives it to
\* somebody else: the version before a correction can still be read after it.
THEOREM VersionsStay == Spec => PreviousVersionStays
<1> DEFINE Kept(p) == /\ punch[p].state = "void" => punch'[p].state = "void"
                      /\ punch[p].state # "none" =>
                            punch'[p].state # "none" /\ punch'[p].owner = punch[p].owner
<1>1. ASSUME PaperInv, NEW r \in Requests, Step(r), NEW p \in Punches PROVE Kept(p)
  <2>1. CASE UNCHANGED punch
    BY <2>1
  <2>2. ASSUME req[r].pc = "decided", Change(r, req[r].corr) PROVE Kept(p)
    <3>1. punch[r].state = "none" /\ punch[p] \in Events
      BY <1>1, <2>2 DEF PaperInv, Backed, IInv, TypeOK
    <3>2. CASE p = r
      <4>1. punch[p].state = "none"
        BY <3>1, <3>2
      <4> QED
        BY <4>1
    <3>3. CASE p # r
      BY <2>2, <3>1, <3>3 DEF Change, Events
    <3> QED
      BY <3>2, <3>3
  <2> QED
    BY <1>1, <2>1, <2>2 DEF Step, Claim, LookAtTarget, RefuseSelfDecision, ApproveCorrection,
       AcceptCorrection, ApplyWithoutAgreement, RejectCorrection, WithdrawCorrection,
       DisputeCorrection, Decided, papers
<1>2. ASSUME PaperInv, [Next]_vars, NEW p \in Punches PROVE Kept(p)
  <2>1. CASE UNCHANGED punch
    BY <2>1
  <2> QED
    BY <1>1, <1>2, <2>1 DEF Next, File, Start, Crash, SetRole, Tick, papers, vars
<1>3. PaperInv /\ [Next]_vars => [\A p \in Punches : Kept(p)]_vars
  BY <1>2
<1>4. Init => PaperInv
  BY InitIInv, InitPapers DEF PaperInv
<1> QED
  BY <1>3, <1>4, NextPapers, PTL DEF Spec, PreviousVersionStays
=============================================================================
