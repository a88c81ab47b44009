---------------------------- MODULE Corrections ----------------------------
(***************************************************************************)
(* The correction procedure of the working-time register (art. 4.b):       *)
(* punches/corrections.py behind punches/correction_views.py.              *)
(*                                                                         *)
(* A correction is a document about one person's record.  The person asks  *)
(* and the company decides, or the company proposes and the person answers *)
(* within a window.  Every decision is one HTTP request, hence one         *)
(* database transaction (ATOMIC_REQUESTS, READ COMMITTED): it locks the    *)
(* correction's row, reads the event it concerns and the company's staff   *)
(* WITHOUT locking them, and writes everything when it commits.  Other     *)
(* requests run between any two of those steps.                            *)
(***************************************************************************)
EXTENDS Naturals, FiniteSets

CONSTANTS
    People,        \* the users of one company
    Corrections,   \* rows of PunchCorrection
    Entries,       \* the clock events on record before any correction
    Requests,      \* the decisions that reach the server, one transaction each
    Nothing,       \* NULL
    EntryOwner,    \* whose event each entry is
    Reach,         \* the people each manager's departments contain
    Roles,         \* the roles each person may come to hold
    ConsentDays,   \* WorkingTimeRules.correction_consent_days
    MaxDay         \* bound on the calendar

Staff == {"ADMIN", "MANAGER", "EMPLOYEE", "OUT"}
Ops   == {"approve", "reject", "accept", "dispute", "apply", "withdraw"}
Kinds == {"ADD", "MODIFY", "VOID"}

\* A corrected event is a new row; it is named by the request that made it.
Punches == Entries \cup Requests

ASSUME PeopleAssumption ==
    /\ Nothing \notin People \cup Punches \cup Corrections
    /\ Entries \cap Requests = {}
ASSUME CompanyAssumption ==
    /\ EntryOwner \in [Entries -> People]
    /\ Reach \in [People -> SUBSET People]
    /\ Roles \in [People -> SUBSET Staff]
ASSUME WindowAssumption == ConsentDays \in Nat /\ MaxDay \in Nat

VARIABLES
    asked,    \* what each correction asks for: fixed when it is filed
    status,   \* PunchCorrection.status
    answer,   \* the person's side: agreed, account, representatives told
    outcome,  \* the company's side: who, alone or not, imposed or not, result
    punch,    \* the clock events
    lock,     \* the request holding the FOR UPDATE lock of each correction
    req,      \* the requests and how far each transaction has gone
    staff,    \* User.role and User.is_active
    today

papers == <<asked, status, answer, outcome, punch>>
vars   == <<asked, status, answer, outcome, punch, lock, req, staff, today>>

-----------------------------------------------------------------------------
(* Types *)

Open     == {"PENDING", "AWAITING_EMPLOYEE"}
Applied  == {"APPROVED", "DISPUTED"}
Resolved == Applied \cup {"REJECTED", "WITHDRAWN"}
Statuses == {"UNFILED"} \cup Open \cup Resolved

Claims   == [kind : Kinds, target : Punches \cup {Nothing}, subject : People,
             by : People, on : Nat]
Answers  == [agreed : {"silent", "yes", "no"},
             account : {"none", "person", "silence"}, told : BOOLEAN]
Outcomes == [by : People \cup {Nothing}, alone : BOOLEAN, imposed : BOOLEAN,
             result : Punches \cup {Nothing}]
Events   == [state : {"none", "active", "void"}, next : Punches \cup {Nothing},
             owner : People \cup {Nothing}]
Stages   == {"idle", "sent", "held", "looked", "decided", "done", "refused", "lost"}
Calls    == [pc : Stages, op : Ops, corr : Corrections \cup {Nothing},
             who : People \cup {Nothing}, alone : BOOLEAN]

Unsaid   == [agreed |-> "silent", account |-> "none", told |-> FALSE]
Undecided == [by |-> Nothing, alone |-> FALSE, imposed |-> FALSE, result |-> Nothing]
NotSent  == [pc |-> "idle", op |-> "approve", corr |-> Nothing,
             who |-> Nothing, alone |-> FALSE]
Ended(how) == [NotSent EXCEPT !.pc = how]

TypeOK ==
    /\ asked \in [Corrections -> Claims \cup {Nothing}]
    /\ status \in [Corrections -> Statuses]
    /\ answer \in [Corrections -> Answers]
    /\ outcome \in [Corrections -> Outcomes]
    /\ punch \in [Punches -> Events]
    /\ lock \in [Corrections -> Requests \cup {Nothing}]
    /\ req \in [Requests -> Calls]
    /\ staff \in [People -> Staff]
    /\ today \in 0 .. MaxDay

-----------------------------------------------------------------------------
(* The company: who may act, who may read whom, who is a second person *)

CanManage(p) == staff[p] \in {"ADMIN", "MANAGER"}

CanSee(p, person) ==
    \/ p = person
    \/ staff[p] = "ADMIN"
    \/ staff[p] = "MANAGER" /\ person \in Reach[p]

\* MUTANT: any other manager counts, whoever they can read.
AnyManagerCounts(decider, subject) ==
    \E other \in People \ {decider} : CanManage(other)

SomeoneElseCouldDecide(decider, subject) ==
    \E other \in People \ {decider} :
        \/ staff[other] = "ADMIN"
        \/ staff[other] = "MANAGER" /\ CanSee(other, subject)

MustLeaveIt(decider, subject) ==
    decider = subject /\ SomeoneElseCouldDecide(decider, subject)

-----------------------------------------------------------------------------
Init ==
    /\ asked = [c \in Corrections |-> Nothing]
    /\ status = [c \in Corrections |-> "UNFILED"]
    /\ answer = [c \in Corrections |-> Unsaid]
    /\ outcome = [c \in Corrections |-> Undecided]
    /\ punch = [p \in Punches |->
                   IF p \in Entries
                   THEN [state |-> "active", next |-> Nothing, owner |-> EntryOwner[p]]
                   ELSE [state |-> "none", next |-> Nothing, owner |-> Nothing]]
    /\ lock = [c \in Corrections |-> Nothing]
    /\ req = [r \in Requests |-> NotSent]
    /\ staff \in [People -> Staff]
    /\ \A p \in People : staff[p] \in Roles[p]
    /\ \E p \in People : staff[p] = "ADMIN"
    /\ today = 0

-----------------------------------------------------------------------------
(* Filing: one insert, and nothing in the record changes.  About oneself it  *)
(* is a request the company decides; about somebody else, a proposal the     *)
(* person answers.  An event is named where one is to change or to go; a     *)
(* request to add one may name an event too, and it is kept.  Nothing asks   *)
(* whether the event is still in force.                                      *)

\* _void is called for these: a request to add leaves the event it names alone.
Retiring == {"MODIFY", "VOID"}

FirstStatus(by, subject) == IF by = subject THEN "PENDING" ELSE "AWAITING_EMPLOYEE"

File(c, by, subject, kind, target) ==
    /\ status[c] = "UNFILED"
    /\ staff[by] # "OUT"
    /\ by = subject \/ CanManage(by)
    /\ kind \in Retiring => target # Nothing
    /\ target # Nothing =>
          /\ punch[target].state # "none"
          /\ punch[target].owner = subject
    /\ asked' = [asked EXCEPT ![c] = [kind |-> kind, target |-> target,
                    subject |-> subject, by |-> by, on |-> today]]
    /\ status' = [status EXCEPT ![c] = FirstStatus(by, subject)]
    /\ UNCHANGED <<answer, outcome, punch, lock, req, staff, today>>

-----------------------------------------------------------------------------
(* One decision: the request is authenticated and finds the row it names,    *)
(* then claims it.                                                           *)

Permitted(op, who, subject) ==
    /\ staff[who] # "OUT"
    /\ CanSee(who, subject)
    /\ op \in {"accept", "dispute"} \/ CanManage(who)

Start(r, op, c, who) ==
    /\ req[r].pc = "idle"
    /\ status[c] # "UNFILED"
    /\ Permitted(op, who, asked[c].subject)
    /\ req' = [req EXCEPT ![r] = [pc |-> "sent", op |-> op, corr |-> c,
                                  who |-> who, alone |-> FALSE]]
    /\ UNCHANGED <<papers, lock, staff, today>>

StartsFrom(op) == IF op \in {"approve", "reject"} THEN "PENDING" ELSE "AWAITING_EMPLOYEE"

ConsentWindowHasPassed(c) == today >= asked[c].on + ConsentDays

\* MUTANT: the status the request loaded before waiting for the row is trusted.
EntitledByTheCopy(op, c, who) ==
    /\ op \in {"accept", "dispute"} => who = asked[c].subject
    /\ op = "apply" /\ answer[c].agreed = "silent" => ConsentWindowHasPassed(c)

\* MUTANT: silence is enough to go ahead at any moment.
EntitledWithoutWindow(op, c, who) ==
    /\ status[c] = StartsFrom(op)
    /\ op \in {"accept", "dispute"} => who = asked[c].subject

\* What the locked row itself says against the request.
Entitled(op, c, who) ==
    /\ status[c] = StartsFrom(op)
    /\ op \in {"accept", "dispute"} => who = asked[c].subject
    /\ op = "apply" /\ answer[c].agreed = "silent" => ConsentWindowHasPassed(c)

\* MUTANT: the row is read without FOR UPDATE.
ClaimWithoutLock(r) ==
    /\ req[r].pc = "sent"
    /\ Entitled(req[r].op, req[r].corr, req[r].who)
    /\ req' = [req EXCEPT ![r].pc = "held"]
    /\ UNCHANGED <<papers, lock, staff, today>>

\* SELECT ... FOR UPDATE waits for the row and then reads it afresh.
Claim(r) ==
    LET c == req[r].corr IN
    /\ req[r].pc = "sent"
    /\ lock[c] = Nothing
    /\ IF Entitled(req[r].op, c, req[r].who)
       THEN /\ lock' = [lock EXCEPT ![c] = r]
            /\ req' = [req EXCEPT ![r].pc = "held"]
       ELSE /\ req' = [req EXCEPT ![r] = Ended("refused")]
            /\ UNCHANGED lock
    /\ UNCHANGED <<papers, staff, today>>

\* MUTANT: the transaction is left open with its lock.
EndWithoutRelease(r, how) ==
    /\ req' = [req EXCEPT ![r] = Ended(how)]
    /\ UNCHANGED lock

\* The transaction of a request that holds the row is over.
Release(r, how) ==
    /\ req' = [req EXCEPT ![r] = Ended(how)]
    /\ lock' = [lock EXCEPT ![req[r].corr] = Nothing]

Applies(op) == op \in {"approve", "accept", "apply"}

TargetInForce(c) == asked[c].target # Nothing => punch[asked[c].target].state = "active"

\* The event concerned is read, not locked.
LookAtTarget(r) ==
    /\ req[r].pc = "held"
    /\ Applies(req[r].op)
    /\ IF TargetInForce(req[r].corr)
       THEN req' = [req EXCEPT ![r].pc = "looked"] /\ UNCHANGED lock
       ELSE Release(r, "refused")
    /\ UNCHANGED <<papers, staff, today>>

\* When the person accepts, the decision is the proposer's.
Decider(r) == IF req[r].op = "accept" THEN asked[req[r].corr].by ELSE req[r].who

AtFourEyes(r) ==
    \/ req[r].pc = "looked"
    \/ req[r].pc = "held" /\ req[r].op \in {"reject", "withdraw"}

RefuseSelfDecision(r) ==
    LET subject == asked[req[r].corr].subject IN
    /\ AtFourEyes(r)
    /\ IF MustLeaveIt(Decider(r), subject)
       THEN Release(r, "refused")
       ELSE /\ req' = [req EXCEPT ![r].pc = "decided",
                                  ![r].alone = (Decider(r) = subject)]
            /\ UNCHANGED lock
    /\ UNCHANGED <<papers, staff, today>>

-----------------------------------------------------------------------------
(* Writing the decision, which is when the transaction commits *)

\* _create and _void: the substitute, and the old event retired in its favour.
Change(r, c) ==
    LET claim == asked[c] IN
    punch' = [p \in Punches |->
        CASE p = r /\ claim.kind # "VOID" ->
                 [state |-> "active", next |-> Nothing, owner |-> claim.subject]
          [] p = claim.target /\ claim.kind \in Retiring ->
                 [punch[p] EXCEPT !.state = "void",
                                  !.next = IF claim.kind = "MODIFY" THEN r ELSE Nothing]
          [] OTHER -> punch[p]]

\* MUTANT: the correction is linked to itself instead of to the new event.
ResultIsItself(r, c) == c

Result(r, c) == IF asked[c].kind = "VOID" THEN Nothing ELSE r

Settle(r, c, to) ==
    /\ status' = [status EXCEPT ![c] = to]
    /\ outcome' = [outcome EXCEPT ![c] =
           [by |-> Decider(r), alone |-> req[r].alone,
            imposed |-> outcome[c].imposed \/ to = "DISPUTED",
            result |-> IF to \in Applied THEN Result(r, c) ELSE outcome[c].result]]

Commit(r) ==
    /\ Release(r, "done")
    /\ UNCHANGED <<asked, staff, today>>

Decided(r, op) == req[r].pc = "decided" /\ req[r].op = op

ApproveCorrection(r) ==
    LET c == req[r].corr IN
    /\ Decided(r, "approve")
    /\ Settle(r, c, "APPROVED")
    /\ Change(r, c)
    /\ Commit(r)
    /\ UNCHANGED answer

AcceptCorrection(r) ==
    LET c == req[r].corr IN
    /\ Decided(r, "accept")
    /\ answer' = [answer EXCEPT ![c].agreed = "yes"]
    /\ Settle(r, c, "APPROVED")
    /\ Change(r, c)
    /\ Commit(r)

\* Silence is written down as silence; an account already given stays.
ApplyWithoutAgreement(r) ==
    LET c == req[r].corr IN
    /\ Decided(r, "apply")
    /\ answer' = IF answer[c].agreed = "silent"
                 THEN [answer EXCEPT ![c].account = "silence", ![c].told = TRUE]
                 ELSE answer
    /\ Settle(r, c, "DISPUTED")
    /\ Change(r, c)
    /\ Commit(r)

\* MUTANT: turning a correction down needs no second person.
RejectWithoutFourEyes(r) ==
    /\ req[r].pc = "held" /\ req[r].op = "reject"
    /\ Settle(r, req[r].corr, "REJECTED")
    /\ Commit(r)
    /\ UNCHANGED <<answer, punch>>

RejectCorrection(r) ==
    /\ Decided(r, "reject")
    /\ Settle(r, req[r].corr, "REJECTED")
    /\ Commit(r)
    /\ UNCHANGED <<answer, punch>>

WithdrawCorrection(r) ==
    /\ Decided(r, "withdraw")
    /\ Settle(r, req[r].corr, "WITHDRAWN")
    /\ Commit(r)
    /\ UNCHANGED <<answer, punch>>

\* The proposal stays open: the company decides whether to go ahead.
DisputeCorrection(r) ==
    /\ req[r].pc = "held" /\ req[r].op = "dispute"
    /\ answer' = [answer EXCEPT ![req[r].corr] =
           [agreed |-> "no", account |-> "person", told |-> TRUE]]
    /\ Commit(r)
    /\ UNCHANGED <<status, outcome, punch>>

-----------------------------------------------------------------------------
(* Around the requests: a worker dies and the database rolls back, people    *)
(* change role or leave, days pass.                                          *)

Crash(r) ==
    /\ req[r].pc \in {"sent", "held", "looked", "decided"}
    /\ req' = [req EXCEPT ![r] = Ended("lost")]
    /\ lock' = [c \in Corrections |-> IF lock[c] = r THEN Nothing ELSE lock[c]]
    /\ UNCHANGED <<papers, staff, today>>

\* Any change of role, leaving or coming back.  The check that keeps a last
\* administrator reads other people's rows unlocked, so nothing here relies on it.
SetRole(p, role) ==
    /\ role \in Roles[p] \ {staff[p]}
    /\ staff' = [staff EXCEPT ![p] = role]
    /\ UNCHANGED <<papers, lock, req, today>>

Tick ==
    /\ today < MaxDay
    /\ today' = today + 1
    /\ UNCHANGED <<papers, lock, req, staff>>

Step(r) ==
    \/ Claim(r)
    \/ LookAtTarget(r)
    \/ RefuseSelfDecision(r)
    \/ ApproveCorrection(r)
    \/ AcceptCorrection(r)
    \/ ApplyWithoutAgreement(r)
    \/ RejectCorrection(r)
    \/ WithdrawCorrection(r)
    \/ DisputeCorrection(r)

Next ==
    \/ \E c \in Corrections, by, subject \in People, kind \in Kinds,
          target \in Punches \cup {Nothing} : File(c, by, subject, kind, target)
    \/ \E r \in Requests, op \in Ops, c \in Corrections, who \in People :
          Start(r, op, c, who)
    \/ \E r \in Requests : Step(r)
    \/ \E r \in Requests : Crash(r)
    \/ \E p \in People, role \in Staff : SetRole(p, role)
    \/ Tick

Spec == Init /\ [][Next]_vars

\* A request that reached the server runs on: the row lock is queued for in
\* order and every transaction ends, by commit, refusal or rollback.
FairSpec == Spec /\ \A r \in Requests : WF_vars(Step(r))

-----------------------------------------------------------------------------
(* What must hold *)

\* A correction says one thing about consent: it is DISPUTED exactly when it
\* was imposed, with an account beside it and the representatives told, and
\* never over an agreement; agreement is only ever recorded together with the
\* change it allowed; a company proposal that ends APPROVED was agreed to.
\* (The race _must_be_awaiting describes: the person accepts while a manager
\* applies the change because the window ran out.)
RecordSaysOneThing ==
    \A c \in Corrections :
        /\ status[c] = "DISPUTED" <=> outcome[c].imposed
        /\ status[c] = "DISPUTED" =>
              /\ answer[c].told
              /\ \/ answer[c].agreed = "no" /\ answer[c].account = "person"
                 \/ answer[c].agreed = "silent" /\ answer[c].account = "silence"
        /\ answer[c].agreed = "yes" => status[c] = "APPROVED"
        /\ status[c] = "APPROVED" =>
              (answer[c].agreed = "yes" <=> asked[c].by # asked[c].subject)

\* Every change in the record has its paper, and every paper its change: a
\* substitute event is the result of exactly one applied correction about its
\* owner, an event is void only if an applied correction asked to change it or
\* to void it, and an applied correction voided what it asked to retire and made
\* what it asked for (approve_correction, _create, _void).
EveryChangeHasItsPaper ==
    /\ \A r \in Requests : punch[r].state # "none" =>
          \E c \in Corrections :
              /\ status[c] \in Applied
              /\ outcome[c].result = r
              /\ asked[c].subject = punch[r].owner
              /\ \A d \in Corrections \ {c} : outcome[d].result # r
    /\ \A p \in Punches : punch[p].state = "void" =>
          \E c \in Corrections :
              status[c] \in Applied /\ asked[c].kind \in Retiring /\ asked[c].target = p
    /\ \A c \in Corrections : status[c] \in Applied =>
          /\ asked[c].kind # "VOID" <=> outcome[c].result # Nothing
          /\ outcome[c].result # Nothing => punch[outcome[c].result].state # "none"
          /\ asked[c].kind \in Retiring => punch[asked[c].target].state = "void"

\* Whoever is the subject of a correction resolved it only if the four-eyes
\* check found nobody else, and the resolution carries the mark of that.
SelfDecidedIsMarked ==
    \A c \in Corrections : status[c] \in Resolved =>
        (outcome[c].by = asked[c].subject <=> outcome[c].alone)

\* An open correction is never stuck between 409 and 404: while the company
\* has an administrator, somebody who may sign in and reaches that person's
\* record would not be sent away by the four-eyes rule (the dead end told in
\* someone_else_could_decide's docstring).
SomebodyCanAlwaysDecide ==
    (\E p \in People : staff[p] = "ADMIN") =>
    \A c \in Corrections : status[c] \in Open =>
        \E who \in People :
            /\ CanManage(who)
            /\ CanSee(who, asked[c].subject)
            /\ ~MustLeaveIt(who, asked[c].subject)

\* A resolved correction is history: no later request changes what it says,
\* however the two overlapped (the rows claim and _reclamar_pendiente re-read).
ResolvedIsFinal ==
    [][\A c \in Corrections : status[c] \in Resolved =>
          UNCHANGED <<asked[c], status[c], answer[c], outcome[c]>>]_vars

\* The previous version stays readable: an event never disappears, never comes
\* back into force, and keeps its owner.
PreviousVersionStays ==
    [][\A p \in Punches :
          /\ punch[p].state = "void" => punch'[p].state = "void"
          /\ punch[p].state # "none" =>
                punch'[p].state # "none" /\ punch'[p].owner = punch[p].owner]_vars

\* A decision that was sent is answered, refused or lost with its worker: no
\* request waits for ever on the row of another.
EveryDecisionEnds ==
    \A r \in Requests :
        req[r].pc = "sent" ~> req[r].pc \in {"done", "refused", "lost"}

\* Two applied corrections never retire the same event.  The code says it:
\* approve_correction refuses a target another correction has changed.
AppliedOncePerEvent ==
    \A c, d \in Corrections :
        /\ {status[c], status[d]} \subseteq Applied
        /\ {asked[c].kind, asked[d].kind} \subseteq Retiring
        /\ asked[c].target = asked[d].target
        => c = d

-----------------------------------------------------------------------------
(* What the procedure implements *)

PhaseOf(c) ==
    CASE status[c] = "UNFILED"           -> "none"
      [] status[c] = "PENDING"           -> "asked"
      [] status[c] = "AWAITING_EMPLOYEE" -> "proposed"
      [] status[c] = "APPROVED"          -> "applied"
      [] status[c] = "DISPUTED"          -> "imposed"
      [] OTHER                           -> "closed"

VoiceOf(c) ==
    CASE answer[c].agreed = "yes" -> "agreed"
      [] answer[c].agreed = "no"  -> "objected"
      [] OTHER                    -> "silent"

Change4b == INSTANCE RecordChange WITH
    Changes <- Corrections,
    phase   <- [c \in Corrections |-> PhaseOf(c)],
    voice   <- [c \in Corrections |-> VoiceOf(c)],
    overdue <- {c \in Corrections : status[c] # "UNFILED" /\ ConsentWindowHasPassed(c)}

\* The requests, with their locks, unlocked reads, crashes and refusals, take
\* a correction only through the steps art. 4.b allows.
ImplementsRecordChange == Change4b!Spec
=============================================================================
