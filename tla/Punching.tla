------------------------------ MODULE Punching ------------------------------
(***************************************************************************)
(* Clocking in and out, for one person: punches/services.py register_punch *)
(* behind the two doors that call it (punches/views.py create and the      *)
(* delegated punch of punches/delegated.py) with punches/idempotency.py.   *)
(*                                                                         *)
(* A tap is what the person did; a call is one HTTP request that carries   *)
(* it.  Clients lose answers and try again, even while the first call is   *)
(* still running.  A call is one transaction (ATOMIC_REQUESTS, READ        *)
(* COMMITTED): it looks for the receipt of its key, inserts the receipt,   *)
(* locks the person, reads the record, and commits event and receipt       *)
(* together.  Other calls run between any two of those steps.              *)
(***************************************************************************)
EXTENDS Integers, FiniteSets

CONSTANTS
    Taps,       \* things the person did
    Calls,      \* HTTP requests
    Nothing,    \* NULL
    Asks,       \* the interval each tap names, or "tap" for the one-tap
    Keyless,    \* taps sent without an Idempotency-Key, hence never retried
    Declares,   \* taps queued on a device, which send declared_at
    Ahead,      \* how far ahead the clock of each tap's device is
    MaxOpen,    \* max_open_hours
    DoubleTap,  \* DOUBLE_TAP_SECONDS
    Skew,       \* _CLOCK_SKEW
    Grace,      \* offline_punch_grace_hours
    MaxTime     \* bound on the clock

ASSUME NothingAssumption == Nothing \notin Taps \cup Calls
ASSUME TapsAssumption ==
    /\ Asks \in [Taps -> {"tap", "WORK", "BREAK"}]
    /\ Keyless \subseteq Taps
    /\ Declares \subseteq Taps
    /\ Ahead \in [Taps -> Nat]
ASSUME TimesAssumption ==
    /\ MaxOpen \in Nat /\ DoubleTap \in Nat \ {0} /\ DoubleTap <= MaxOpen
    /\ Skew \in Nat /\ Grace \in Nat /\ MaxTime \in Nat

VARIABLES
    made,     \* the event each call has committed, if any
    receipt,  \* DelegatedPunchReceipt: the call whose event a key names
    claimed,  \* the call whose uncommitted receipt row holds a key
    person,   \* the call holding the FOR UPDATE lock on the person
    call,     \* the calls and how far each transaction has gone
    heard,    \* the event each call's answer named, if the answer arrived
    pressed,  \* when a queued tap happened
    clock

rows == <<made, receipt>>
vars == <<made, receipt, claimed, person, call, heard, pressed, clock>>

-----------------------------------------------------------------------------
Intervals == {"WORK", "BREAK"}
Types     == {"IN", "OUT"}
Punch     == [tap : Taps, interval : Intervals, type : Types, at : Nat, recv : Nat]
Stages    == {"idle", "sent", "unclaimed", "claimed", "held", "inferred",
              "done", "refused", "lost"}

ASSUME PunchAssumption == Nothing \notin Punch

\* `settled` is the moment the type was inferred: it is not stored by the code.
Idle      == [pc |-> "idle", tap |-> Nothing, interval |-> "WORK", type |-> "IN",
              settled |-> 0]
Ended(t, how) == [Idle EXCEPT !.pc = how, !.tap = t]

TypeOK ==
    /\ made \in [Calls -> Punch \cup {Nothing}]
    /\ receipt \in [Taps -> Calls \cup {Nothing}]
    /\ claimed \in [Taps -> Calls \cup {Nothing}]
    /\ person \in Calls \cup {Nothing}
    /\ call \in [Calls -> [pc : Stages, tap : Taps \cup {Nothing}, interval : Intervals,
                           type : Types, settled : Nat]]
    /\ heard \in [Calls -> Calls \cup {Nothing}]
    /\ pressed \in [Taps -> Nat \cup {Nothing}]
    /\ clock \in 0 .. MaxTime

Init ==
    /\ made = [c \in Calls |-> Nothing]
    /\ receipt = [t \in Taps |-> Nothing]
    /\ claimed = [t \in Taps |-> Nothing]
    /\ person = Nothing
    /\ call = [c \in Calls |-> Idle]
    /\ heard = [c \in Calls |-> Nothing]
    /\ pressed = [t \in Taps |-> Nothing]
    /\ clock = 0

-----------------------------------------------------------------------------
(* Reading the record *)

Events == {made[c] : c \in Calls} \ {Nothing}

\* MUTANT: the window leaves out its first moment.
RecentStrictly(interval, now) ==
    {e \in Events : e.interval = interval /\ e.at > now - MaxOpen}

Recent(interval, now) ==
    {e \in Events : e.interval = interval /\ e.at >= now - MaxOpen}

\* order_by("timestamp").last(): among equal timestamps, any.
LastOpen(interval, now) ==
    {e \in Recent(interval, now) : \A f \in Recent(interval, now) : f.at <= e.at}

InferredTypes(interval, now) ==
    IF LastOpen(interval, now) = {}
    THEN {"IN"}
    ELSE {IF e.type = "OUT" THEN "IN" ELSE "OUT" : e \in LastOpen(interval, now)}

IsOpen(interval, now) == "OUT" \in InferredTypes(interval, now)

\* MUTANT: a tap that names no interval is about the working day.
AlwaysTheDay(t, now) == IF Asks[t] = "tap" THEN "WORK" ELSE Asks[t]

TheInterval(t, now) ==
    CASE Asks[t] # "tap"      -> Asks[t]
      [] IsOpen("BREAK", now) -> "BREAK"
      [] OTHER                -> "WORK"

TooSoon(interval, now) ==
    \E e \in LastOpen(interval, now) : now - e.at \in 0 .. DoubleTap - 1

-----------------------------------------------------------------------------
(* The client *)

\* A tap with no coverage waits in the device with the time it happened.
Press(t) ==
    /\ t \in Declares
    /\ pressed[t] = Nothing
    /\ pressed' = [pressed EXCEPT ![t] = clock]
    /\ UNCHANGED <<rows, claimed, person, call, heard, clock>>

Sent(t) == \E c \in Calls : call[c].tap = t

Send(c, t) ==
    /\ call[c].pc = "idle"
    /\ t \in Declares => pressed[t] # Nothing
    /\ t \in Keyless => ~Sent(t)
    /\ call' = [call EXCEPT ![c] =
           [Idle EXCEPT !.tap = t, !.pc = IF t \in Keyless THEN "claimed" ELSE "sent"]]
    /\ UNCHANGED <<rows, claimed, person, heard, pressed, clock>>

-----------------------------------------------------------------------------
(* The transaction of a call *)

\* MUTANT: the person stays locked when the call ends.
ReleaseKeyOnly(c, how) ==
    /\ call' = [call EXCEPT ![c] = Ended(call[c].tap, how)]
    /\ claimed' = [t \in Taps |-> IF claimed[t] = c THEN Nothing ELSE claimed[t]]
    /\ UNCHANGED person

Release(c, how) ==
    /\ call' = [call EXCEPT ![c] = Ended(call[c].tap, how)]
    /\ claimed' = [t \in Taps |-> IF claimed[t] = c THEN Nothing ELSE claimed[t]]
    /\ person' = IF person = c THEN Nothing ELSE person

\* The answer names an event; it may be lost on its way.
AnswerWith(c, p) == heard' \in {heard, [heard EXCEPT ![c] = p]}

\* MUTANT: the answer names the key instead of the event.
AnswerWithTheKey(c) ==
    /\ AnswerWith(c, call[c].tap)
    /\ Release(c, "done")

AnswerFromReceipt(c) ==
    /\ AnswerWith(c, receipt[call[c].tap])
    /\ Release(c, "done")

\* already_recorded, read without any lock.
LookUp(c) ==
    /\ call[c].pc = "sent"
    /\ IF receipt[call[c].tap] # Nothing
       THEN AnswerFromReceipt(c)
       ELSE /\ call' = [call EXCEPT ![c].pc = "unclaimed"]
            /\ UNCHANGED <<claimed, person, heard>>
    /\ UNCHANGED <<rows, pressed, clock>>

\* MUTANT: the key is not reserved before recording.
ClaimNothing(c) ==
    /\ call[c].pc = "unclaimed"
    /\ call' = [call EXCEPT ![c].pc = "claimed"]
    /\ UNCHANGED <<rows, claimed, person, heard, pressed, clock>>

\* claim: the unique index makes the insert wait for an uncommitted rival, and
\* fail if that one committed.
Claim(c) ==
    LET t == call[c].tap IN
    /\ call[c].pc = "unclaimed"
    /\ claimed[t] = Nothing
    /\ IF receipt[t] # Nothing
       THEN AnswerFromReceipt(c)
       ELSE /\ call' = [call EXCEPT ![c].pc = "claimed"]
            /\ claimed' = [claimed EXCEPT ![t] = c]
            /\ UNCHANGED <<person, heard>>
    /\ UNCHANGED <<rows, pressed, clock>>

\* MUTANT: the last event is read without holding the person.
HoldNobody(c) ==
    /\ call[c].pc = "claimed"
    /\ call' = [call EXCEPT ![c].pc = "held"]
    /\ UNCHANGED <<rows, claimed, person, heard, pressed, clock>>

HoldPerson(c) ==
    /\ call[c].pc = "claimed"
    /\ person = Nothing
    /\ person' = c
    /\ call' = [call EXCEPT ![c].pc = "held"]
    /\ UNCHANGED <<rows, claimed, heard, pressed, clock>>

\* Refusals decided by other parts: no active person of that name, an inactive
\* person, approved leave for the day, the overtime rules.
TurnAway(c) ==
    /\ call[c].pc \in {"unclaimed", "claimed", "held", "inferred"}
    /\ Release(c, "refused")
    /\ UNCHANGED <<rows, heard, pressed, clock>>

\* Interval, double tap, type, and a break only inside a working day.
Infer(c) ==
    LET interval == TheInterval(call[c].tap, clock) IN
    /\ call[c].pc = "held"
    /\ \E type \in InferredTypes(interval, clock) :
          IF \/ TooSoon(interval, clock)
             \/ interval = "BREAK" /\ type = "IN" /\ ~IsOpen("WORK", clock)
          THEN Release(c, "refused")
          ELSE /\ call' = [call EXCEPT ![c] = [@ EXCEPT !.pc = "inferred",
                      !.interval = interval, !.type = type, !.settled = clock]]
               /\ UNCHANGED <<claimed, person>>
    /\ UNCHANGED <<rows, heard, pressed, clock>>

Declared(t) == pressed[t] + Ahead[t]

\* MUTANT: a device a little ahead writes its own time.
TrustTheDevice(t, received) ==
    IF t \notin Declares
    THEN {received}
    ELSE IF Declared(t) > received + Skew \/ received - Declared(t) > Grace
         THEN {}
         ELSE {Declared(t)}

\* _accepted_time: {} when the declared time is refused.
AcceptedTime(t, received) ==
    IF t \notin Declares
    THEN {received}
    ELSE IF \/ Declared(t) > received + Skew
            \/ Grace = 0
            \/ received - Declared(t) > Grace
         THEN {}
         ELSE {IF Declared(t) <= received THEN Declared(t) ELSE received}

\* The time of arrival is taken after the type; event and receipt commit together.
Commit(c) ==
    LET t == call[c].tap IN
    /\ call[c].pc = "inferred"
    /\ AcceptedTime(t, clock) # {}
    /\ \E at \in AcceptedTime(t, clock) :
          made' = [made EXCEPT ![c] =
              [tap |-> t, interval |-> call[c].interval, type |-> call[c].type,
               at |-> at, recv |-> clock]]
    /\ receipt' = IF t \in Keyless THEN receipt ELSE [receipt EXCEPT ![t] = c]
    /\ AnswerWith(c, c)
    /\ Release(c, "done")
    /\ UNCHANGED <<pressed, clock>>

RefuseTime(c) ==
    /\ call[c].pc = "inferred"
    /\ AcceptedTime(call[c].tap, clock) = {}
    /\ Release(c, "refused")
    /\ UNCHANGED <<rows, heard, pressed, clock>>

Crash(c) ==
    /\ call[c].pc \in Stages \ {"idle", "done", "refused", "lost"}
    /\ Release(c, "lost")
    /\ UNCHANGED <<rows, heard, pressed, clock>>

Tick ==
    /\ clock < MaxTime
    /\ clock' = clock + 1
    /\ UNCHANGED <<rows, claimed, person, call, heard, pressed>>

Step(c) ==
    \/ LookUp(c)
    \/ Claim(c)
    \/ HoldPerson(c)
    \/ Infer(c)
    \/ Commit(c)
    \/ RefuseTime(c)

Next ==
    \/ \E t \in Taps : Press(t)
    \/ \E c \in Calls, t \in Taps : Send(c, t)
    \/ \E c \in Calls : Step(c)
    \/ \E c \in Calls : TurnAway(c)
    \/ \E c \in Calls : Crash(c)
    \/ Tick

Spec == Init /\ [][Next]_vars

\* The server runs every call it has taken to its end; waiting for a row or an
\* index entry is queued and ends with the transaction that holds it.
FairSpec == Spec /\ \A c \in Calls : WF_vars(Step(c))

-----------------------------------------------------------------------------
(* What must hold *)

\* However often a tap is sent, and however its calls overlap, it leaves at
\* most one event (idempotency.claim, settle): a repeated "clock in" never
\* becomes a clock-out.
OneEventPerTap ==
    \A c, d \in Calls :
        made[c] # Nothing /\ made[d] # Nothing /\ made[c].tap = made[d].tap => c = d

\* Every answer to a tap names the same event, one that is in the record and
\* came from that tap: no client is told of an event that was rolled back.
AnswersAgree ==
    \A c, d \in Calls :
        heard[c] # Nothing =>
            /\ made[heard[c]] # Nothing
            /\ made[heard[c]].tap = call[c].tap
            /\ heard[d] # Nothing /\ call[c].tap = call[d].tap => heard[c] = heard[d]

Between(e, f, type) ==
    \E g \in Events : g.interval = e.interval /\ g.type = type /\ g.at \in e.at .. f.at

\* Read in order of time, the events of an interval open and close by turns:
\* there are never two exits in a row, nor two openings, unless the first was
\* left open past the company's limit (infer_type, behind hold).
OpeningsAlternate ==
    \A e, f \in Events :
        e # f /\ e.interval = f.interval /\ e.type = f.type /\ e.at <= f.at =>
            IF e.type = "OUT"
            THEN Between(e, f, "IN")
            ELSE f.at <= e.at + MaxOpen => Between(e, f, "OUT")

\* Where nothing waits in a device, or nothing that waited is accepted
\* (offline_punch_grace_hours at zero): what both the one above and the one
\* below need of the company.
OnTheSpot == Declares = {} \/ Grace = 0

\* "Back from the break" never ends the working day: the one-tap does not
\* close it while a break is open (interval None in register_punch).
ReturnTapEndsTheBreak ==
    \A e, b \in Events :
        /\ e.interval = "WORK" /\ e.type = "OUT" /\ Asks[e.tap] = "tap"
        /\ b.interval = "BREAK" /\ b.type = "IN"
        /\ b.at <= e.at /\ e.at <= b.at + MaxOpen
        => Between(b, e, "OUT")

\* The time an event counts by is its arrival, or a declared one no later than
\* the arrival and within the grace period; a retry does not move it.
TimeIsVouchedFor ==
    \A e \in Events :
        IF e.tap \in Declares
        THEN e.at <= e.recv /\ e.recv - e.at <= Grace /\ e.at <= Declared(e.tap)
        ELSE e.at = e.recv

\* No call waits for ever for a key or for the person.
EveryCallEnds ==
    \A c \in Calls : call[c].pc = "sent" ~> call[c].pc \in {"done", "refused", "lost"}

-----------------------------------------------------------------------------
(* What the calls implement *)

EventOf(t) ==
    IF \E c \in Calls : made[c] # Nothing /\ made[c].tap = t
    THEN made[CHOOSE c \in Calls : made[c] # Nothing /\ made[c].tap = t]
    ELSE Nothing

Register == INSTANCE PunchRecord WITH event <- [t \in Taps |-> EventOf(t)]

\* Receipts, locks, retries, crashes and lost answers amount to one event per
\* tap, appended in one go with a type that follows from the record.
ImplementsRegister == Register!Spec
=============================================================================
