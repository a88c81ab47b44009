------------------------------ MODULE Retention ------------------------------
(***************************************************************************)
(* How long the register lives and what its seals are worth meanwhile: the *)
(* nightly jobs that delete clock events past their period                 *)
(* (purge_expired_records.py) and their network metadata                   *)
(* (purge_security_metadata.py), the integrity hash of an event            *)
(* (punches/models.py), and the three things that run beside them: the     *)
(* requests to correct an event, the erasure of an account (users/erase.py)*)
(* and a change of workplace.                                              *)
(*                                                                         *)
(* One company and one person.  Days are counted from zero and a year is   *)
(* as many days as the constants say; the clock of the company decides the *)
(* day.                                                                    *)
(***************************************************************************)
EXTENDS Integers, FiniteSets

CONSTANTS
    Events, Requests,
    Managers,      \* accounts that may record events for others, and be erased
    OnPaper,       \* the events of the first state: [day, version, zone]
    Days,          \* when the events still to come may have happened
    Zones,         \* of the person's workplaces
    CompanyZone,
    Floor,         \* LEGAL_FLOOR_YEARS
    Declarable,    \* what the column record_retention_years may hold
    MetadataDays,  \* security_metadata_retention_days
    LeapDays,      \* the 29ths of February
    LastDay,
    Nothing

\* Whoever it belongs to recorded what is there at the beginning.
Self == "self"

EventRows == [day : Int, version : 1 .. 5, zone : Zones,
              recorder : Managers \cup {Self, Nothing}, metadata : BOOLEAN]
RequestRows == [target : Events, open : BOOLEAN]

RetentionAssumption ==
    /\ IsFiniteSet(Events)
    /\ Floor \in Nat /\ MetadataDays \in Nat /\ LastDay \in Nat
    /\ Declarable \subseteq Nat /\ Floor \in Declarable
    /\ Days \subseteq Nat /\ LeapDays \subseteq Nat
    /\ CompanyZone \in Zones
    /\ Nothing \notin Managers \cup {Self} \cup EventRows \cup RequestRows
    /\ Self \notin Managers
    /\ \A e \in DOMAIN OnPaper :
         e \in Events /\ OnPaper[e] \in [day : Nat, version : 1 .. 5, zone : Zones]

VARIABLES
    today,
    declared,  \* Tenant.record_retention_years
    event,     \* Punch: [day, version, zone, recorder, metadata]
    request,   \* PunchCorrection: the event it is about and whether it is open
    manager,   \* accounts that exist
    zone,      \* User.tzinfo
    purge,     \* the run of the job: what it read, and what it is deleting
    erasing,   \* accounts found to have left nothing, not yet erased
    trail,     \* AuditLog: what the last RECORD_PURGED entry says went, and did
    late       \* ghost: events recorded by an account while it was being erased

company == <<today, declared, zone>>
register == <<event, request>>
accounts == <<manager, erasing>>
vars == <<company, register, accounts, purge, trail, late>>

There(e) == event[e] # Nothing
Open(q)  == request[q] # Nothing /\ request[q].open

\* MUTANT: the column is believed.
YearsDeclared == declared

\* first_day_kept: the anniversary, and the day before when the year asked for
\* has no 29th of February.
Years == IF declared > Floor THEN declared ELSE Floor

FirstDayKept == today - Years - (IF today \in LeapDays THEN 1 ELSE 0)

Expired(e, cutoff) == There(e) /\ event[e].day < cutoff
HeldNow(e)         == \E q \in Requests : Open(q) /\ request[q].target = e

-----------------------------------------------------------------------------
(* Punch.compute_hash and verify_hash *)

\* What each version of the seal pins down, of what may change afterwards: the
\* first had the address, the next who recorded it, and those before the fourth
\* the time as it was written on some clock.
Sealed(version) ==
    (IF version = 1 THEN {"metadata"} ELSE {"recorder"})
        \cup (IF version < 4 THEN {"wall"} ELSE {})

StillSays(e, field) ==
    CASE field = "metadata" -> event[e].metadata
      [] field = "recorder" -> event[e].recorder # Nothing
      [] field = "wall"     -> event[e].zone \in {zone, CompanyZone}

VerifyHash(e) == \A field \in Sealed(event[e].version) : StillSays(e, field)

-----------------------------------------------------------------------------

Init ==
    /\ today = 0 /\ declared = Floor /\ zone = CompanyZone
    /\ event = [e \in Events |->
                  IF e \in DOMAIN OnPaper
                  THEN [day |-> OnPaper[e].day, version |-> OnPaper[e].version,
                        zone |-> OnPaper[e].zone, recorder |-> Self, metadata |-> TRUE]
                  ELSE Nothing]
    /\ request = [q \in Requests |-> Nothing]
    /\ manager = Managers /\ erasing = {}
    /\ purge = Nothing /\ trail = Nothing /\ late = {}

\* A new day, with no job left from the night before.
Tick ==
    /\ today < LastDay /\ purge = Nothing
    /\ today' = today + 1
    /\ UNCHANGED <<declared, zone, register, accounts, purge, trail, late>>

\* From the settings, where fewer years than four are refused, or by any other way.
Declare(n) ==
    /\ n # declared
    /\ declared' = n
    /\ UNCHANGED <<today, zone, register, accounts, purge, trail, late>>

\* The person's workplace changes, and their zone with it.
Move(z) ==
    /\ z # zone
    /\ zone' = z
    /\ UNCHANGED <<today, declared, register, accounts, purge, trail, late>>

\* Something reached the register while the job was at work.
Stirred == IF purge = Nothing THEN Nothing ELSE [purge EXCEPT !.stirred = TRUE]

\* An event reaches the register, today's or one that a correction or an import
\* brings from long ago.  It is sealed with the last version.
Arrive(e, d, by) ==
    /\ ~There(e) /\ e \notin DOMAIN OnPaper
    /\ d <= today
    /\ by \in manager \cup {Self}
    /\ event' = [event EXCEPT ![e] = [day |-> d, version |-> 5, zone |-> zone,
                                      recorder |-> by, metadata |-> TRUE]]
    /\ late' = IF by \in erasing THEN late \cup {e} ELSE late
    /\ purge' = Stirred
    /\ UNCHANGED <<company, request, accounts, trail>>

\* A correction is asked for: PunchCorrection.target is a key the database checks.
File(q, e) ==
    /\ request[q] = Nothing /\ There(e)
    /\ request' = [request EXCEPT ![q] = [target |-> e, open |-> TRUE]]
    /\ purge' = Stirred
    /\ UNCHANGED <<company, event, accounts, trail, late>>

\* It is resolved or withdrawn; the event it was about stays in the register,
\* in force or not.
Resolve(q) ==
    /\ Open(q)
    /\ request' = [request EXCEPT ![q].open = FALSE]
    /\ UNCHANGED <<company, event, accounts, purge, trail, late>>

-----------------------------------------------------------------------------
(* Erasing an account: rastro_de and UserViewSet.erase *)

LeftNothing(m) == \A e \in Events : There(e) => event[e].recorder # m

AskToErase(m) ==
    /\ m \in manager \ erasing /\ LeftNothing(m)
    /\ erasing' = erasing \cup {m}
    /\ UNCHANGED <<company, register, manager, purge, trail, late>>

\* Punch.recorded_by is SET_NULL.
Erase(m) ==
    /\ m \in erasing
    /\ manager' = manager \ {m} /\ erasing' = erasing \ {m}
    /\ event' = [e \in Events |-> IF There(e) /\ event[e].recorder = m
                                  THEN [event[e] EXCEPT !.recorder = Nothing] ELSE event[e]]
    /\ UNCHANGED <<company, request, purge, trail, late>>

GiveUpErasing(m) ==
    /\ m \in erasing
    /\ erasing' = erasing \ {m}
    /\ UNCHANGED <<company, register, manager, purge, trail, late>>

-----------------------------------------------------------------------------
(* purge_expired_records *)

\* MUTANT: whatever is asked about an event, it goes with it.
HeldByNothing == {}

\* Which events are not touched, read once before anything is deleted.
Held == {e \in Events : HeldNow(e)}

Deletable == {e \in Events : Expired(e, purge.cutoff)} \ purge.held

\* MUTANT: the count is taken before setting the held events apart.
LookCountingAll ==
    /\ purge = Nothing
    /\ LET gone == {e \in Events : Expired(e, FirstDayKept)} IN
       /\ gone # {}
       /\ purge' = [cutoff |-> FirstDayKept, held |-> Held, years |-> declared,
                    count |-> Cardinality(gone), went |-> 0, stirred |-> FALSE,
                    stage |-> "looked", requests |-> {}]
    /\ UNCHANGED <<company, register, accounts, trail, late>>

\* The row of the company, the cut, the held events and the count.
LookAtCompany ==
    /\ purge = Nothing
    /\ LET gone == {e \in Events : Expired(e, FirstDayKept)} \ Held IN
       /\ gone # {}
       /\ purge' = [cutoff |-> FirstDayKept, held |-> Held, years |-> declared,
                    count |-> Cardinality(gone), went |-> 0, stirred |-> FALSE,
                    stage |-> "looked", requests |-> {}]
    /\ UNCHANGED <<company, register, accounts, trail, late>>

\* In the transaction, the requests first, because their key protects the event.
DropRequests ==
    /\ purge # Nothing /\ purge.stage = "looked"
    /\ purge' = [purge EXCEPT !.stage = "dropping",
                   !.requests = {q \in Requests : request[q] # Nothing
                                                    /\ request[q].target \in Deletable}]
    /\ UNCHANGED <<company, register, accounts, trail, late>>

\* A request that arrived after those were dropped.
Protected ==
    \E q \in Requests \ purge.requests : request[q] # Nothing /\ request[q].target \in Deletable

\* The events, and the commit.
DropEvents ==
    /\ purge # Nothing /\ purge.stage = "dropping" /\ ~Protected
    /\ event' = [e \in Events |-> IF e \in Deletable THEN Nothing ELSE event[e]]
    /\ request' = [q \in Requests |-> IF q \in purge.requests THEN Nothing ELSE request[q]]
    /\ purge' = [purge EXCEPT !.stage = "noting", !.went = Cardinality(Deletable)]
    /\ UNCHANGED <<company, accounts, trail, late>>

\* record() saves its entry once the transaction has committed.
Note ==
    /\ purge # Nothing /\ purge.stage = "noting"
    /\ trail' = [said |-> purge.count, went |-> purge.went, stirred |-> purge.stirred]
    /\ purge' = Nothing
    /\ UNCHANGED <<company, register, accounts, late>>

\* ProtectedError: the transaction is undone, and the whole run with it.
Refused ==
    /\ purge # Nothing /\ purge.stage = "dropping" /\ Protected
    /\ purge' = Nothing
    /\ UNCHANGED <<company, register, accounts, trail, late>>

\* The process dies: nothing is deleted, or the deletion stands and its entry is
\* missing.
Die ==
    /\ purge # Nothing
    /\ purge' = Nothing
    /\ UNCHANGED <<company, register, accounts, trail, late>>

-----------------------------------------------------------------------------
(* purge_security_metadata *)

\* MUTANT: the first version of the seal is not left alone.
PurgeableAll(e) == There(e) /\ event[e].metadata /\ event[e].day < today - MetadataDays

Purgeable(e) ==
    /\ There(e) /\ event[e].metadata
    /\ event[e].day < today - MetadataDays
    /\ event[e].version # 1

PurgeMetadata ==
    /\ \E e \in Events : Purgeable(e)
    /\ event' = [e \in Events |-> IF Purgeable(e) THEN [event[e] EXCEPT !.metadata = FALSE]
                                  ELSE event[e]]
    /\ UNCHANGED <<company, request, accounts, purge, trail, late>>

-----------------------------------------------------------------------------

Next ==
    \/ Tick
    \/ \E n \in Declarable : Declare(n)
    \/ \E z \in Zones : Move(z)
    \/ \E e \in Events, d \in Days, by \in Managers \cup {Self} : Arrive(e, d, by)
    \/ \E q \in Requests : (\E e \in Events : File(q, e)) \/ Resolve(q)
    \/ \E m \in Managers : AskToErase(m) \/ Erase(m) \/ GiveUpErasing(m)
    \/ LookAtCompany \/ DropRequests \/ DropEvents \/ Refused \/ Note \/ Die
    \/ PurgeMetadata

Spec == Init /\ [][Next]_vars

-----------------------------------------------------------------------------

TypeOK ==
    /\ today \in 0 .. LastDay /\ declared \in Declarable /\ zone \in Zones
    /\ event \in [Events -> EventRows \cup {Nothing}]
    /\ request \in [Requests -> RequestRows \cup {Nothing}]
    /\ manager \subseteq Managers /\ erasing \subseteq Managers
    /\ late \subseteq Events

\* Art. 34.9: no event goes before the legal floor, whatever number the column
\* holds, nor before the period declared when the job read the company.
NothingGoesEarly ==
    [][\A e \in Events : (There(e) /\ event'[e] = Nothing)
          => /\ today - event[e].day > Floor
             /\ today - event[e].day > purge.years]_vars

\* A change nobody resolved is not a closed record: its request and its event
\* stay, unless it was filed while the job was already deleting
\* (purge_expired_records.py:27-30).
OpenRequestsKeepTheirEvent ==
    [][\A q \in Requests : (Open(q) /\ request'[q] = Nothing) => purge.stirred]_vars

\* The entry that stays as the evidence of a deletion says how many events went,
\* unless something reached the register while the job was at work
\* (purge_expired_records.py:124 counts before the transaction).
TrailCountsWhatWent ==
    trail # Nothing => trail.stirred \/ trail.said = trail.went

\* Nothing the program does breaks the seal of an event it did not touch: not
\* the metadata purge, nor the erasure of who recorded it, nor a change of
\* workplace.  What it does break is named: the wall clock of the old versions,
\* and what an account records while it is being erased.
SealsHold ==
    \A e \in Events : There(e) =>
        \/ VerifyHash(e)
        \/ event[e].version < 4 /\ event[e].zone \notin {zone, CompanyZone}
        \/ e \in late
=============================================================================
