-------------------------- MODULE RetentionProofs --------------------------
(***************************************************************************)
(* Proofs about the years of the register, for any company, calendar and   *)
(* events on paper.                                                        *)
(*                                                                         *)
(* The seals rest on two facts of the erasure: an account found to have    *)
(* left nothing records nothing but late events until it is gone, and only *)
(* those lose who recorded them.  The purge rests on what its run read:    *)
(* its cut lies before the legal floor, and while nothing reaches the      *)
(* register, what it would delete is what it counted and what it holds     *)
(* covers every open request.                                              *)
(***************************************************************************)
EXTENDS Retention, TLAPS, FiniteSetTheorems

PurgeRows ==
    [cutoff : Int, held : SUBSET Events, years : Nat, count : Nat, went : Nat,
     stirred : BOOLEAN, stage : {"looked", "dropping", "noting"}, requests : SUBSET Requests]

Running == purge # Nothing
Alone   == Running /\ ~purge.stirred

\* What may break a seal has not happened, or has been named.
FirstVersionKeepsMetadata == \A e \in Events : There(e) /\ event[e].version = 1 => event[e].metadata
LosersAreLate ==
    \A e \in Events : There(e) /\ event[e].recorder \in erasing \cup {Nothing} => e \in late

\* What the run of the purge read.
PurgeTyped  == Running => purge \in PurgeRows
CutIsLawful == Running => /\ purge.cutoff <= today - Floor
                          /\ purge.cutoff <= today - purge.years
HoldsOpen   == Alone => \A q \in Requests : Open(q) => request[q].target \in purge.held
DropsUnheld ==
    Running /\ purge.stage = "dropping" =>
        \A q \in purge.requests : request[q] # Nothing /\ request[q].target \notin purge.held
CountStands ==
    Alone => /\ purge.stage # "noting" => purge.count = Cardinality(Deletable)
             /\ purge.stage = "noting" => purge.count = purge.went

SealInv  == TypeOK /\ FirstVersionKeepsMetadata /\ LosersAreLate
PurgeInv == /\ TypeOK /\ PurgeTyped /\ CutIsLawful /\ HoldsOpen /\ DropsUnheld
            /\ CountStands /\ TrailCountsWhatWent

-----------------------------------------------------------------------------
(* Types                                                                   *)

\* The facts about the constants that the proofs use.
LEMMA Constants ==
  ASSUME RetentionAssumption
  PROVE  /\ Floor \in Nat /\ Declarable \subseteq Nat /\ Floor \in Declarable
         /\ CompanyZone \in Zones /\ Nothing \notin Managers /\ Nothing # Self
         /\ Nothing \notin EventRows /\ Nothing \notin RequestRows
         /\ Self \notin Managers /\ IsFiniteSet(Events) /\ Days \subseteq Nat
  BY DEF RetentionAssumption

LEMMA InitType == ASSUME RetentionAssumption, Init PROVE TypeOK
<1> USE Constants DEF Init
<1>1. event \in [Events -> EventRows \cup {Nothing}]
  BY DEF RetentionAssumption, EventRows
<1>2. today \in 0 .. LastDay
  BY DEF RetentionAssumption
<1> QED
  BY <1>1, <1>2 DEF TypeOK

LEMMA EraseRows ==
  ASSUME RetentionAssumption, TypeOK, NEW m \in Managers, Erase(m)
  PROVE  /\ event' \in [Events -> EventRows \cup {Nothing}]
         /\ \A e \in Events :
               /\ There(e)' <=> There(e)
               /\ There(e) => /\ event'[e].day = event[e].day
                              /\ event'[e].version = event[e].version
                              /\ event'[e].metadata = event[e].metadata
                              /\ event'[e].recorder =
                                    IF event[e].recorder = m THEN Nothing ELSE event[e].recorder
<1> SUFFICES ASSUME NEW e \in Events
             PROVE  /\ event'[e] \in EventRows \cup {Nothing}
                    /\ There(e)' <=> There(e)
                    /\ There(e) => /\ event'[e].day = event[e].day
                                   /\ event'[e].version = event[e].version
                                   /\ event'[e].metadata = event[e].metadata
                                   /\ event'[e].recorder =
                                         IF event[e].recorder = m THEN Nothing ELSE event[e].recorder
  BY DEF Erase
<1>1. CASE There(e) /\ event[e].recorder = m
  <2>1. event[e] \in EventRows /\ event'[e] = [event[e] EXCEPT !.recorder = Nothing]
    BY <1>1 DEF TypeOK, There, Erase
  <2>2. event'[e] \in EventRows
    BY <2>1 DEF EventRows
  <2> QED
    BY <1>1, <2>1, <2>2, Constants DEF There, EventRows
<1>2. CASE ~(There(e) /\ event[e].recorder = m)
  BY <1>2 DEF TypeOK, There, Erase
<1> QED
  BY <1>1, <1>2

LEMMA MetadataRows ==
  ASSUME RetentionAssumption, TypeOK, PurgeMetadata
  PROVE  /\ event' \in [Events -> EventRows \cup {Nothing}]
         /\ \A e \in Events :
               /\ There(e)' <=> There(e)
               /\ There(e) => /\ event'[e].day = event[e].day
                              /\ event'[e].version = event[e].version
                              /\ event'[e].recorder = event[e].recorder
                              /\ event'[e].version = 1 => event'[e].metadata = event[e].metadata
<1> SUFFICES ASSUME NEW e \in Events
             PROVE  /\ event'[e] \in EventRows \cup {Nothing}
                    /\ There(e)' <=> There(e)
                    /\ There(e) => /\ event'[e].day = event[e].day
                                   /\ event'[e].version = event[e].version
                                   /\ event'[e].recorder = event[e].recorder
                                   /\ event'[e].version = 1 => event'[e].metadata = event[e].metadata
  BY DEF PurgeMetadata
<1>1. CASE Purgeable(e)
  <2>1. event[e] \in EventRows /\ event'[e] = [event[e] EXCEPT !.metadata = FALSE]
    BY <1>1 DEF TypeOK, There, PurgeMetadata, Purgeable
  <2>2. event'[e] \in EventRows
    BY <2>1 DEF EventRows
  <2> QED
    BY <1>1, <2>1, <2>2, Constants DEF There, EventRows, Purgeable
<1>2. CASE ~Purgeable(e)
  BY <1>2 DEF TypeOK, There, PurgeMetadata
<1> QED
  BY <1>1, <1>2

\* An event that arrives: the others stay as they are.
LEMMA ArriveRows ==
  ASSUME RetentionAssumption, TypeOK, NEW n \in Events, NEW d \in Days,
         NEW by \in Managers \cup {Self}, Arrive(n, d, by)
  PROVE  /\ event' \in [Events -> EventRows \cup {Nothing}]
         /\ \A e \in Events \ {n} : event'[e] = event[e]
         /\ There(n)' /\ ~There(n) /\ event'[n].version = 5 /\ event'[n].recorder = by
         /\ late \subseteq late' /\ late' \subseteq Events /\ (by \in erasing => n \in late')
<1> DEFINE row == [day |-> d, version |-> 5, zone |-> zone, recorder |-> by, metadata |-> TRUE]
<1>1. row \in EventRows
  BY Constants DEF EventRows, TypeOK
<1>2. event' = [event EXCEPT ![n] = row]
  BY DEF Arrive
<1> HIDE DEF row
<1>3. event'[n] = row /\ \A e \in Events \ {n} : event'[e] = event[e]
  BY <1>2 DEF TypeOK
<1>4. row.version = 5 /\ row.recorder = by
  BY DEF row
<1> QED
  BY <1>1, <1>2, <1>3, <1>4, Constants DEF TypeOK, There, Arrive

LEMMA RequestsStay ==
  ASSUME RetentionAssumption, TypeOK, NEW q \in Requests
  PROVE  /\ \A e \in Events : File(q, e) =>
              /\ request' \in [Requests -> RequestRows \cup {Nothing}]
              /\ request'[q] = [target |-> e, open |-> TRUE] /\ request'[q] # Nothing
              /\ request[q] = Nothing
              /\ \A p \in Requests \ {q} : request'[p] = request[p]
         /\ Resolve(q) =>
              /\ request' \in [Requests -> RequestRows \cup {Nothing}]
              /\ request[q] # Nothing /\ request'[q] # Nothing /\ ~request'[q].open
              /\ request'[q].target = request[q].target
              /\ \A p \in Requests \ {q} : request'[p] = request[p]
<1>1. ASSUME NEW e \in Events, File(q, e)
      PROVE  /\ request' \in [Requests -> RequestRows \cup {Nothing}]
             /\ request'[q] = [target |-> e, open |-> TRUE] /\ request'[q] # Nothing
             /\ request[q] = Nothing
             /\ \A p \in Requests \ {q} : request'[p] = request[p]
  <2>1. [target |-> e, open |-> TRUE] \in RequestRows
    BY DEF RequestRows
  <2> QED
    BY <1>1, <2>1, Constants DEF File, TypeOK
<1>2. ASSUME Resolve(q)
      PROVE  /\ request' \in [Requests -> RequestRows \cup {Nothing}]
             /\ request[q] # Nothing /\ request'[q] # Nothing /\ ~request'[q].open
             /\ request'[q].target = request[q].target
             /\ \A p \in Requests \ {q} : request'[p] = request[p]
  <2>1. request[q] \in RequestRows /\ request[q] # Nothing
    BY <1>2 DEF Resolve, Open, TypeOK
  <2>2. request' = [request EXCEPT ![q].open = FALSE]
    BY <1>2 DEF Resolve
  <2>3. request'[q] = [request[q] EXCEPT !.open = FALSE]
    BY <2>2 DEF TypeOK
  <2>4. request'[q] \in RequestRows /\ ~request'[q].open /\ request'[q].target = request[q].target
    BY <2>1, <2>3 DEF RequestRows
  <2> QED
    BY <2>1, <2>2, <2>4, Constants DEF TypeOK
<1> QED
  BY <1>1, <1>2

LEMMA NextType == ASSUME RetentionAssumption, TypeOK, [Next]_vars PROVE TypeOK'
<1> USE Constants
<1>1. CASE Tick
  BY <1>1 DEF Tick, TypeOK, register, accounts, RetentionAssumption
<1>2. ASSUME NEW n \in Declarable, Declare(n) PROVE TypeOK'
  BY <1>2 DEF Declare, TypeOK, register, accounts
<1>3. ASSUME NEW z \in Zones, Move(z) PROVE TypeOK'
  BY <1>3 DEF Move, TypeOK, register, accounts
<1>4. ASSUME NEW e \in Events, NEW d \in Days, NEW by \in Managers \cup {Self}, Arrive(e, d, by)
      PROVE  TypeOK'
  <2>1. UNCHANGED <<company, request, accounts>>
    BY <1>4 DEF Arrive
  <2> QED
    BY <1>4, <2>1, ArriveRows DEF TypeOK, company, accounts
<1>5. ASSUME NEW q \in Requests, NEW e \in Events, File(q, e) PROVE TypeOK'
  <2>1. UNCHANGED <<company, event, accounts, late>>
    BY <1>5 DEF File
  <2> QED
    BY <1>5, <2>1, RequestsStay DEF TypeOK, company, accounts
<1>6. ASSUME NEW q \in Requests, Resolve(q) PROVE TypeOK'
  <2>1. UNCHANGED <<company, event, accounts, late>>
    BY <1>6 DEF Resolve
  <2> QED
    BY <1>6, <2>1, RequestsStay DEF TypeOK, company, accounts
<1>7. ASSUME NEW m \in Managers, AskToErase(m) PROVE TypeOK'
  BY <1>7 DEF AskToErase, TypeOK, company, register
<1>8. ASSUME NEW m \in Managers, Erase(m) PROVE TypeOK'
  <2>1. UNCHANGED <<company, request, late>> /\ manager' \subseteq manager /\ erasing' \subseteq erasing
    BY <1>8 DEF Erase
  <2> QED
    BY <1>8, <2>1, EraseRows DEF TypeOK, company
<1>9. ASSUME NEW m \in Managers, GiveUpErasing(m) PROVE TypeOK'
  BY <1>9 DEF GiveUpErasing, TypeOK, company, register
<1>10. CASE LookAtCompany
  BY <1>10 DEF LookAtCompany, TypeOK, company, register, accounts
<1>11. CASE DropRequests
  BY <1>11 DEF DropRequests, TypeOK, company, register, accounts
<1>12. CASE DropEvents
  BY <1>12 DEF DropEvents, TypeOK, company, accounts
<1>13. CASE Note \/ Refused \/ Die
  BY <1>13 DEF Note, Refused, Die, TypeOK, company, register, accounts
<1>14. CASE PurgeMetadata
  <2>1. UNCHANGED <<company, request, accounts, late>>
    BY <1>14 DEF PurgeMetadata
  <2> QED
    BY <1>14, <2>1, MetadataRows DEF TypeOK, company, accounts
<1>15. CASE UNCHANGED vars
  BY <1>15 DEF vars, TypeOK, company, register, accounts
<1> QED
  BY <1>1, <1>2, <1>3, <1>4, <1>5, <1>6, <1>7, <1>8, <1>9, <1>10, <1>11, <1>12, <1>13, <1>14,
     <1>15 DEF Next

-----------------------------------------------------------------------------
(* The seals                                                               *)

LEMMA InitSeals == ASSUME RetentionAssumption, Init PROVE SealInv
<1>1. \A e \in Events : There(e) => event[e].metadata /\ event[e].recorder = Self
  BY DEF Init, There
<1> QED
  BY <1>1, InitType, Constants DEF SealInv, FirstVersionKeepsMetadata, LosersAreLate, Init

LEMMA NextSeals == ASSUME RetentionAssumption, SealInv, [Next]_vars PROVE SealInv'
<1> USE Constants
<1> TypeOK /\ TypeOK'
  BY NextType DEF SealInv
<1> SUFFICES FirstVersionKeepsMetadata' /\ LosersAreLate'
  BY DEF SealInv
<1> USE DEF SealInv
<1>1. CASE UNCHANGED <<event, erasing, late>>
  BY <1>1 DEF FirstVersionKeepsMetadata, LosersAreLate, There
<1>2. ASSUME NEW n \in Events, NEW d \in Days, NEW by \in Managers \cup {Self}, Arrive(n, d, by)
      PROVE  FirstVersionKeepsMetadata' /\ LosersAreLate'
  <2>1. erasing' = erasing
    BY <1>2 DEF Arrive, accounts
  <2> QED
    BY <1>2, <2>1, ArriveRows DEF FirstVersionKeepsMetadata, LosersAreLate, There
<1>3. ASSUME NEW m \in Managers, AskToErase(m) PROVE FirstVersionKeepsMetadata' /\ LosersAreLate'
  <2>1. LeftNothing(m) /\ erasing' = erasing \cup {m} /\ UNCHANGED <<event, late>>
    BY <1>3 DEF AskToErase, register
  <2> QED
    BY <2>1 DEF FirstVersionKeepsMetadata, LosersAreLate, There, LeftNothing
<1>4. ASSUME NEW m \in Managers, Erase(m) PROVE FirstVersionKeepsMetadata' /\ LosersAreLate'
  <2>1. m \in erasing /\ erasing' = erasing \ {m} /\ late' = late
    BY <1>4 DEF Erase
  <2> QED
    BY <1>4, <2>1, EraseRows DEF FirstVersionKeepsMetadata, LosersAreLate
<1>5. ASSUME NEW m \in Managers, GiveUpErasing(m)
      PROVE  FirstVersionKeepsMetadata' /\ LosersAreLate'
  <2>1. erasing' = erasing \ {m} /\ UNCHANGED <<event, late>>
    BY <1>5 DEF GiveUpErasing, register
  <2> QED
    BY <2>1 DEF FirstVersionKeepsMetadata, LosersAreLate, There
<1>6. CASE DropEvents
  <2>1. /\ erasing' = erasing /\ late' = late
        /\ \A e \in Events : event'[e] = Nothing \/ event'[e] = event[e]
    BY <1>6 DEF DropEvents, accounts
  <2> QED
    BY <2>1 DEF FirstVersionKeepsMetadata, LosersAreLate, There
<1>7. CASE PurgeMetadata
  <2>1. erasing' = erasing /\ late' = late
    BY <1>7 DEF PurgeMetadata, accounts
  <2> QED
    BY <1>7, <2>1, MetadataRows DEF FirstVersionKeepsMetadata, LosersAreLate
<1>8. CASE Tick \/ LookAtCompany \/ DropRequests \/ Refused \/ Note \/ Die
  BY <1>8, <1>1 DEF Tick, LookAtCompany, DropRequests, Refused, Note, Die, register, accounts
<1>9. ASSUME NEW n \in Declarable, Declare(n) PROVE UNCHANGED <<event, erasing, late>>
  BY <1>9 DEF Declare, register, accounts
<1>10. ASSUME NEW z \in Zones, Move(z) PROVE UNCHANGED <<event, erasing, late>>
  BY <1>10 DEF Move, register, accounts
<1>11. ASSUME NEW q \in Requests, Resolve(q) \/ \E e \in Events : File(q, e)
       PROVE  UNCHANGED <<event, erasing, late>>
  BY <1>11 DEF File, Resolve, accounts
<1>12. CASE UNCHANGED vars
  BY <1>12, <1>1 DEF vars, register, accounts
<1> QED
  BY <1>1, <1>2, <1>3, <1>4, <1>5, <1>6, <1>7, <1>8, <1>9, <1>10, <1>11, <1>12 DEF Next

LEMMA SealsFollow == ASSUME SealInv PROVE SealsHold
<1> SUFFICES ASSUME NEW e \in Events, There(e),
                    ~(event[e].version < 4 /\ event[e].zone \notin {zone, CompanyZone}), e \notin late
             PROVE  VerifyHash(e)
  BY DEF SealsHold
<1>1. event[e].recorder # Nothing /\ (event[e].version = 1 => event[e].metadata)
  BY DEF SealInv, FirstVersionKeepsMetadata, LosersAreLate
<1>2. event[e].version < 4 => event[e].zone \in {zone, CompanyZone}
  OBVIOUS
<1> SUFFICES ASSUME NEW field \in Sealed(event[e].version) PROVE StillSays(e, field)
  BY DEF VerifyHash
<1>3. CASE field = "metadata"
  BY <1>1, <1>3 DEF Sealed, StillSays
<1>4. CASE field = "recorder"
  BY <1>1, <1>4 DEF StillSays
<1>5. CASE field = "wall"
  BY <1>2, <1>5 DEF Sealed, StillSays
<1> QED
  BY <1>3, <1>4, <1>5 DEF Sealed

-----------------------------------------------------------------------------
(* The purge                                                               *)

LEMMA DeletableCount ==
  ASSUME RetentionAssumption
  PROVE  /\ Cardinality(Deletable) \in Nat
         /\ \A S \in SUBSET Events : Cardinality(S) \in Nat
<1>1. \A S \in SUBSET Events : Cardinality(S) \in Nat
  BY Constants, FS_Subset, FS_CardinalityType
<1> QED
  BY <1>1 DEF Deletable

LEMMA InitPurge == ASSUME RetentionAssumption, Init PROVE PurgeInv
<1>1. ~Running /\ ~Alone /\ trail = Nothing
  BY DEF Running, Alone, Init
<1> QED
  BY <1>1, InitType DEF PurgeInv, PurgeTyped, CutIsLawful, HoldsOpen, DropsUnheld, CountStands,
                        TrailCountsWhatWent

\* A step that neither the job takes nor the register grows by: requests may be
\* resolved, and rows keep their day.
LEMMA OthersKeepPurge ==
  ASSUME RetentionAssumption, PurgeInv, TypeOK', UNCHANGED <<purge, trail>>,
         Running => today' = today,
         \A e \in Events : /\ There(e)' <=> There(e)
                           /\ There(e) => event'[e].day = event[e].day,
         \A q \in Requests : /\ request'[q] # Nothing <=> request[q] # Nothing
                             /\ Open(q)' => Open(q)
                             /\ request[q] # Nothing => request'[q].target = request[q].target
  PROVE  PurgeInv'
<1> USE DEF PurgeInv
<1>1. PurgeTyped' /\ CutIsLawful'
  BY DEF PurgeTyped, CutIsLawful, Running
<1>2. HoldsOpen'
  BY DEF HoldsOpen, Alone, Running, Open
<1>3. DropsUnheld'
  <2> SUFFICES ASSUME Running, purge.stage = "dropping", NEW q \in purge.requests
               PROVE  request'[q] # Nothing /\ request'[q].target \notin purge.held
    BY DEF DropsUnheld, Running
  <2>1. q \in Requests /\ request[q] # Nothing /\ request[q].target \notin purge.held
    BY DEF DropsUnheld, PurgeTyped, PurgeRows
  <2> QED
    BY <2>1
<1>4. CountStands'
  <2>1. Deletable' = Deletable
    BY DEF Deletable, Expired
  <2> QED
    BY <2>1 DEF CountStands, Alone, Running
<1>5. TrailCountsWhatWent'
  BY DEF TrailCountsWhatWent
<1> QED
  BY <1>1, <1>2, <1>3, <1>4, <1>5

\* A step that reaches the register while the job is at work.
LEMMA StirredKeepsPurge ==
  ASSUME RetentionAssumption, PurgeInv, TypeOK', purge' = Stirred, UNCHANGED <<today, trail>>,
         \A q \in Requests : request[q] # Nothing => request'[q] = request[q]
  PROVE  PurgeInv'
<1> USE DEF PurgeInv
<1>1. CASE ~Running
  <2>1. ~Running' /\ ~Alone'
    BY <1>1 DEF Running, Stirred, Alone
  <2> QED
    BY <2>1 DEF PurgeTyped, CutIsLawful, HoldsOpen, DropsUnheld, CountStands, TrailCountsWhatWent
<1>2. CASE Running
  <2>1. purge \in PurgeRows /\ purge' = [purge EXCEPT !.stirred = TRUE]
    BY <1>2 DEF Running, Stirred, PurgeTyped
  <2>2. /\ purge' \in PurgeRows /\ purge'.stirred
        /\ purge'.cutoff = purge.cutoff /\ purge'.years = purge.years
        /\ purge'.held = purge.held /\ purge'.stage = purge.stage
        /\ purge'.requests = purge.requests
    BY <2>1 DEF PurgeRows
  <2>3. ~Alone'
    BY <2>2 DEF Alone
  <2>4. DropsUnheld'
    <3> SUFFICES ASSUME purge.stage = "dropping", NEW q \in purge.requests
                 PROVE  request'[q] # Nothing /\ request'[q].target \notin purge.held
      BY <2>2 DEF DropsUnheld
    <3>1. q \in Requests /\ request[q] # Nothing /\ request[q].target \notin purge.held
      BY <1>2, <2>1 DEF DropsUnheld, PurgeRows
    <3> QED
      BY <3>1
  <2> QED
    BY <1>2, <2>2, <2>3, <2>4 DEF PurgeTyped, CutIsLawful, HoldsOpen, CountStands,
                                  TrailCountsWhatWent
<1> QED
  BY <1>1, <1>2

LEMMA LookKeepsPurge ==
  ASSUME RetentionAssumption, PurgeInv, TypeOK', LookAtCompany
  PROVE  PurgeInv'
<1> USE DEF PurgeInv
<1> DEFINE gone == {e \in Events : Expired(e, FirstDayKept)} \ Held
<1>1. /\ purge' = [cutoff |-> FirstDayKept, held |-> Held, years |-> declared,
                   count |-> Cardinality(gone), went |-> 0, stirred |-> FALSE,
                   stage |-> "looked", requests |-> {}]
      /\ UNCHANGED <<today, declared, event, request, trail>>
  BY DEF LookAtCompany, company, register
<1>2. /\ purge'.cutoff = FirstDayKept /\ purge'.held = Held /\ purge'.years = declared
      /\ purge'.count = Cardinality(gone) /\ purge'.stage = "looked" /\ purge'.requests = {}
      /\ purge'.went = 0 /\ purge'.stirred = FALSE
  BY <1>1
<1>3. FirstDayKept \in Int /\ FirstDayKept <= today - Floor /\ FirstDayKept <= today - declared
  BY Constants DEF FirstDayKept, Years, TypeOK
<1>4. Cardinality(gone) \in Nat /\ declared \in Nat /\ Held \subseteq Events
  BY DeletableCount, Constants DEF TypeOK, Held
<1>5. PurgeTyped' /\ CutIsLawful'
  BY <1>1, <1>2, <1>3, <1>4 DEF PurgeTyped, CutIsLawful, PurgeRows
<1>6. HoldsOpen'
  <2> SUFFICES ASSUME NEW q \in Requests, Open(q) PROVE request[q].target \in Held
    BY <1>1, <1>2 DEF HoldsOpen, Open
  <2>1. request[q].target \in Events
    BY DEF Open, TypeOK, RequestRows
  <2> QED
    BY <2>1 DEF Held, HeldNow
<1>7. CountStands'
  <2>1. Deletable' = gone
    BY <1>1, <1>2 DEF Deletable, Expired, There
  <2> QED
    BY <1>2, <2>1 DEF CountStands
<1>8. DropsUnheld' /\ TrailCountsWhatWent'
  BY <1>1, <1>2 DEF DropsUnheld, TrailCountsWhatWent
<1> QED
  BY <1>5, <1>6, <1>7, <1>8

LEMMA DropRequestsKeepsPurge ==
  ASSUME RetentionAssumption, PurgeInv, TypeOK', DropRequests
  PROVE  PurgeInv'
<1> USE DEF PurgeInv
<1> DEFINE those == {q \in Requests : request[q] # Nothing /\ request[q].target \in Deletable}
<1>1. /\ Running /\ purge \in PurgeRows /\ purge.stage = "looked"
      /\ purge' = [purge EXCEPT !.stage = "dropping", !.requests = those]
      /\ UNCHANGED <<today, event, request, trail>>
  BY DEF DropRequests, Running, PurgeTyped, company, register
<1>2. /\ purge' \in PurgeRows /\ purge'.stage = "dropping" /\ purge'.requests = those
      /\ purge'.cutoff = purge.cutoff /\ purge'.held = purge.held /\ purge'.years = purge.years
      /\ purge'.count = purge.count /\ purge'.stirred = purge.stirred
  <2> HIDE DEF those
  <2>1. those \subseteq Requests
    BY DEF those
  <2> QED
    BY <1>1, <2>1 DEF PurgeRows
<1>3. PurgeTyped' /\ CutIsLawful'
  BY <1>1, <1>2 DEF PurgeTyped, CutIsLawful
<1>4. HoldsOpen'
  BY <1>1, <1>2 DEF HoldsOpen, Alone, Open
<1>5. DropsUnheld'
  BY <1>1, <1>2 DEF DropsUnheld, Deletable
<1>6. CountStands'
  <2>1. Deletable' = Deletable
    BY <1>1, <1>2 DEF Deletable, Expired, There
  <2> QED
    BY <1>1, <1>2, <2>1 DEF CountStands, Alone
<1> QED
  BY <1>1, <1>3, <1>4, <1>5, <1>6 DEF TrailCountsWhatWent

LEMMA DropEventsKeepsPurge ==
  ASSUME RetentionAssumption, PurgeInv, TypeOK', DropEvents
  PROVE  PurgeInv'
<1> USE DEF PurgeInv
<1>1. /\ Running /\ purge \in PurgeRows /\ purge.stage = "dropping"
      /\ purge' = [purge EXCEPT !.stage = "noting", !.went = Cardinality(Deletable)]
      /\ request' = [q \in Requests |-> IF q \in purge.requests THEN Nothing ELSE request[q]]
      /\ UNCHANGED <<today, trail>>
  BY DEF DropEvents, Running, PurgeTyped, company
<1>2. /\ purge' \in PurgeRows /\ purge'.stage = "noting" /\ purge'.went = Cardinality(Deletable)
      /\ purge'.cutoff = purge.cutoff /\ purge'.held = purge.held /\ purge'.years = purge.years
      /\ purge'.count = purge.count /\ purge'.stirred = purge.stirred
  BY <1>1, DeletableCount DEF PurgeRows
<1>3. PurgeTyped' /\ CutIsLawful' /\ DropsUnheld'
  BY <1>1, <1>2 DEF PurgeTyped, CutIsLawful, DropsUnheld
<1>4. HoldsOpen'
  BY <1>1, <1>2 DEF HoldsOpen, Alone, Open
<1>5. CountStands'
  BY <1>1, <1>2 DEF CountStands, Alone
<1> QED
  BY <1>1, <1>3, <1>4, <1>5 DEF TrailCountsWhatWent

\* The run is over, with its entry or without it.
LEMMA EndKeepsPurge ==
  ASSUME RetentionAssumption, PurgeInv, TypeOK', Note \/ Refused \/ Die
  PROVE  PurgeInv'
<1> USE DEF PurgeInv
<1>1. ~Running' /\ ~Alone'
  BY DEF Note, Refused, Die, Running, Alone
<1>2. TrailCountsWhatWent'
  <2>1. CASE Note
    <3>1. purge.stirred \/ purge.count = purge.went
      BY <2>1 DEF Note, CountStands, Alone, Running
    <3> QED
      BY <2>1, <3>1 DEF Note, TrailCountsWhatWent
  <2>2. CASE Refused \/ Die
    BY <2>2 DEF Refused, Die, TrailCountsWhatWent
  <2> QED
    BY <2>1, <2>2
<1> QED
  BY <1>1, <1>2 DEF PurgeTyped, CutIsLawful, HoldsOpen, DropsUnheld, CountStands

LEMMA NextPurge == ASSUME RetentionAssumption, PurgeInv, [Next]_vars PROVE PurgeInv'
<1> TypeOK /\ TypeOK'
  BY NextType DEF PurgeInv
<1>1. CASE Tick
  BY <1>1, OthersKeepPurge DEF Tick, Running, register, There, Open
<1>2. ASSUME NEW n \in Declarable, Declare(n) PROVE PurgeInv'
  BY <1>2, OthersKeepPurge DEF Declare, register, There, Open
<1>3. ASSUME NEW z \in Zones, Move(z) PROVE PurgeInv'
  BY <1>3, OthersKeepPurge DEF Move, register, There, Open
<1>4. ASSUME NEW e \in Events, NEW d \in Days, NEW by \in Managers \cup {Self}, Arrive(e, d, by)
      PROVE  PurgeInv'
  BY <1>4, StirredKeepsPurge DEF Arrive, company
<1>5. ASSUME NEW q \in Requests, NEW e \in Events, File(q, e) PROVE PurgeInv'
  <2>1. \A p \in Requests : request[p] # Nothing => request'[p] = request[p]
    BY <1>5, RequestsStay
  <2> QED
    BY <1>5, <2>1, StirredKeepsPurge DEF File, company
<1>6. ASSUME NEW q \in Requests, Resolve(q) PROVE PurgeInv'
  <2>1. \A p \in Requests : /\ request'[p] # Nothing <=> request[p] # Nothing
                            /\ Open(p)' => Open(p)
                            /\ request[p] # Nothing => request'[p].target = request[p].target
    BY <1>6, RequestsStay DEF Open
  <2> QED
    BY <1>6, <2>1, OthersKeepPurge DEF Resolve, company, There
<1>7. ASSUME NEW m \in Managers, AskToErase(m) \/ GiveUpErasing(m) PROVE PurgeInv'
  BY <1>7, OthersKeepPurge DEF AskToErase, GiveUpErasing, company, register, There, Open
<1>8. ASSUME NEW m \in Managers, Erase(m) PROVE PurgeInv'
  <2>1. UNCHANGED <<today, request, purge, trail>>
    BY <1>8 DEF Erase, company
  <2> QED
    BY <1>8, <2>1, EraseRows, OthersKeepPurge DEF Open
<1>9. CASE LookAtCompany \/ DropRequests \/ DropEvents \/ Refused \/ Note \/ Die
  BY <1>9, LookKeepsPurge, DropRequestsKeepsPurge, DropEventsKeepsPurge, EndKeepsPurge
<1>10. CASE PurgeMetadata
  <2>1. UNCHANGED <<today, request, purge, trail>>
    BY <1>10 DEF PurgeMetadata, company
  <2> QED
    BY <1>10, <2>1, MetadataRows, OthersKeepPurge DEF Open
<1>11. CASE UNCHANGED vars
  BY <1>11, OthersKeepPurge DEF vars, company, register, There, Open
<1> QED
  BY <1>1, <1>2, <1>3, <1>4, <1>5, <1>6, <1>7, <1>8, <1>9, <1>10, <1>11 DEF Next

\* Only the purge removes a row.
LEMMA OnlyPurgeRemoves ==
  ASSUME RetentionAssumption, TypeOK, [Next]_vars, ~DropEvents
  PROVE  /\ \A e \in Events : There(e) => event'[e] # Nothing
         /\ \A q \in Requests : request[q] # Nothing => request'[q] # Nothing
<1> DEFINE Stay == /\ \A e \in Events : There(e) => event'[e] # Nothing
                   /\ \A q \in Requests : request[q] # Nothing => request'[q] # Nothing
<1>1. CASE UNCHANGED <<event, request>>
  BY <1>1 DEF There
<1>2. CASE Tick \/ LookAtCompany \/ DropRequests \/ Refused \/ Note \/ Die \/ UNCHANGED vars
  BY <1>1, <1>2 DEF Tick, LookAtCompany, DropRequests, Refused, Note, Die, vars, register
<1>3. ASSUME NEW n \in Declarable, Declare(n) PROVE Stay
  BY <1>3, <1>1 DEF Declare, register
<1>4. ASSUME NEW z \in Zones, Move(z) PROVE Stay
  BY <1>4, <1>1 DEF Move, register
<1>5. ASSUME NEW e \in Events, NEW d \in Days, NEW by \in Managers \cup {Self}, Arrive(e, d, by)
      PROVE  Stay
  BY <1>5, ArriveRows DEF Arrive, There
<1>6. ASSUME NEW q \in Requests, Resolve(q) \/ \E e \in Events : File(q, e) PROVE Stay
  <2>1. event' = event
    BY <1>6 DEF Resolve, File
  <2> QED
    BY <1>6, <2>1, RequestsStay DEF There
<1>7. ASSUME NEW m \in Managers, AskToErase(m) \/ GiveUpErasing(m) PROVE Stay
  BY <1>7, <1>1 DEF AskToErase, GiveUpErasing, register
<1>8. ASSUME NEW m \in Managers, Erase(m) PROVE Stay
  BY <1>8, EraseRows DEF Erase, There
<1>9. CASE PurgeMetadata
  BY <1>9, MetadataRows DEF PurgeMetadata, There
<1> QED
  BY <1>2, <1>3, <1>4, <1>5, <1>6, <1>7, <1>8, <1>9 DEF Next

LEMMA RemovedIsDeletable ==
  ASSUME RetentionAssumption, PurgeInv, DropEvents,
         NEW e \in Events, There(e), event'[e] = Nothing
  PROVE  today - event[e].day > Floor /\ today - event[e].day > purge.years
<1>1. e \in Deletable /\ Running /\ purge \in PurgeRows
  BY DEF DropEvents, There, Running, PurgeInv, PurgeTyped
<1>2. event[e].day \in Int /\ event[e].day < purge.cutoff
  BY <1>1 DEF Deletable, Expired, There, PurgeInv, TypeOK, EventRows
<1>3. purge.cutoff <= today - Floor /\ purge.cutoff <= today - purge.years
  BY <1>1 DEF PurgeInv, CutIsLawful
<1>4. purge.cutoff \in Int /\ purge.years \in Nat /\ today \in Int
  BY <1>1 DEF PurgeRows, PurgeInv, TypeOK
<1> QED
  BY <1>2, <1>3, <1>4, Constants

LEMMA RemovedIsResolved ==
  ASSUME PurgeInv, DropEvents, NEW q \in Requests, Open(q), request'[q] = Nothing
  PROVE  purge.stirred
<1>1. Running /\ purge.stage = "dropping" /\ q \in purge.requests
  BY DEF DropEvents, Running, Open
<1>2. request[q].target \notin purge.held
  BY <1>1 DEF PurgeInv, DropsUnheld
<1> QED
  BY <1>1, <1>2 DEF PurgeInv, HoldsOpen, Alone

-----------------------------------------------------------------------------
(* Theorems                                                                *)

\* Types, for any company, calendar and events on paper.
THEOREM TypeCorrect == ASSUME RetentionAssumption PROVE Spec => []TypeOK
<1>1. Init => TypeOK
  BY InitType
<1>2. TypeOK /\ [Next]_vars => TypeOK'
  BY NextType
<1> QED
  BY <1>1, <1>2, PTL DEF Spec

\* The purges, an erasure and a change of workplace break no seal but those
\* named: the wall clock of the old versions, and what an account records while
\* it is being erased.
THEOREM NothingElseBreaksASeal == ASSUME RetentionAssumption PROVE Spec => []SealsHold
<1>1. Init => SealInv
  BY InitSeals
<1>2. SealInv /\ [Next]_vars => SealInv'
  BY NextSeals
<1>3. SealInv => SealsHold
  BY SealsFollow
<1> QED
  BY <1>1, <1>2, <1>3, PTL DEF Spec

\* Art. 34.9: no run of the purge, whatever number the column holds and whatever
\* happens beside it, deletes an event before the legal floor or before the
\* period the company had declared when the run read it.
THEOREM NothingGoesBeforeItsTime == ASSUME RetentionAssumption PROVE Spec => NothingGoesEarly
<1> DEFINE Step ==
      \A e \in Events : (There(e) /\ event'[e] = Nothing)
          => /\ today - event[e].day > Floor
             /\ today - event[e].day > purge.years
<1>1. Init => PurgeInv
  BY InitPurge
<1>2. PurgeInv /\ [Next]_vars => PurgeInv'
  BY NextPurge
<1>3. PurgeInv /\ [Next]_vars => [Step]_vars
  BY OnlyPurgeRemoves, RemovedIsDeletable DEF PurgeInv
<1> QED
  BY <1>1, <1>2, <1>3, PTL DEF Spec, NothingGoesEarly

\* An open request and its event outlive every purge but one during which
\* something else reached the register.
THEOREM OpenRequestsStay == ASSUME RetentionAssumption PROVE Spec => OpenRequestsKeepTheirEvent
<1> DEFINE Step == \A q \in Requests : (Open(q) /\ request'[q] = Nothing) => purge.stirred
<1>1. Init => PurgeInv
  BY InitPurge
<1>2. PurgeInv /\ [Next]_vars => PurgeInv'
  BY NextPurge
<1>3. PurgeInv /\ [Next]_vars => [Step]_vars
  BY OnlyPurgeRemoves, RemovedIsResolved DEF PurgeInv, Open
<1> QED
  BY <1>1, <1>2, <1>3, PTL DEF Spec, OpenRequestsKeepTheirEvent

\* The entry of the audit trail says how many events went, unless something
\* reached the register between the count and the deletion.
THEOREM TheTrailCounts == ASSUME RetentionAssumption PROVE Spec => []TrailCountsWhatWent
<1>1. Init => PurgeInv
  BY InitPurge
<1>2. PurgeInv /\ [Next]_vars => PurgeInv'
  BY NextPurge
<1> QED
  BY <1>1, <1>2, PTL DEF Spec, PurgeInv
=============================================================================
