SPECIFICATION FairSpec
CONSTANTS
    ana = ana  marta = marta  eva = eva  p1 = p1
    People = {ana, marta, eva}
    Corrections = {c1}
    Entries = {p1}
    Requests = {r1, r2}
    Nothing = Nothing
    EntryOwner <- MCOwnerAna
    Reach <- MCReach
    Roles <- MCMoving
    ConsentDays = 1
    MaxDay = 1
INVARIANTS
    EveryChangeHasItsPaper
    RecordSaysOneThing
    SomebodyCanAlwaysDecide
PROPERTIES
    ImplementsRecordChange
    EveryDecisionEnds
CHECK_DEADLOCK FALSE
