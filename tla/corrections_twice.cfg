SPECIFICATION Spec
CONSTANTS
    ana = ana  marta = marta  eva = eva  p1 = p1
    People = {ana, eva}
    Corrections = {c1, c2}
    Entries = {p1}
    Requests = {r1, r2}
    Nothing = Nothing
    EntryOwner <- MCOwner
    Reach <- MCReach
    Roles <- MCFixed
    ConsentDays = 1
    MaxDay = 1
INVARIANTS
    AppliedOncePerEvent
CHECK_DEADLOCK FALSE
