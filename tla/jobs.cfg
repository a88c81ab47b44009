INIT MCInit
NEXT MCNext
CONSTANTS
    new = new  old = old  older = older  r1 = r1  r2 = r2
    Events = {new, old, older}
    Requests = {paper}
    Managers = {boss}
    OnPaper <- MCOnPaper
    Days = {0}
    Zones = {"Madrid", "Canary"}
    CompanyZone = "Madrid"
    Floor = 1
    Declarable = {0, 1, 2}
    MetadataDays = 1
    LeapDays = {3}
    LastDay = 3
    Nothing = Nothing
INVARIANTS
    SealsHold
PROPERTIES
    NothingGoesEarly
    NudgesAreTrue
CHECK_DEADLOCK FALSE
