SPECIFICATION Spec
CONSTANTS
    ana = ana  luis = luis  evening = evening
    People = {ana, luis}
    Days = {0}
    Shifts = {evening}
    Start <- MCStart
    Strokes <- MCStrokes
    Editors = {e1}
    Jobs = {job}
    Pages = {page}
    Followed = {1}
    Channels = {"emailed"}
    Wait = 1
    DayLength = 2
    MaxTime = 2
    MaxEdits = 2
    MaxMishaps = 1
    Nothing = Nothing
INVARIANTS
    NobodyIsLeftUntold
PROPERTIES
    ImplementsTelling
    EveryChangeIsSettled
CHECK_DEADLOCK FALSE
