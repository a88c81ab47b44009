INIT MCInit
NEXT MCNext
SYMMETRY MCSymmetry
CONSTANTS
    Open = Open  Unlimited = Unlimited
    ruler = ruler  l1 = l1  l2 = l2  l3 = l3  e1 = e1  e2 = e2
    Edits = {e1, e2}
    LastDay = 1
    Today = 0
    Caps = {1, 2}
    Rests = {1, 2, 3}
    Floor = 3
    DefaultCap = 1
    Wanted <- MCWishes
    Files <- MCFiles
    CalendarEnd = 7
    YearDays = 4
    MonthDays = 2
    WeekDays = 3
    YearStart = 1
    WorkDays = {0, 1}
    FullYear = 3
    WorkingUnit = TRUE
    ShiftHours = 2
    AgreedDay = 2
    Catalogue <- MCTypes
    Askable <- MCAskable
    Contract <- MCContract
    AskedOn = 1
    Rosters = {2, 4}
    Offs = {3}
    RestMarked <- MCOvertime
    RestTerm = 3
    Rows = {l1, l2, l3}
    Unset = Unset
    Same = Same
    Nothing = Nothing
    Nil = Nil
    DayLength = 6
    MaxOpen = 4
    Margin = 0
    BreakCounts = FALSE
    LookBack = 2
    Shifts <- MCShifts
    FirstRoster <- MCFirstRoster
    Rulers = {ruler}
    Amendments = {"ADD", "MODIFY", "VOID"}
    MaxTime = 8
    MaxEvents = 4
    MaxChanges = 1
    NoOne = NoOne
    DayHours = 24
    ChangeAt = 74
    ChangeBy = 1
    LastDate = 7
    DaysAWeek = 3
    FirstWeekday = 1
    FortnightDays = 4
    DrawnDays <- MCDrawn
    Patterns <- MCPatterns
    Profiles <- MCProfiles
    Rules <- MCRules
    Law <- MCLaw
INVARIANTS
    OutsideTheLawIsSaid
    EventBelongsToOneDay
    ReportAgreesWithScreen
    NoExcessIsSilent
    MonthByMonthSaysTheSame
    WarningsAreTrue
    PlanAndRecordAgree
    HolidayChargedIsHolidayEnjoyed
    NobodyOverrunsUnwarned
PROPERTIES
    ClosedDaysStand
CHECK_DEADLOCK FALSE
