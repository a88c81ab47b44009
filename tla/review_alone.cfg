INIT MCInit
NEXT MCNext
SYMMETRY MCSymmetry
CONSTANTS
    Open = Open  ana = ana  ben = ben  c1 = c1  c2 = c2  q1 = q1  p1 = p1  p2 = p2  h1 = h1  h2 = h2
    north = north  south = south
    People = {ana, ben}
    Managers = {ana, ben}
    Departments = {office, garden}
    Workplaces = {north, south}
    Undated = {ben}
    LocalHolidays <- MCHolidays
    Reports <- MCReports
    Hands = {h1, h2}
    LastDay = 3
    Changes = 3
    Nothing = Nothing
    Same = Same
    Persons = {ana, ben}
    Requests = {h1, h2}
    CalendarEnd = 11
    WeekDays = 2
    MonthDays = 4
    YearDays = 8
    Windows <- MCWindows
    Contracts <- MCContracts
    Spans <- MCSpans
    BusyDays = {1, 2, 5}
    Rows = {c1, c2}
    Cuts <- MCCuts
    Petitions = {q1}
    PetitionWishes <- MCPetitionWishes
    Papers = {p1, p2}
    PaperForms <- MCPaperForms
    Turns = 3
    WeeklyHours = 4
    ComplementaryShare = 30
    SettlementMonths = 0
    SeniorityLeave = TRUE
    SpecialRegime = "HEALTHCARE"
    StandbyWeekly = 2
    Credit = 1
    AnswerDays = 3
    RemoteMonths = 1
    UnionMaximum = 8
    Scale <- MCScale
    Blank = Blank
    Untouched = Untouched
INVARIANTS
    ReviewAloneAgrees
CHECK_DEADLOCK FALSE
