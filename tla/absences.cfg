SPECIFICATION Spec
SYMMETRY MCSymmetry
CONSTANTS
    eva = eva  marta = marta  a1 = a1  a2 = a2  a3 = a3
    People = {eva, marta}
    Admins = {marta}
    Managers = {}
    Reach <- MCReach
    Absences = {a1, a2, a3}
    Forms <- MCForms
    FormsOf <- MCFormsOf
    Days = {1, 2, 3, 4}
    Hours = {0, 1, 2}
    CountedDays = {1, 2, 3}
    Requests = {r1, r2}
    Nothing = Nothing
INVARIANTS
    LiveLeavesDoNotClash
    HolidayDaysReturnOnce
    NoRowWithoutItsDocument
PROPERTIES
    ImplementsLeaveBook
CHECK_DEADLOCK FALSE
