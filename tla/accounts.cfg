CONSTANTS
    People = {ana, bea}
    Founder = ana
    Requests = {r0, r1, r2, r3}
    SignUp = r0
    Trail = {ana}
    App = app
    Unset = unset
SPECIFICATION Spec
SYMMETRY Symmetry
CHECK_DEADLOCK FALSE
INVARIANTS
    SessionsEndWhenRevoked
PROPERTIES
    OnlyUndercutEditsLeaveNobody
