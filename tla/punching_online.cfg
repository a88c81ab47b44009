SPECIFICATION Spec
SYMMETRY MCSymmetry
CONSTANTS
    t1 = t1  t2 = t2  t3 = t3
    Taps = {t1, t2, t3}
    Calls = {c1, c2, c3, c4}
    Nothing = Nothing
    Asks <- MCWithBreak
    Keyless = {t3}
    Declares = {}
    Ahead <- MCOnTime
    MaxOpen = 2
    DoubleTap = 1
    Skew = 1
    Grace = 2
    MaxTime = 4
INVARIANTS
    OneEventPerTap
    OpeningsAlternate
CHECK_DEADLOCK FALSE
