SPECIFICATION FairSpec
CONSTANTS
    t1 = t1  t2 = t2  t3 = t3
    Taps = {t1, t2}
    Calls = {c1, c2, c3}
    Nothing = Nothing
    Asks <- MCOneTaps
    Keyless = {}
    Declares = {t1, t2}
    Ahead <- MCAhead
    MaxOpen = 1
    DoubleTap = 1
    Skew = 1
    Grace = 1
    MaxTime = 2
INVARIANTS
    TimeIsVouchedFor
PROPERTIES
    ImplementsRegister
    EveryCallEnds
CHECK_DEADLOCK FALSE
