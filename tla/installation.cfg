SPECIFICATION Spec
SYMMETRY MCSymmetry
CONSTANTS
    root = root  vice = vice  ana = ana  bea = bea  x = x  y = y  h1 = h1  h2 = h2
    Accounts = {root, vice}
    Founder = root
    People = {ana, bea}
    Addresses = {x, y}
    FounderAddress = x
    Credentials = {credential}
    Entries = {visit}
    Hands = {h1, h2}
    SupportLife = 2
    AccessLife = 1
    Nothing = Nothing
INVARIANTS
    SupportFollowsItsAccount
PROPERTIES
    MeetOnlyIfProvisionedOrOvertaken
CONSTRAINT OverlapBound
CHECK_DEADLOCK FALSE
