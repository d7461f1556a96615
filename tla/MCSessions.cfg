CONSTANTS
    phone = phone
    laptop = laptop
    c1 = c1
    c2 = c2
    Browsers = {phone, laptop}
    Calls = {c1, c2}
    MaxTokens = 4
    MaxPassword = 2
    MaxLinks = 1
    MaxCalls = 6
    MaxUpsets = 1

SPECIFICATION Spec

SYMMETRY MCSymmetry

INVARIANTS
    TypeOK
    ResetEndsSessions
    OneLiveToken
    AlarmsHaveACause

CHECK_DEADLOCK FALSE
