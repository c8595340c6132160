SPECIFICATION Spec
CONSTANTS
    Requests = {m, r1, r2, r3}
    Emails = {e1}
    None = None
    Admins = {}
    Members = {m}
    AccessTTL = 1
    RefreshTTL = 2
    MaxTime = 1
    DBFaults = FALSE
    RedisFaults = FALSE
    MaxUserWrites = 0
SYMMETRY MCSymmetry
INVARIANT RefreshTokenSingleUse
