SPECIFICATION SystemSpec
CONSTANTS
    Requests = {a, r1, r2, r3}
    Emails = {e1, e2}
    None = None
    Admins = {a}
    Members = {}
    AccessTTL = 1
    RefreshTTL = 2
    MaxTime = 1
    DBFaults = FALSE
    RedisFaults = FALSE
    MaxUserWrites = 2
SYMMETRY MCSymmetry
INVARIANT Agreement
INVARIANT CallsFollowTokens
