SPECIFICATION Spec
CONSTANTS
    Requests = {m, r1, r2}
    Emails = {e1}
    None = None
    Admins = {}
    Members = {m}
    AccessTTL = 1
    RefreshTTL = 2
    MaxTime = 1
    DBFaults = FALSE
    RedisFaults = TRUE
    MaxUserWrites = 0
SYMMETRY MCSymmetry
INVARIANT LogoutAlwaysRevokes
