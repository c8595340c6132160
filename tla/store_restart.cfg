SPECIFICATION RestartSpec
CONSTANTS
    Requests = {r1, r2, r3}
    Emails = {e1}
    None = None
    Admins = {}
    Members = {}
    AccessTTL = 1
    RefreshTTL = 2
    MaxTime = 3
    DBFaults = FALSE
    RedisFaults = FALSE
    MaxUserWrites = 0
SYMMETRY MCSymmetry
INVARIANT HarmPasses
PROPERTY LateAdmittance
