SPECIFICATION Spec
CONSTANTS
    Requests = {m, r1, r2, r3}
    Emails = {e1}
    None = None
    Admins = {}
    Members = {m}
    AccessTTL = 1
    RefreshTTL = 2
    MaxTime = 2
    DBFaults = TRUE
    RedisFaults = TRUE
    MaxUserWrites = 1
SYMMETRY MCSymmetry
INVARIANT SessionInvariant
INVARIANT LogoutCoversTokenLife
INVARIANT SessionNotLost
INVARIANT PairReflectsRequestInterval
PROPERTY NoPrincipalAfterLogout
PROPERTY EndedSessionsRefused
PROPERTY RefreshTokensNeverRevive
PROPERTY UsersTableKept
