SPECIFICATION Spec
CONSTANTS
    Users = {u1, u2, u3}
    Requests = {r1, r2, r3}
    Emails = {e1, e2}
    None = None
    Admins = {u1}
    Members = {u2}
    DBFaults = TRUE
SYMMETRY MCSymmetry
INVARIANT AccountInvariant
INVARIANT LoneAdminStays
INVARIANT RejectedChangesNothing
PROPERTY QuietUpdateExact
PROPERTY RevivedByStaleSaveOnly
PROPERTY RoleChangesOwned
PROPERTY UsersTableKept
