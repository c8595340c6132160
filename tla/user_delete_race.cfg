SPECIFICATION Spec
CONSTANTS
    Users = {u1, u2}
    Requests = {r1, r2}
    Emails = {e1, e2}
    None = None
    Admins = {u1}
    Members = {u2}
    DBFaults = FALSE
SYMMETRY MCSymmetry
PROPERTY DeletedStaysDeleted
