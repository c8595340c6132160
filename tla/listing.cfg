SPECIFICATION Spec
CONSTANTS
    Ids = {a, b, c, d}
    MaxTime = 4
    MaxInt = 15
    DefaultPerPage = 2
    MaxPerPage = 3
    MaxRaw = 17
    MaxWrites = 2
SYMMETRY MCSymmetry
INVARIANT ListInvariant
INVARIANT WalkMissesNothing
INVARIANT QuietWalkExact
INVARIANT PageIsWhereAsked
