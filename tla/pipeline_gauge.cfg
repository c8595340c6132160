SPECIFICATION Spec
CONSTANTS
    MaxSettings = 0
    Requests = {r1, r2}
    Kinds <- MCKinds
SYMMETRY MCSymmetry
INVARIANT GaugeExact
