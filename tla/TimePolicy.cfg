SPECIFICATION Spec
CONSTANTS
    b1 = b1
    b2 = b2
    b3 = b3
    Ids <- MCIds
    NoId = NoId
    Ttls = {0, 1, 2}
    Ticks = 2
    MaxTime = 7
SYMMETRY IdSymmetry
INVARIANTS
    TypeOK
    SweepIsComplete
PROPERTY NeverTooEarly
