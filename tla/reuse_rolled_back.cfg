\* Two concurrent calls of one browser refresh with the same stored token.
CONSTANTS
    Ids = {i1, i2, i3}
    Calls = {c1, c2}
    NoId = NoId
    MaxChanges = 0
    MaxFaults = 0
SPECIFICATION Spec
SYMMETRY MCSymmetry
INVARIANTS
    ReuseEndsSession
CHECK_DEADLOCK FALSE
