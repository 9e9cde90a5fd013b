\* A login that overlaps a password change.
CONSTANTS
    Ids = {i1, i2, i3}
    Calls = {c1, c2}
    NoId = NoId
    MaxChanges = 1
    MaxFaults = 0
SPECIFICATION Spec
SYMMETRY MCSymmetry
INVARIANTS
    PasswordChangeHolds
CHECK_DEADLOCK FALSE
