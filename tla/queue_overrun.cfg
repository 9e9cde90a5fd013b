\* Slots may outlive their claims, in the handler or before it.
CONSTANTS
    Jobs = {j1, j2}
    Workers = {w1, w2}
    Indices = {0}
    NoJob = NoJob
    NoSlot = NoSlot
    MaxAttempts = 2
    OverrunAt = {"claimed", "running"}
    MaxCrashes = 1
    MaxErrors = 1
SPECIFICATION Spec
SYMMETRY MCSymmetry
INVARIANTS
    TypeOK
    BudgetRemains
CHECK_DEADLOCK FALSE
