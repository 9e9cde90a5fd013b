\* Handlers may outlive their claim.
CONSTANTS
    Jobs = {j1}
    Workers = {w1, w2}
    Indices = {0}
    NoJob = NoJob
    NoSlot = NoSlot
    MaxAttempts = 2
    OverrunAt = {"running"}
    MaxCrashes = 1
    MaxErrors = 0
SPECIFICATION Spec
INVARIANTS
    NoConcurrentExecution
CHECK_DEADLOCK FALSE
