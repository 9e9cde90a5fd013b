\* Handlers finish within their claim: what the queue promises.
CONSTANTS
    Jobs = {j1, j2}
    Workers = {w1, w2}
    Indices = {0, 1}
    NoJob = NoJob
    NoSlot = NoSlot
    MaxAttempts = 2
    OverrunAt = {}
    MaxCrashes = 2
    MaxErrors = 1
SPECIFICATION FairSpec
INVARIANTS
    SlotOwnsRow
    ClaimsAreRecoverable
PROPERTIES
    TerminalIsFinal
    ImplementsLifecycle
    EveryJobSettles
CHECK_DEADLOCK FALSE
