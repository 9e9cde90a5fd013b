\* The config does not change; a crash, an error and one operator's retry.
CONSTANTS
    Deals = {d1, d2}
    Jobs = {j1, j2}
    Runners = {r1, r2}
    Analysts = {a1}
    UuidAnalysts = {a1}
    NoDeal = NoDeal
    NoJob = NoJob
    Budget = 2
    InitialConfig = 1
    MaxConfigs = 0
    MaxRetries = 1
    MaxCrashes = 1
    MaxErrors = 1
SPECIFICATION FairSpec
INVARIANTS
    TypeOK
    ScoredOnce
    UploadsHaveJobs
PROPERTIES
    StatusMovesForward
    EveryDealGetsVerdict
CHECK_DEADLOCK FALSE
