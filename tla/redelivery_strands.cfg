\* One process death between the handler's two transactions.
CONSTANTS
    Deals = {d1}
    Jobs = {j1}
    Runners = {r1}
    Analysts = {a1}
    UuidAnalysts = {a1}
    NoDeal = NoDeal
    NoJob = NoJob
    Budget = 2
    InitialConfig = 1
    MaxConfigs = 0
    MaxRetries = 0
    MaxCrashes = 1
    MaxErrors = 0
SPECIFICATION Spec
INVARIANTS
    RedeliveryIsHarmless
CHECK_DEADLOCK FALSE
