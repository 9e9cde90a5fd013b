\* Configs are created while jobs run.
CONSTANTS
    Deals = {d1, d2}
    Jobs = {j1, j2}
    Runners = {r1, r2}
    Analysts = {a1}
    UuidAnalysts = {a1}
    NoDeal = NoDeal
    NoJob = NoJob
    Budget = 2
    InitialConfig = 0
    MaxConfigs = 2
    MaxRetries = 0
    MaxCrashes = 1
    MaxErrors = 1
SPECIFICATION Spec
SYMMETRY MCSymmetry
INVARIANTS
    AuditNamesStatus
    EvidenceExists
    StrandingNeedsAFault
CHECK_DEADLOCK FALSE
