\* A store with room for two keys, and a clock that is set back, an
\* exception in the store or a reset.
CONSTANTS
    a1 = a1
    a2 = a2
    u1 = u1
    t1 = t1
    Addresses = {a1, a2}
    Users = {u1}
    Tenants = {t1}
    NoUser = NoUser
    TenantOf <- MCTenantOf
    Trusted = {a2}
    Chains <- MCChains
    NoKey = NoKey
    Limit <- MCLimit
    RouteGroups = {"upload", "default"}
    MaxKeys = 2
    TicksPerSecond = 2
    MaxTime = 3
    MaxIncidents = 1
SPECIFICATION Spec
INVARIANTS
    TypeOK
    RateHolds
    ServedPays
    RetryAfterSuffices
PROPERTIES
    DebtIsKept
CHECK_DEADLOCK FALSE
