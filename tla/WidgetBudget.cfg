SPECIFICATION WSpec
CONSTANTS
    k1 = k1
    ta = ta
    o1 = o1
    d1 = d1
    Hits = {r1, r2, r3}
    Keys = {k1}
    Tenants = {ta}
    TenantOf <- OneTenant
    Origins = {o1, o2}
    NoOrigin = NoOrigin
    Domains = {d1}
    Matches <- OneMatch
    Limit = 1
    Window = 2
    PoolSize = 2
    MaxCrashes = 1
    NoTtl = NoTtl
    NoKey = NoKey
SYMMETRY Symmetry
INVARIANTS
    WTypeOK
    MintsWithinBudget
    SuspendedTenantsStopMinting
