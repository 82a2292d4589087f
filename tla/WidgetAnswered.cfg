SPECIFICATION SWFairSpec
CONSTANTS
    k1 = k1
    k2 = k2
    ta = ta
    o1 = o1
    d1 = d1
    Hits = {r1, r2}
    Keys = {k2}
    Tenants = {ta}
    TenantOf <- OneTenant
    Origins = {o1, o2}
    NoOrigin = NoOrigin
    Domains = {d1}
    Matches <- OneMatch
    Limit = 1
    Window = 1
    PoolSize = 1
    MaxCrashes = 1
    NoTtl = NoTtl
    NoKey = NoKey
    Catalog <- TwoEntries
    MaxRuns = 2
INVARIANTS
    SeededByOneRun
    MintsInWholeWorkspaces
PROPERTIES
    RequestsAnswered
