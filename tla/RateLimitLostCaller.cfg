SPECIFICATION RLSpec
CONSTANTS
    Hits = {h1, h2}
    Keys = {k1}
    Limit <- HealthcareAttempts
    Rests = {"a", "A", "b"}
    Fold <- LowerCase
    Numbers = {"", "1"}
    Window = 2
    MaxCrashes = 1
    NoTtl = NoTtl
    NoKey = NoKey
INVARIANTS
    FirstHitSetsTtl
