SPECIFICATION FairSpec
CONSTANTS
    q1 = q1
    Users = {ua, ub}
    Calls = {q1, q2}
    WithBody <- FirstOnly
    Refreshes = {r1, r2, r3}
    Logins = {l1}
    Logouts = {o1}
    Boot = Boot
    Nobody = Nobody
    Null = Null
    Broken = Broken
CHECK_DEADLOCK FALSE
INVARIANTS
    TypeOK
    OneRefreshAtATime
    RetryCarriesAnotherToken
    TokenFollowsCookie
    LogoutLasts
PROPERTIES
    BootEnds
    CallsEnd
