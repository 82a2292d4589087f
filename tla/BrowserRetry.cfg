SPECIFICATION Spec
CONSTANTS
    q1 = q1
    Users = {ua}
    Calls = {q1}
    WithBody <- FirstOnly
    Refreshes = {r1, r2}
    Logins = {l1}
    Logouts = {o1}
    Boot = Boot
    Nobody = Nobody
    Null = Null
    Broken = Broken
CHECK_DEADLOCK FALSE
INVARIANTS
    RefusedCallsAreRetried
