SPECIFICATION Spec
CONSTANTS
    i1 = i1
    a1 = a1
    a2 = a2
    Credentials <- ReplacedAccount
    Readers = {r1, r2}
    Resetters = {q1, q2, q3}
    Keys = {k1, k2}
    NoOne = NoOne
    None = None
    CacheTTL = 1
    AttemptTTL = 1
    CacheCap = 1
    AttemptCap = 2
    MaxRequests = 3
    MaxClock = 1
    MaxClears = 1
    MaxCredits = 2
INVARIANTS TypeOK FetchedAfterReset ServedYoung OwnQuota OneResetPerCredential OneCreditPerKey NoOneAbandoned
SYMMETRY Alike
CHECK_DEADLOCK FALSE
