SPECIFICATION Spec
CONSTANTS
    k1 = k1
    s1 = s1
    Ids = {k1}
    Secrets = {s1, s2, s3}
    Admins = {a1, a2}
    Billers = {b1}
    Host = Host
    NoOne = NoOne
    NoKey = NoKey
    Seed <- OneSeedKey
    Shared = FALSE
    MaxOps = 2
    MaxCosts = 2
    MaxFaults = 1
    MaxCalls = 2
INVARIANT NeverResurrected
CHECK_DEADLOCK FALSE
