SPECIFICATION Spec
CONSTANTS
    t1 = t1
    t2 = t2
    t3 = t3
    Keys = {k1, k2}
    Requests = {r1, r2}
    Targets = {t1, t2, t3}
    NoTarget = NoTarget
    FirstTargets <- TwoTargets
    AliasEdits <- OtherLists
    TTL = 0
    MaxQueue = 2
    MaxEvents = 1
INVARIANT AlignedAlways
CHECK_DEADLOCK FALSE
