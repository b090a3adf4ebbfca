SPECIFICATION Spec
CONSTANTS
    a = a
    b = b
    Ids = {k1}
    Aliases = {a, b}
    Billers = {b1, b2}
    Details <- Reports
    RuleBodies <- Bodies
    FirstRules <- Table
    NoRule = NoRule
    NoEntry = NoEntry
    NoBill = NoBill
    NoSave = NoSave
    NoOne = NoOne
    Live = Live
    MaxBills = 2
    MaxOps = 2
    MaxTicks = 1
    MaxFaults = 1
CHECK_DEADLOCK FALSE
INVARIANTS TypeOK ChargedOnce  InheritsNothing
