SPECIFICATION Spec
CONSTANTS
    Requests = {r1, r2, r3}
    Aliases = {x, y}
    Costs = {1, 2}
    RPM = 1
    DailyLimit = 2
    WeeklyLimit = 2
    Minute = 3
    Day = 3
    Week = 3
    MaxClock = 9
    MaxResets = 1
SYMMETRY Alike
INVARIANTS TypeOK TwoBucketsAMinute DayIsExact AliasesAreExact SpentIsSpent
CHECK_DEADLOCK FALSE
