SPECIFICATION Spec
CONSTANTS
    k1 = k1
    k2 = k2
    a = a
    b = b
    t1 = t1
    t2 = t2
    r1 = r1
    r2 = r2
    IdOrder <- TwoIds
    Aliases = {a, b}
    Targets = {t1, t2}
    Prices = {1, 2}
    Rules = {r1, r2}
    Patchers = {p1}
    Unset = Unset
    Absent = Absent
    NoFile = NoFile
    NoPatch = NoPatch
    KeyBodies <- Bodies
    AliasBodies <- TargetLists
    Configs <- OnlySilent
    OldFiles <- OnlyOld
    MaxEdits = 3
    MaxRuleEdits = 1
    MaxLoads = 2
    MaxFaults = 0
PROPERTY MigratedKeysStay
CHECK_DEADLOCK FALSE
