SPECIFICATION Spec
CONSTANTS
    Servers = {s1, s2, s3}
    Names = {f, g}
    IntMax <- MCIntMax
    SizeMod <- MCSizeMod
    MaxLookups = 10
INVARIANTS
    Balanced
    PickInRange
    ListsMatchServers
CHECK_DEADLOCK FALSE
