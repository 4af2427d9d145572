SPECIFICATION Spec
CONSTANTS
    Callers = {c1, c2}
    Modes = {TRUE, FALSE}
    SplitLines = 2
    Capacity = 2
    MaxLines = 2
    MaxDay = 2
INVARIANTS
    FileMatchesCount
    OrderKept
    NoLineLost
    FileBounded
PROPERTY
    EveryLineIsWritten
CHECK_DEADLOCK FALSE
