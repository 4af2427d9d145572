SPECIFICATION Spec
CONSTANTS
    Callers = {c1, c2}
    Modes = {TRUE}
    SplitLines = 2
    Capacity = 2
    MaxLines = 1
    MaxDay = 1
PROPERTY
    EveryLineAppears
CHECK_DEADLOCK FALSE
