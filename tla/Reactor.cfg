SPECIFICATION Spec
CONSTANTS
    Conns = {c1, c2}
    Listener = Listener
    Modes <- AllModes
    Outcomes = {"out", "in"}
    MaxEvent = 2
    BufCap = 1
    MaxSend = 2
INVARIANTS
    NoneLeftDisarmed
    NoEdgeLost
PROPERTIES
    InputIsRead
    FallsSilent
    LevelAcceptsEveryone
CHECK_DEADLOCK FALSE
