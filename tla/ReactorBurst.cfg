SPECIFICATION Spec
CONSTANTS
    Conns = {c1, c2}
    Listener = Listener
    Modes <- ShippedMode
    Outcomes = {"out", "in"}
    MaxEvent = 2
    BufCap = 1
    MaxSend = 1
PROPERTY
    EveryoneIsAccepted
CHECK_DEADLOCK FALSE
