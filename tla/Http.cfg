SPECIFICATION Spec
CONSTANTS
    Requests <- AllRequests
    Modes <- AllModes
    BodyLen = 2
    HeadLen = 3
    FileLen = 2
    MaxRequests = 3
INVARIANTS
    ParsedAsSent
    StreamIsExact
    Survives
PROPERTY
    AnsweredInFull
CHECK_DEADLOCK FALSE
