SPECIFICATION Spec
CONSTANTS
    Requests <- Lingering
    Modes <- InPieces
    BodyLen = 2
    HeadLen = 3
    FileLen = 2
    MaxRequests = 1
PROPERTY
    ReadOnUntilComplete
CHECK_DEADLOCK FALSE
