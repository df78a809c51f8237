SPECIFICATION Spec
CONSTANTS
    Width = 3
    MaxCalls = 2
    Frames <- MCFrames
INVARIANTS
    TypeOK
    FreeBetweenCalls
    AckIsOfThisByte
PROPERTIES
    ImplementsTransfer
    OnlyStartAndStop
CHECK_DEADLOCK FALSE
