SPECIFICATION FairSpec
CONSTANTS
    a = a
    c = c
    d = d
    e = e
    NoByte = NoByte
    Byte <- MCByte
    Frames <- MCFrames
    MaxCalls = 2
INVARIANTS
    TypeOK
    StartsOnFreeBus
PROPERTIES
    ImplementsTransfer
    EveryCallReturns
    BusReleased
CHECK_DEADLOCK FALSE
