SPECIFICATION Spec
CHECK_DEADLOCK FALSE
CONSTANTS
    Runs <- MCRuns
    Elements = 4
    DMA_TIMEOUT_LOOPS = 6
    Millisecond = 4
    MsLow = 3
    MsHigh = 6
    TIMER_PERIOD = 6
    TIMER_TOLERANCE = 1
    TIMER_WAIT = 12
    SlowPeriod = 9
    FastPeriod = 3
    Lag = 1
    Wrap = 16
    StartTicks = {7, 13}
INVARIANTS
    TypeOK
    FailIsDeserved
    PassIsEarned
    SavedIsRestored
PROPERTIES
    CasesReturn
