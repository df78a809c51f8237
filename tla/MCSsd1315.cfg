SPECIFICATION FairSpec
CONSTANTS
    Width = 3
    Pages = 2
    Bytes <- MCBytes
    Images <- MCImages
    Builds <- Build
    MaxResets = 2
INVARIANTS
    ImageShown
    InitTakesEffect
PROPERTIES
    PumpBeforeOn
    FramesKeepComing
