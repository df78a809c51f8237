SPECIFICATION FairSpec
CONSTANTS
    Count = 3
    Values = {0, 2, 7}
    FullScale = 7
    VrefMv = 23
    Base = 2
    BufSize = 5
    MaxBlocks = 3
INVARIANTS
    TypeOK
    WholeBlock
    MeanIsOfBlock
PROPERTIES
    BlockIsStable
    BlocksKeepComing
