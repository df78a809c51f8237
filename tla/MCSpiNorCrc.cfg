SPECIFICATION FairSpec
CHECK_DEADLOCK FALSE
CONSTANTS
    PageSize = 9
    ChunkSize = 4
    PageCount = 3
    Radix = 3
    Images <- MCImages
    Chips <- MCChips
INVARIANTS
    TypeOK
    CrcIsOfPage
    ReportIsTheChips
PROPERTIES
    Finishes
