SPECIFICATION FairSpec
CONSTANTS
    NumCases = 2
    MaxResets = 2
    PowerOnPhases <- MCPhases
    PowerOnCounts <- MCCounts
INVARIANTS
    TypeOK
    VerdictHonest
    FailExplained
    SummaryExact
    CheckpointBeforeArm
PROPERTIES
    ResultsRetained
    SummaryReached
