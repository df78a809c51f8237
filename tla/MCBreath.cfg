SPECIFICATION FairSpec
CONSTANTS
    BREATH_STEPS = 4
    PWM_PERIOD = 3
    breath_table <- Table
    PrintEvery = 3
    DelayPeriods = 2
INVARIANTS
    TypeOK
PROPERTIES
    LitAsWanted
    Breathes
