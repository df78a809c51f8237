SPECIFICATION Spec
CHECK_DEADLOCK FALSE
CONSTANTS
    Clocks = {60000}
    TARGET_CLOCKS = 256
    MaxDivider = 256
INVARIANTS
    DividerIsClosest
