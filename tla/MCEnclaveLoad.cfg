SPECIFICATION FairSpec
CONSTANTS
    MaxLoads = 1
    MaxOffset = 3
    MaxCalls = 1
INVARIANTS RangeHeld ReadyToRun StaleTokenReplaced
PROPERTIES LoadEnds
CHECK_DEADLOCK FALSE
