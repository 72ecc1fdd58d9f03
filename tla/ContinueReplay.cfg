CONSTANTS
    Length = 6
    From = 1
    Margin = 1
    MaxContinuations = 6
    MaxSkip = 3
    Faults = {}
SPECIFICATION Spec
INVARIANTS NoReplay
CHECK_DEADLOCK FALSE
