CONSTANTS
    Length = 6
    From = 1
    Margin = 1
    MaxContinuations = 3
    MaxSkip = 2
    Faults = {"fail", "disk", "stop"}
SPECIFICATION FairSpec
INVARIANTS ContinuationInv
PROPERTIES PlaylistSettles PlayerEnds
CHECK_DEADLOCK FALSE
