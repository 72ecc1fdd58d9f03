CONSTANTS
    p1 = p1
    p2 = p2
    Path <- MCPath
    Weight <- MCWeight
    Watched <- MCWatched
    Replaced = {}
    MaxEvents = 1
    MaxSlips = 0
SPECIFICATION Spec
PROPERTY Backstopped
CHECK_DEADLOCK FALSE
