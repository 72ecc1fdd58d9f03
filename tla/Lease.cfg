CONSTANTS
    c1 = c1
    c2 = c2
    Call <- MCCall
    TTL = 6
    Wait = 2
    MaxErrs = 2
    Faults = {"error", "cancel", "crash", "stall"}
    NoCall = NoCall
SPECIFICATION FairSpec
INVARIANTS HolderOwnsKey
PROPERTIES NobodyEvicts OnlyHolderExtends LeftoverExpires LockReturns
CHECK_DEADLOCK FALSE
