CONSTANTS
    s1 = s1
    s2 = s2
    s3 = s3
    Free = Free
    Start <- MCStart
    ABR <- MCABR
    ItemOf <- MCItemOf
    Cap = 1
    Faults = {"valkey", "gone", "resume"}
    q1 = q1
    q2 = q2
    Req <- MCReq
    InstOf <- MCInstOf
    Total = 4
    Lookahead = 1
SPECIFICATION PlaybackSpec
INVARIANTS UserCapInv ServedIsRequested
PROPERTIES LockFreed OrphanReaped RequestsAnswered
CHECK_DEADLOCK FALSE
