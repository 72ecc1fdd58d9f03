CONSTANTS
    q1 = q1
    q2 = q2
    Req <- MCReq
    InstOf <- MCInstOf
    Total = 5
    Lookahead = 1
SPECIFICATION ServeSpec
INVARIANTS ServesTheSegment
CHECK_DEADLOCK FALSE
