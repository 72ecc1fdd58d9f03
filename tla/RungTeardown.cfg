CONSTANTS
    r1 = r1
    r2 = r2
    r3 = r3
    i1 = i1
    i2 = i2
    w1 = w1
    w2 = w2
    NoReq = NoReq
    NoWorker = NoWorker
    Req <- TwoReq
    Inst <- MCInst
    InstOf <- SameInst
    Worker <- OneWorker
    Embedded <- MCEmbedded
    TdInst = i1
    Faults = {"cancel", "valkey", "lease", "setup"}
    Teardowns = {"stop", "beacon"}
    MaxReruns = 0
SPECIFICATION FairSpec
INVARIANT InProcessExclusion
PROPERTIES SupersededEncoderDies TeardownReclaims CallsReturn
CHECK_DEADLOCK FALSE
