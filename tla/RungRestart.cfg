CONSTANTS
    r1 = r1
    r2 = r2
    r3 = r3
    i1 = i1
    i2 = i2
    w1 = w1
    w2 = w2
    NoReq = NoReq
    NoWorker = NoWorker
    Req <- MCReq
    Inst <- MCInst
    InstOf <- MCInstOf
    Worker <- MCWorker
    Embedded <- MCEmbedded
    TdInst = i1
    Faults = {}
    Teardowns = {}
    MaxReruns = 1
SPECIFICATION Spec
SYMMETRY Symmetry
INVARIANTS UniqueIncarnation LiveEncoderHasDir
CHECK_DEADLOCK FALSE
