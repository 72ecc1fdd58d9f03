CONSTANTS
    j1 = j1
    j2 = j2
    w1 = w1
    w2 = w2
    d1 = d1
    NoWorker = NoWorker
    NoJob = NoJob
    Job <- MCJob
    Rsv <- MCRsv
    Worker <- MCWorker
    Embedded = w1
    Max = 1
    Caps = {2}
    Faults = {"expiry", "unregister", "valkey", "crash"}
    MaxMishaps = 2
SPECIFICATION FairSpec
INVARIANTS SlotsExact NoPhantomJobs
PROPERTIES JobsRun
CHECK_DEADLOCK FALSE
