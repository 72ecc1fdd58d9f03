CONSTANTS
    r1 = r1
    r2 = r2
    r3 = r3
    c1 = c1
    c2 = c2
    None = None
    a1 = a1
    a2 = a2
    u1 = u1
    u2 = u2
    NoRec = NoRec
    p1 = p1
    p2 = p2
    p3 = p3
    s1 = s1
    s2 = s2
    Req <- MCReq
    Channel <- MCChannel
    chan <- MCchan
    Rec <- MCRec
    User <- MCUser
    Path <- MCPath
    Account <- MCAccount
    Slot <- MCSlot
    Caller <- MCCaller
    Server <- MCServer
    Title <- MCTitle
    Sender <- MCSender
    Folder <- MCFolder
    Weight <- MCWeight
    Watched <- MCWatched
    Swapped <- MCWatched
    Capture = p1
    MaxSessions = 1
    MaxCaptures = 1
    MaxPerUser = 1
    MaxErrors = 1
    MaxCrashes = 1
    MaxRuns = 3
    MaxFaults = 2
    MaxConv = 2
    MaxUpsets = 1
    MaxTok = 4
    MaxOutages = 1
    MaxDue = 2
    MaxMishaps = 1
    MaxPending = 1
    MaxAsks = 1
    MaxTrips = 1
    MaxWorker = 2
    MaxEdits = 1
    Depth = 1
    MaxEvents = 1
    MaxSlips = 1
SPECIFICATION Spec
CHECK_DEADLOCK FALSE
INVARIANTS
    TunersAccounted
    CapturesAccounted
    RecordingSafe
    DownloadsAccounted
    RotationSafe
    RacesAreTolerated
PROPERTIES
    StreamsSettle
    RecordingsSettle
    JobsSettle
    DownloadsSettle
    TasksSettle
    SpritesSettle
    WorkersSettle
    LibrarySettles
