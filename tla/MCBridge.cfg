SPECIFICATION FairSpec
CONSTANTS
    i1 = i1
    i2 = i2
    i3 = i3
    Garbage = Garbage
    Ids <- MCIds
    DefaultTimeout = 1
    GenModulus = 1
    NoResult = NoResult
    Objects = {o1, o2}
    None = None
    MaxTime = 0
    Horizon = 1
    MaxSeq = 3
    MaxLink = 4
    PeerSubmissions = {}
    PeerStatus = {}
    SqDepth = 4
    CqDepth = 4
    HighWater = 3
    LowWater = 2
    HostCommands <- MCInvalid
    Replies = {}
    MaxOwed = 3
    Faults = {"enginereset", "idlewatchdog"}
INVARIANTS AnsweredOnce EngineAuthorized InStep
PROPERTY EveryCommandAnswered
CHECK_DEADLOCK FALSE
