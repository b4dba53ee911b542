SPECIFICATION FairSpec
CONSTANTS
    i1 = i1
    i2 = i2
    Garbage = Garbage
    Ids <- MCIds
    PeerSubmissions <- MCPayload
    PeerStatus = {"SUCCESS"}
    Faults = {"watchdog", "disconnect"}
    DefaultTimeout = 2
    GenModulus = 2
    NoResult = NoResult
    Objects = {o1, o2}
    None = None
    MaxTime = 1
    Horizon = 1
    MaxSeq = 2
    MaxLink = 1
PROPERTIES ImplementsLifecycle NoObjectRetained
CHECK_DEADLOCK FALSE
