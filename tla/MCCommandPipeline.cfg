SPECIFICATION Spec
CONSTANTS
    i1 = i1
    i2 = i2
    Garbage = Garbage
    Ids <- MCIds
    PeerSubmissions <- MCMixed
    PeerStatus = {"SUCCESS", "FAILED"}
    Faults = {"garbage"}
    DefaultTimeout = 2
    GenModulus = 1
    NoResult = NoResult
    Objects = {o1, o2, o3}
    None = None
    MaxTime = 2
    Horizon = 2
    MaxSeq = 3
    MaxLink = 1
SYMMETRY MCSymmetry
VIEW MCView
INVARIANTS OneOwner Conserved OutcomeIsOwn OnlyRunningQueueOverflows
PROPERTY EarliestDeadlineFirst
CHECK_DEADLOCK FALSE
