SPECIFICATION FairSpec
CONSTANTS
    N = 2
    Pollers = {2}
    Period <- MCPeriod
    Sample = 2
    Grace = 2
    MissLimit = 2
    Timeout = 8
    AckTime = 1
    BootTime = 1
    Late = 1
    MaxCount = 2
    Faults = {"freeze", "thaw", "overload"}
INVARIANTS NoFalseAlarm ExpiryHasCause EvidenceBeforeReset
PROPERTY FrozenIsEnded
