SPECIFICATION FairSpec
CONSTANTS
    Requests = {r1, r2}
    Buffers = {}
    Waiters = {w1}
    NoBuffer = NoBuffer
    NoRequest = NoRequest
    QueueDepth = 2
    MaxResets = 0
    Outside = {"drop", "fault", "close", "remove"}
    IrqShares = FALSE
INVARIANT ReadableWhenTerminal
PROPERTY RequestsFinish
CHECK_DEADLOCK FALSE
