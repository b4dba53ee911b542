SPECIFICATION Spec
CONSTANTS
    Requests = {r1}
    Buffers = {b1}
    Waiters = {w1, w2}
    NoBuffer = NoBuffer
    NoRequest = NoRequest
    QueueDepth = 2
    MaxResets = 1
    Outside = {"queue", "device", "engine", "unmask", "drop", "fault", "close", "remove"}
    IrqShares = TRUE
SYMMETRY Symmetry
INVARIANTS RefsMatchHolders ReapedOnce DeviceOwnsItsBuffers
PROPERTY TerminalIsFinal
CHECK_DEADLOCK FALSE
