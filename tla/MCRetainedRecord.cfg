CONSTANTS
    Commands = {c1, c2}
    NoCommand = NoCommand
    StuckTasks = {t1}
    NoTask = NoTask
    Events = {e1, e2}
    NoEvent = NoEvent
    NoCrc = NoCrc
    Slots = 2
    QueueDepth = 1
    MaxCount = 2
    MaxResets = 2
SPECIFICATION Spec
INVARIANTS
    BootTrustsWholeRecords
    DropsExact
PROPERTY EventsInOrder
