SPECIFICATION Spec
CONSTANTS
    i1 = i1
    i2 = i2
    Garbage = Garbage
    Ids <- MCIds
    DefaultTimeout = 2
    SqDepth = 3
    CqDepth = 4
    HighWater = 3
    LowWater = 1
    HostCommands <- MCCommands
    Replies <- MCReplies
    MaxOwed = 5
VIEW MCView
INVARIANTS AssertionsHold OneAnswerEach
CHECK_DEADLOCK FALSE
