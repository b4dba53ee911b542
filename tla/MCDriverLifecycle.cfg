SPECIFICATION FairSpec
CONSTANTS
    Files = {f1}
    MaxResets = 1
    EarlyResets = FALSE
INVARIANTS UnwindIsExact AccessIsMapped QueuesHaveRings FreedIsQuiet
PROPERTY ExitEnds
CHECK_DEADLOCK FALSE
