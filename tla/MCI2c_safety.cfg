SPECIFICATION FairSpec
CONSTANTS
    t1 = t1
    t2 = t2
    Tasks = {t1, t2}
    NoTask = NoTask
    MaxChannel = 3
    ScanFirst = 1
    ScanLast = 2
    MaxDepth = 3
INVARIANTS
    LockBalanced
    LineKept
PROPERTIES
    LeakEndsInRestart
