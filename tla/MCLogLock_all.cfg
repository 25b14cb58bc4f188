SPECIFICATION FairSpec
CONSTANTS
    p1 = p1
    p2 = p2
    Ctl = Ctl
    NoTask = NoTask
    Loggers = {p1, p2}
    Builds <- AllBuilds
    Lines = 1
CHECK_DEADLOCK FALSE
INVARIANTS
    TypeOK
    DeadlockNeedsNestedError
    NoDeadlockInSafeBuild
    BacktraceNotMixed
PROPERTIES
    LogCallReturnsInSafeBuild
