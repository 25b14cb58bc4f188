SPECIFICATION FairSpec
CONSTANTS
    Topics = {1, 2}
    Quiet = {1}
    Array <- MCArray
    QueueLen = 1
    Retry = 1
    MaxMsgs = 2
INVARIANTS
    CallbackOfTopic
    SubscribedAsSet
PROPERTIES
    CopiesKept
    ImplementsDispatch
    NobodyWaitsForEver
CHECK_DEADLOCK FALSE
