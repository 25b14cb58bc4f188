SPECIFICATION Spec
CONSTANTS
    p1 = p1
    p2 = p2
    a1 = a1
    a2 = a2
    a3 = a3
    h1 = h1
    h2 = h2
    h3 = h3
    h4 = h4
    Ctl = Ctl
    NoTask = NoTask
    NoAddr = NoAddr
    NoHd = NoHd
    Loggers = {p1, p2}
    Addrs = {a1, a2, a3}
    Handles = {h1, h2, h3, h4}
    MaxClients = 2
    BufSize = 1
    MaxOut = 2
    PackMod = 3
    BtraceOnError = TRUE
SYMMETRY Symmetry
INVARIANTS
    TypeOK
    NoDuplicateSubscriber
    SocketsOwned
    UdpCount
    InsertHasRoom
    UdpBlockFits
    SkippedAtMostRemoved
PROPERTIES
    SequenceFollowsSends
    LeakOnlyOnConnectFailure
    ImplementsSubscriptions
