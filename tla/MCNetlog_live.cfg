SPECIFICATION FairSpec
CONSTANTS
    p1 = p1
    p2 = p2
    a1 = a1
    a2 = a2
    h1 = h1
    h2 = h2
    h3 = h3
    Ctl = Ctl
    NoTask = NoTask
    NoAddr = NoAddr
    NoHd = NoHd
    Loggers = {p1, p2}
    Addrs = {a1, a2}
    Handles = {h1, h2, h3}
    MaxClients = 1
    BufSize = 1
    MaxOut = 2
    PackMod = 1
    BtraceOnError = FALSE
PROPERTIES
    RequestAnswered
    MutexReleased
