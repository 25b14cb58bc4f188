SPECIFICATION Spec
CONSTANTS
    p1 = p1
    a1 = a1
    a2 = a2
    h1 = h1
    h2 = h2
    h3 = h3
    h4 = h4
    Ctl = Ctl
    NoTask = NoTask
    NoAddr = NoAddr
    NoHd = NoHd
    Loggers = {p1}
    Addrs = {a1, a2}
    Handles = {h1, h2, h3, h4}
    MaxClients = 2
    BufSize = 1
    MaxOut = 1
    PackMod = 2
    BtraceOnError = TRUE
SYMMETRY Symmetry
INVARIANTS
    BlockNotLost
