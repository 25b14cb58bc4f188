SPECIFICATION FairSpec
CONSTANTS
    me = me
    other = other
    Me = me
    Others = {other}
    NoAddr = NoAddr
    MaxClients = 1
    MaxBoots = 3
    Copies = 2
    Backlog = 2
PROPERTIES
    KeepsConnection
    FollowsBoot
