SPECIFICATION FairSpec
CONSTANTS
    t = t
    u = u
    None = None
    Topic = {t}
    Loaded = {t}
    Capacity = 3
    MaxPid = 4
    Leftover = {1}
    WireCap = 1
    Timeout = 0
    KeepAlive = 0
    MaxTime = 1
INVARIANTS
    TypeOK
    NoUnknownAck
    BrokerMatches
PROPERTIES
    WantedEventuallySubscribed
CHECK_DEADLOCK FALSE
