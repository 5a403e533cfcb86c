SPECIFICATION Spec
CONSTANTS
    t = t
    u = u
    None = None
    Topic = {t, u}
    Loaded = {t, u}
    Capacity = 2
    MaxPid = 3
    Leftover = {0}
    WireCap = 2
    Timeout = 1
    KeepAlive = 1
    MaxTime = 0
INVARIANTS
    LoadedSubscribed
CHECK_DEADLOCK FALSE
