SPECIFICATION FairSpec
CONSTANTS
    c1 = c1
    c2 = c2
    c3 = c3
    NoFd = NoFd
    Client = {c1, c2, c3}
    PollSize = 3
    ListenQueue = 2
INVARIANTS
    TypeOK
    InBoundsUntilFull
    PolledWhileOpen
    ReadsOnlyReady
PROPERTIES
    RequestRead
    LoopEnds
CHECK_DEADLOCK FALSE
