\* No wake-up is lost, on the condition variable or on the socket, also across a restart.
CONSTANTS
    Callers = {c1}
    Ctl = ctl
    Loop = loop
    None = none
    Regulars = {}
    Promises = {p1}
    Cleanups = {}
    BatchLimit = 1
    MaxPermanents = 1
    MaxDeferred = 1
    MaxStarts = 2
SPECIFICATION FairSpec
PROPERTIES
    StopEnds
    FuturesComplete
    WakeReachesPermanents
    RemovalAnswered
