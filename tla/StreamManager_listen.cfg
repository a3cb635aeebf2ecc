CONSTANTS
    t1 = t1
    t2 = t2
    Me = 1
    Targets <- None
    ListenPorts <- OnePort
    Remote <- OneRemote
    Threads <- OneThread
    MaxPorts = 1
    SmeTimeoutMax = 1
    FailTimeoutMax = 2
    MaxFd = 2
SPECIFICATION FairSpec
CHECK_DEADLOCK FALSE
PROPERTIES
    ListenReturns
