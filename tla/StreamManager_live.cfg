CONSTANTS
    t1 = t1
    t2 = t2
    Me = 1
    Targets <- OneTarget
    ListenPorts <- None
    Remote <- None
    Threads <- TwoThreads
    MaxPorts = 1
    SmeTimeoutMax = 1
    FailTimeoutMax = 2
    MaxFd = 2
SPECIFICATION FairSpec
CHECK_DEADLOCK FALSE
PROPERTIES
    ConnectReturns
    ClosedRepeated
