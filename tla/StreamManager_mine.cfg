CONSTANTS
    t1 = t1
    t2 = t2
    Me = 1
    Targets <- OneTarget
    ListenPorts <- None
    Remote <- None
    Threads <- OneThread
    MaxPorts = 1
    SmeTimeoutMax = 1
    FailTimeoutMax = 2
    MaxFd = 2
SPECIFICATION Spec
CHECK_DEADLOCK FALSE
INVARIANTS
    ServersAreMine
