CONSTANTS
    t1 = t1
    t2 = t2
    Me = 1
    Targets <- TwoTargets
    ListenPorts <- OnePort
    Remote <- OneRemote
    Threads <- TwoThreads
    MaxPorts = 2
    SmeTimeoutMax = 1
    FailTimeoutMax = 2
    MaxFd = 2
SPECIFICATION Spec
CHECK_DEADLOCK FALSE
SYMMETRY ThreadSymmetry
INVARIANTS
    TypeOK
    TablesAgree
    PortNotLeaked
    HandlesLive
    LastWordIsConnect
    HandedOnce
