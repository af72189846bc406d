CONSTANTS
    t1 = t1
    t2 = t2
    Threads <- MCThreads
    NServers = 2
    NAddr = 2
    NONE = NONE
    FAIL = FAIL
    MaxEvents = 3
SPECIFICATION Spec
PROPERTY
    MasterEventuallyReachable
