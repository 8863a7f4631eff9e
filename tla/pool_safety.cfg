SPECIFICATION Spec
CONSTANTS
    c1 = c1
    c2 = c2
    c3 = c3
    s1 = s1
    s2 = s2
    Conns = {c1, c2, c3}
    Servers = {s1}
    PreFork = 2
    MaxFd = 2
    NoFd = NoFd
    NoServer = NoServer
    MaxDeaths = 1
    MaxSendFaults = 1
SYMMETRY Symmetry
INVARIANTS
    TypeOK
    NoDescriptorLeak
    FreeWorkerIsClean
    HandoverToFreshListener
    SemaphoreExcludes
PROPERTY ImplementsDispatch
CHECK_DEADLOCK FALSE
