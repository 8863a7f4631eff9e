SPECIFICATION FairSpec
CONSTANTS
    c1 = c1
    c2 = c2
    c3 = c3
    s1 = s1
    s2 = s2
    Conns = {c1, c2}
    Servers = {s1, s2}
    PreFork = 1
    MaxFd = 1
    NoFd = NoFd
    NoServer = NoServer
    MaxDeaths = 0
    MaxSendFaults = 0
INVARIANT ServedByItsServer
PROPERTIES
    EveryConnectionServed
    EveryWorkerReturns
CHECK_DEADLOCK FALSE
