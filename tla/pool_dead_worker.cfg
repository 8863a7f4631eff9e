SPECIFICATION FairSpec
CONSTANTS
    c1 = c1
    c2 = c2
    c3 = c3
    s1 = s1
    s2 = s2
    Conns = {c1, c2}
    Servers = {s1}
    PreFork = 2
    MaxFd = 1
    NoFd = NoFd
    NoServer = NoServer
    MaxDeaths = 1
    MaxSendFaults = 0
PROPERTY ManagerMovesOn
CHECK_DEADLOCK FALSE
