SPECIFICATION FairSpec
CONSTANTS
    MaxConns = 2
    MaxRequests = 1
    Limit = 6
    max_thread_pchild = 0
INVARIANTS
    TypeOK
    DescriptorsAccounted
    ThreadsKeepToTheirClient
PROPERTIES
    WorkerReturns
CHECK_DEADLOCK FALSE
