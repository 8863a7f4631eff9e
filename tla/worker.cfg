SPECIFICATION FairSpec
CONSTANTS
    MaxRequests = 3
    max_thread_pchild = 2
INVARIANTS
    TypeOK
    AnsweredInOrder
    AnswersARequest
    NodesOutliveRequests
PROPERTY ConnectionEnds
CHECK_DEADLOCK FALSE
