SPECIFICATION Spec
CONSTANTS
    MaxRequests = 3
    max_thread_pchild = 2
INVARIANT NoAnswerLeftOut
CHECK_DEADLOCK FALSE
