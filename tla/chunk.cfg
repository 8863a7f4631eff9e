SPECIFICATION FairSpec
CONSTANTS
    Lengths <- SmallLengths
    MAX_CHUNK_SIZE = 2
INVARIANTS
    TypeOK
    ForwardedInOrder
    NodeOutlivesReceiver
    NoMissedSignal
PROPERTY BodyIsForwarded
CHECK_DEADLOCK FALSE
