SPECIFICATION FairSpec
CONSTANTS
    Lengths <- SmallLengths
    MAX_CHUNK_SIZE = 2
PROPERTY WriterGetsThrough
CHECK_DEADLOCK FALSE
