SPECIFICATION Spec
CONSTANTS
    garbage = garbage
    N = 3
    StatusPages <- AllPages
    Garbage = garbage
    MaxPicks = 3
    MaxUpdates = 2
INVARIANTS
    TypeOK
    UniformLoad
    PatternFollowsWeights
    WeightsAreServed
PROPERTIES
    ScanKeepsBuffer
    SyncedScanIsComplete
CHECK_DEADLOCK FALSE
