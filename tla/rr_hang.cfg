SPECIFICATION FairSpec
CONSTANTS
    garbage = garbage
    N = 2
    StatusPages <- TwoWeights
    Garbage = garbage
    MaxPicks = 1
    MaxUpdates = 1
PROPERTY UpdateEnds
CHECK_DEADLOCK FALSE
