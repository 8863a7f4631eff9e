SPECIFICATION FairSpec
CONSTANTS
    MaxRuns = 2
    Inputs <- MCInputs
    MaxPrefork = 2
    MaxServed = 2
INVARIANTS
    TypeOK
    SemaphoreExcludes
    WorkersRegistered
    NoServerLeftOut
PROPERTIES
    BusyEndsWithItsWorker
    StartsAfterCleaning
CHECK_DEADLOCK FALSE
