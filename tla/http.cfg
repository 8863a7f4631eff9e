SPECIFICATION Spec
CONSTANTS
    Sessions <- MCSessions
    Answers <- MCAnswers
    Host <- MCHost
INVARIANTS
    TypeOK
    ForwardsTheRequest
    ReadsToTheEnd
    LengthIsServers
    ClientReadsAnswers
CHECK_DEADLOCK FALSE
