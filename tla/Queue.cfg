SPECIFICATION FairSpec
CONSTANTS
    Client = {c1, c2}
    MaxTokens = 1
    NoJob = NoJob
INVARIANTS
    TypeOK
    JobsAlive
    NobodyStranded
PROPERTIES
    ImplementsService
    EveryRequestReturns
    StopsEventually
CHECK_DEADLOCK FALSE
