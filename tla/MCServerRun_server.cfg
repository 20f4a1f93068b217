SPECIFICATION FairSpec
CONSTANTS
    MaxRequests = 1
    MaxHandlers = 2
    MaxFailures = 1
INVARIANTS
    TypeOK
    ReturnIsClean
    NilOnlyWhenAsked
PROPERTIES
    StopsWhenAsked
    OrderlyStop
    GoroutinesEnd
CHECK_DEADLOCK FALSE
