SPECIFICATION FairSpec
CONSTANTS
    Prefixes <- MCNestedPrefixes
    NetAddr <- MCNetAddr
    MaxTime = 2
    MaxWait = 1
    MaxEngineErrors = 1
    MaxFileFaults = 0
    MaxBatches = 1
    MaxRestarts = 1
INVARIANTS
    NoOversleep
    ActiveIsAnnounced
PROPERTIES
    SweepSparesTheExtended
    ExpiredEventuallyRemoved
CHECK_DEADLOCK FALSE
