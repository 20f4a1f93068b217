SPECIFICATION Spec
CONSTANTS
    Prefixes <- MCNestedPrefixes
    NetAddr <- MCNetAddr
    MaxTime = 1
    MaxWait = 2
    MaxEngineErrors = 2
    MaxFileFaults = 1
    MaxBatches = 0
    MaxRestarts = 0
INVARIANTS
    TypeOK
    ActiveIsAnnounced
    WhitelistNeverAdvertised
    PermanentDenyAdvertised
    PublishedIsStored
CHECK_DEADLOCK FALSE
