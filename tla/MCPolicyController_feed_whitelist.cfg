SPECIFICATION Spec
CONSTANTS
    Prefixes <- MCNestedPrefixes
    NetAddr <- MCNetAddr
    MaxTime = 1
    MaxWait = 1
    MaxEngineErrors = 0
    MaxFileFaults = 0
    MaxBatches = 1
    MaxRestarts = 0
INVARIANT WhitelistNeverAdvertised
CHECK_DEADLOCK FALSE
