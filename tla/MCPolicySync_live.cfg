SPECIFICATION FairSpec
CONSTANTS
    Items = {i1}
    Conns = {c1, c2, c3}
    NoConn = NoConn
    NoChange = NoChange
    MaxInFlight = 1
    ServerCursorFile = FALSE
    AgentCursorFile = TRUE
    AgentStoreFile = TRUE
    DryRunStarts = 1
    MaxPublish = 2
    MaxServerRestarts = 0
    MaxAgentRestarts = 2
    MaxBreaks = 1
    MaxFileFaults = 0
INVARIANTS
    SequenceNamesOnePayload
    DryRunHoldsBack
PROPERTIES
    Convergence
    ImplementsStream
CHECK_DEADLOCK FALSE
