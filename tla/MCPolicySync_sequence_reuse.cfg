SPECIFICATION Spec
CONSTANTS
    Items = {i1}
    Conns = {c1, c2, c3}
    NoConn = NoConn
    NoChange = NoChange
    MaxInFlight = 16
    ServerCursorFile = TRUE
    AgentCursorFile = TRUE
    AgentStoreFile = TRUE
    DryRunStarts = 0
    MaxPublish = 2
    MaxServerRestarts = 1
    MaxAgentRestarts = 0
    MaxBreaks = 0
    MaxFileFaults = 0
INVARIANT SequenceNamesOnePayload
CHECK_DEADLOCK FALSE
