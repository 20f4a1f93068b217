SPECIFICATION Spec
CONSTANTS
    Items = {i1}
    Conns = {c1, c2, c3}
    NoConn = NoConn
    NoChange = NoChange
    MaxInFlight = 1
    ServerCursorFile = TRUE
    AgentCursorFile = TRUE
    AgentStoreFile = TRUE
    DryRunStarts = 0
    MaxPublish = 3
    MaxServerRestarts = 1
    MaxAgentRestarts = 1
    MaxBreaks = 0
    MaxFileFaults = 1
SYMMETRY ConnSymmetry
INVARIANTS
    TypeOK
    CursorWindow
    StopAndWait
    NoLostWakeup
    SilentLossBound
    AgentHoldsAVersion
    AppliedInOrder
CHECK_DEADLOCK FALSE
