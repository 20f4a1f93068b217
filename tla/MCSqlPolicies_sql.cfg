SPECIFICATION FairSpec
CONSTANTS
    Feeds = {f1}
    Prefixes = {{1, 2}, {1}}
    Manual = Manual
    NoRow = NoRow
    NoFeed = NoFeed
    MaxEvents = 3
    MaxFaults = 1
INVARIANTS
    TypeOK
    RoutesFollowTables
PROPERTY DueFeedIsSynced
CHECK_DEADLOCK FALSE
