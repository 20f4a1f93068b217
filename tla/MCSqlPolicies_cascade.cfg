SPECIFICATION Spec
CONSTANTS
    Feeds = {f1}
    Prefixes = {{1}}
    Manual = Manual
    NoRow = NoRow
    NoFeed = NoFeed
    MaxEvents = 3
    MaxFaults = 0
INVARIANT DeleteCascades
CHECK_DEADLOCK FALSE
