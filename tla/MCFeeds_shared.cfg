SPECIFICATION Spec
CONSTANTS
    Feeds = {f, g}
    Prefixes = {p}
    Urls = {u}
    ListChoices = {"blocklist"}
    Intervals = {1}
    FlagList = "blocklist"
    FlagInterval = 1
    Hour = 1
    MaxAge = 1
    MaxSaves = 0
    MaxFetchErrors = 0
    MaxAnnounceErrors = 1
    MaxFileFaults = 1
    MaxManual = 1
    MaxRestarts = 1
    NoFeed = NoFeed
    NoUrl = NoUrl
CHECK_DEADLOCK FALSE
SYMMETRY FeedSymmetry
INVARIANT NoOrphanRoutes
