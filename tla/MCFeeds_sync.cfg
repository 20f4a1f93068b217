SPECIFICATION FairSpec
CONSTANTS
    Feeds = {f}
    Prefixes = {p}
    Urls = {u, v}
    ListChoices = {"blocklist", "whitelist"}
    Intervals = {1}
    FlagList = ""
    FlagInterval = 0
    Hour = 2
    MaxAge = 1
    MaxSaves = 2
    MaxFetchErrors = 1
    MaxAnnounceErrors = 1
    MaxFileFaults = 0
    MaxManual = 0
    MaxRestarts = 0
    NoFeed = NoFeed
    NoUrl = NoUrl
CHECK_DEADLOCK FALSE
INVARIANT TypeOK
INVARIANT NoOrphanRoutes
PROPERTY LateSyncAnnouncesNothing
PROPERTY UpdatedUrlIsFetched
