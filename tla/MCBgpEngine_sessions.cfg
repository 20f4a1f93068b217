SPECIFICATION FairSpec
CONSTANTS
    Addresses = {r1, r2}
    ASNs = {as1, as2}
    AllowedASNs = {as1}
    MaxSessions = 1
    NoASN = NoASN
    MaxConnects = 4
    MaxHandshakes = 1
INVARIANTS
    TypeOK
    SettledAddress
    QuietWithinLimits
PROPERTIES
    ForeignIsClosed
    ExcessIsClosed
CHECK_DEADLOCK FALSE
