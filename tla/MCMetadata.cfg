SPECIFICATION MetadataSpec
CONSTANTS
    inline = inline
    hosted = hosted
    elsewhere = elsewhere
    broken = broken
    home = home
    foreign = foreign
    Urls = {u1}
    Versions <- MCVersions
    Unusable = {broken}
    KeyUris = {home, foreign}
    Foreign = {foreign}
    KeysAt <- MCKeysAt
    MaxAges = {0, 5}
    Requests = {r1, r2}
    None = None
    MinCache = 2
    MaxCache = 4
    DefaultCache = 3
    MaxFetch = 1
    MaxTime = 7
SYMMETRY Symmetric
INVARIANTS
    MetadataIInv
    ServedWithinLifetime
    KeysOnAllowedHosts
CHECK_DEADLOCK FALSE
