SPECIFICATION StoreSpec
CONSTANTS
    Ids = {i1, i2}
    People = {p1}
    Clients = {c1, c2}
    None = None
    Ttl = 2
    MaxTime = 5
INVARIANT StoreTypeOK
PROPERTY KeepsPromise
CHECK_DEADLOCK FALSE
