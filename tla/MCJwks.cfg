SPECIFICATION JwksSpec
CONSTANTS
    Kids = {k1, k2}
    Callers = {c1, c2}
    Ttl = 3
    MinInterval = 2
    MaxFetch = 1
    Never = Never
    MaxTime = 6
SYMMETRY Symmetric
INVARIANTS
    JwksIInv
    ServedKeysAreRecent
    NewKeysAreFound
PROPERTIES
    WarmStaysWarm
CHECK_DEADLOCK FALSE
