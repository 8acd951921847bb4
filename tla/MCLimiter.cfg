SPECIFICATION LimiterSpec
CONSTANTS
    Addresses = {a1, a2}
    MaxAttempts = 2
    WindowSeconds = 2
    Grain = 2
    None = None
    MaxCount = 4
    MaxTime = 8
SYMMETRY Symmetric
INVARIANTS
    LimiterIInv
    BurstsBounded
    LockoutEnds
    PatiencePays
PROPERTY CountsAttempts
CHECK_DEADLOCK FALSE
