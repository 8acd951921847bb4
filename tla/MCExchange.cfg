SPECIFICATION ExchangeSpec
CONSTANTS
    Clients = {u1, u2}
    Jtis = {j1}
    Handlers = {h1, h2}
    Codes = {d1, d2}
    None = None
    Grain = 2
    Leeway = 1
    MaxLifetime = 0
    MaxExp = 2
    MaxAccepted = 3
    MaxCrashes = 1
SYMMETRY Symmetric
INVARIANTS
    ExchangeIInv
    NoCodeIsWasted
    OneExchangePerAssertion
    ReplayedOnlyAsItExpires
    OnlyOwnReplaysRefused
CHECK_DEADLOCK FALSE
