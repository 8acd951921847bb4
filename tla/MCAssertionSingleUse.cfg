SPECIFICATION AssertionSpec
CONSTANTS
    Clients = {u1, u2}
    Jtis = {j1}
    Handlers = {h1, h2}
    None = None
    Grain = 2
    Leeway = 1
    MaxLifetime = 1
    MaxExp = 3
    MaxAccepted = 3
SYMMETRY Symmetric
INVARIANT AssertionsAreSingleUse
CHECK_DEADLOCK FALSE
