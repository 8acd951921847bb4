SPECIFICATION Spec
CONSTANTS
    StaticClient = static
    UrlClients = {url}
    RedirectUris = {r1, r2}
    Verifiers = {v1, v2}
    People = {owner}
    None = None
    LoginMode = "none"
    CimdEnabled = TRUE
    MaxGrants = 2
    MaxIssued = 7
    AllowedRedirects = {r1}
    LoginUser = owner
    AllowedUpns = {}
    Logins = {s1}
    ClientIps = {ip1}
    MaxAttempts = 1
    Calls = {c1, c2}
SYMMETRY Symmetric
INVARIANTS
    IInv
    SpentOnce
    ExchangesProveRequest
PROPERTIES
    GrantsLiveOnce
CHECK_DEADLOCK FALSE
