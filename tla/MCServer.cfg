SPECIFICATION ServerSpec
CONSTANTS
    StaticClient = static
    UrlClients = {url}
    RedirectUris = {r1}
    Verifiers = {v1}
    People = {owner, guest}
    None = None
    LoginMode = "entra"
    CimdEnabled = TRUE
    MaxGrants = 2
    MaxIssued = 5
    AllowedRedirects = {r1}
    LoginUser = owner
    AllowedUpns = {owner}
    Logins = {s1, s2}
    ClientIps = {ip1}
    MaxAttempts = 2
    Calls = {c1}
    StaticSubjects = {None, guest}
    GateCalls = {g1}
SYMMETRY Symmetric
INVARIANTS
    CodesFollowLogin
    TokensBelongToRequester
    SubjectSurvivesExchange
    UrlClientsAreDelegated
    CallersLoggedIn
CHECK_DEADLOCK FALSE
