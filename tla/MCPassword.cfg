SPECIFICATION FairSpec
CONSTANTS
    StaticClient = static
    UrlClients = {url}
    RedirectUris = {r1}
    Verifiers = {v1}
    People = {owner}
    None = None
    LoginMode = "password"
    CimdEnabled = TRUE
    MaxGrants = 1
    MaxIssued = 3
    AllowedRedirects = {r1}
    LoginUser = owner
    AllowedUpns = {}
    Logins = {s1, s2, s3}
    ClientIps = {ip1}
    MaxAttempts = 2
    Calls = {c1}
INVARIANTS
    Provenance
    OneHolderPerGrant
    GuessesLimited
PROPERTIES
    RequestsAnswered
CHECK_DEADLOCK FALSE
