SPECIFICATION DeploymentSpec
CONSTANTS
    Blank = Blank
    Given = Given
    ScryptHash = ScryptHash
    BrokenHash = BrokenHash
    Guid = Guid
    Domain = Domain
    None = None
    Ttls = {1, 3, 5}
    Uris = {own}
    Upns = {ana}
    Hosts = {ours}
    BadHosts = {withPort}
    Bases = {public, internal}
    DefaultUris = {claude}
    DefaultHosts = {chatgpt}
    ours = ours
    chatgpt = chatgpt
    appOfOurs = appOfOurs
    ClientHosts = {appOfOurs, chatgpt}
    Under <- MCUnder
    People = {ana, eve}
    MinTtl = 2
    MaxTtl = 4
    DefaultTtl = 2
INVARIANTS
    NothingOpensByMistake
    AllowlistsKeepOut
    ParkedRequestsCanFinish
    IssAsAdvertised
CHECK_DEADLOCK FALSE
