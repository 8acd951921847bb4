SPECIFICATION PageSpec
CONSTANTS
    app = app
    odd = odd
    localhost = localhost
    loopback6 = loopback6
    port = port
    cb = cb
    home = home
    Hosts = {app, odd, localhost, loopback6}
    Loopback = {localhost, loopback6}
    PlainHosts = {app, localhost}
    Ports = {port}
    BadPort = BadPort
    Paths = {cb, home}
    MaxRedirects = 1
    None = None
    Requests = {r1, r2}
    Tabs = {t1, t2}
    Uris <- MCUris
    AllowedRedirects <- MCAllowed
SYMMETRY MCSymmetry
INVARIANTS
    FormsLeadToTheClient
    PlainLoginsArrive
    CodesGoWhereRegistered
CHECK_DEADLOCK FALSE
