--------------------------- MODULE DeploymentProofs ---------------------------
(***************************************************************************)
(* Proofs about Deployment, for all values of its constants: what every    *)
(* environment with which the application starts means for the server and  *)
(* for its clients.                                                        *)
(***************************************************************************)
EXTENDS Deployment, TLAPS

(***************************************************************************)
(* load_oauth_settings.                                                    *)
(***************************************************************************)

LEMMA EnvironmentParts ==
    ASSUME NEW e \in Environments
    PROVE  /\ e.ttl \in Ttls \cup {Blank, Given} /\ TtlAccepted(e.ttl)
           /\ e.redirects \in Csv(Uris) /\ CsvAccepted(e.redirects)
           /\ e.issuer \in Bases \cup {Blank}
           /\ e.login \in LoginVars /\ LoginAccepted(e.login)
           /\ e.entra \in EntraVars /\ EntraAccepted(e.entra)
           /\ e.cimd \in CimdVars /\ CimdAccepted(e.cimd)
BY DEF Environments

LEMMA LoadParts ==
    ASSUME NEW e \in Environments
    PROVE  /\ Load(e).tokenTtl = IF e.ttl = Blank THEN DefaultTtl ELSE e.ttl
           /\ Load(e).redirects = IF e.redirects = {} THEN DefaultUris ELSE Items(e.redirects)
           /\ Load(e).issuer = e.issuer
           /\ Load(e).login = e.login
           /\ Load(e).entra.tenant = e.entra.tenant /\ Load(e).entra.id = e.entra.id
           /\ Load(e).entra.secret = e.entra.secret /\ Load(e).entra.upns = Items(e.entra.upns)
           /\ Load(e).cimd.hosts = IF e.cimd.hosts = {} THEN DefaultHosts ELSE Items(e.cimd.hosts)
BY EnvironmentParts DEF Load, EntraVars

LEMMA TtlInRange ==
    ASSUME NEW e \in Environments
    PROVE  Load(e).tokenTtl \in MinTtl .. MaxTtl
BY EnvironmentParts, LoadParts, SettingsAssumption DEF TtlAccepted

\* A server without a login is one of an environment that asks for none.
LEMMA NoLoginIsMeant ==
    ASSUME NEW e \in Environments, ~ LoginEnabled(Load(e))
    PROVE  /\ e.login.username = Blank /\ e.login.password = Blank
           /\ e.entra = [tenant |-> Blank, id |-> Blank, secret |-> Blank, upns |-> {}]
<1>1. ~ PasswordEnabled(Load(e)) /\ ~ EntraEnabled(Load(e))
  BY DEF LoginEnabled
<1>2. e.login.username = Blank /\ e.login.password = Blank
  BY <1>1, EnvironmentParts, LoadParts DEF PasswordEnabled, LoginAccepted
<1>3. e.entra.tenant = Blank /\ e.entra.id = Blank /\ e.entra.secret = Blank
  BY <1>1, EnvironmentParts, LoadParts DEF EntraEnabled, EntraAccepted
<1>4. e.entra.upns = {}
  BY <1>3, EnvironmentParts DEF EntraAccepted, CsvAccepted
<1>5. e.entra = [tenant |-> Blank, id |-> Blank, secret |-> Blank, upns |-> {}]
  BY <1>3, <1>4, EnvironmentParts DEF EntraVars
<1> QED BY <1>2, <1>5

LEMMA ModeFacts ==
    ASSUME NEW s
    PROVE  /\ LoginMode(s) \in {"entra", "password", "none"}
           /\ LoginMode(s) # "none" <=> LoginEnabled(s)
           /\ EntraEnabled(s) => LoginMode(s) = "entra"
BY DEF LoginMode, LoginEnabled

\* The handler of the login that is on has a route.
LEMMA LoginIsMounted ==
    ASSUME NEW s, Enabled(s), LoginMode(s) # "none"
    PROVE  Completion(LoginMode(s)) \in Routes(s)
BY DEF LoginMode, Completion, Routes

\* The issuer of a server that is found at its issuer is that issuer.
LEMMA IssuerFacts ==
    ASSUME NEW e \in Environments, NEW base \in Bases
    PROVE  /\ Issuer(Load(e), base) \in Bases
           /\ Issuer(Load(e), Issuer(Load(e), base)) = Issuer(Load(e), base)
BY EnvironmentParts, LoadParts DEF Issuer

(***************************************************************************)
(* Steps that keep the invariant.                                          *)
(***************************************************************************)

LEMMA NoFlowType == NoFlow \in Flow
BY DEF NoFlow, Flow

LEMMA InitInvariant == DeploymentInit => DeploymentIInv
BY NoFlowType DEF DeploymentInit, DeploymentIInv, DeploymentTypeOK, FlowSound, NothingOpensByMistake,
                  AllowlistsKeepOut, IssAsAdvertised, NoFlow

\* The running server, where a route is mounted.
LEMMA MountedFacts ==
    ASSUME DeploymentTypeOK, NEW route, Mounted(route)
    PROVE  env \in Environments /\ settings = Load(env) /\ env # None /\ Enabled(settings)
BY DEF DeploymentTypeOK, Mounted, Routes

\* Where the flow is given up or begins there is nothing to keep.
LEMMA NoFlowSound ==
    ASSUME flow = NoFlow
    PROVE  FlowSound /\ NothingOpensByMistake /\ AllowlistsKeepOut /\ IssAsAdvertised
BY DEF NoFlow, FlowSound, NothingOpensByMistake, AllowlistsKeepOut, IssAsAdvertised

LEMMA DeployStep ==
    ASSUME DeploymentIInv, NEW e \in Environments, Deploy(e)
    PROVE  DeploymentIInv'
<1> USE DEF DeploymentIInv, Deploy
<1>1. env' = e /\ e # None /\ settings' = Load(e) /\ flow' = flow /\ env = None
  BY DeploymentAssumption
<1>2. flow.stage # "answered" /\ flow.stage # "discovered"
  BY <1>1 DEF DeploymentTypeOK, FlowSound, Announced
<1>3. flow.stage = "parked" => flow.issuer = None
  BY <1>1 DEF FlowSound, Announced
<1>4. DeploymentTypeOK'
  BY <1>1, <1>2, TtlInRange DEF DeploymentTypeOK
<1> QED BY <1>1, <1>2, <1>3, <1>4 DEF FlowSound, NothingOpensByMistake, AllowlistsKeepOut, IssAsAdvertised

LEMMA StopStep == DeploymentIInv /\ Stop => DeploymentIInv'
<1> SUFFICES ASSUME DeploymentIInv, Stop PROVE DeploymentIInv'
  OBVIOUS
<1> USE DEF DeploymentIInv, Stop
<1>1. CASE flow.stage = "parked"
  <2>1. flow' = [NoFlow EXCEPT !.stage = "parked", !.client = flow.client, !.redirect = flow.redirect,
                     !.mode = flow.mode, !.base = flow.base]
    BY <1>1 DEF Left
  <2>2. flow' \in Flow /\ flow'.base \in Bases /\ flow'.mode # "none"
    BY <1>1, <2>1 DEF Flow, NoFlow, DeploymentTypeOK
  <2>3. flow'.stage = "parked" /\ flow'.issuer = None
    BY <2>1 DEF NoFlow
  <2> QED BY <2>2, <2>3 DEF DeploymentTypeOK, FlowSound, NothingOpensByMistake, AllowlistsKeepOut, IssAsAdvertised
<1>2. CASE flow.stage # "parked"
  <2>1. flow' = NoFlow
    BY <1>2 DEF Left
  <2>2. DeploymentTypeOK'
    BY <2>1, NoFlowType DEF DeploymentTypeOK, NoFlow
  <2> QED BY <2>1, <2>2 DEF NoFlow, FlowSound, NothingOpensByMistake, AllowlistsKeepOut, IssAsAdvertised
<1> QED BY <1>1, <1>2

LEMMA DiscoverStep ==
    ASSUME DeploymentIInv, NEW base \in Bases, Discover(base)
    PROVE  DeploymentIInv'
<1> USE DEF DeploymentIInv
<1> PICK issuer : issuer = Issuer(settings, base)
  OBVIOUS
<1>1. env \in Environments /\ env # None /\ settings = Load(env)
  BY MountedFacts DEF Discover
<1>2. issuer \in Bases /\ Issuer(settings, issuer) = issuer
  BY <1>1, IssuerFacts
<1>3. /\ env' = env /\ settings' = settings /\ expiresIn' = expiresIn
      /\ flow' = [NoFlow EXCEPT !.stage = "discovered", !.issuer = issuer, !.base = issuer,
                      !.iss = AnnouncesIss(settings), !.cimd = CimdActive(settings)]
  BY DEF Discover
<1>4. AnnouncesIss(settings) = LoginEnabled(settings) /\ LoginEnabled(settings) \in BOOLEAN
      /\ CimdActive(settings) \in BOOLEAN
  BY DEF AnnouncesIss, LoginEnabled, CimdActive, EntraEnabled, PasswordEnabled
<1>5. flow' \in Flow
  BY <1>2, <1>3, <1>4 DEF NoFlow, Flow
<1>6. /\ flow'.stage = "discovered" /\ flow'.issuer = issuer /\ flow'.base = issuer
      /\ flow'.iss = LoginEnabled(settings) /\ flow'.mode = "none" /\ flow'.sentIss = None
  BY <1>3, <1>4 DEF NoFlow
<1>7. DeploymentTypeOK'
  BY <1>2, <1>3, <1>5, <1>6 DEF DeploymentTypeOK
<1>8. Announced'
  BY <1>1, <1>2, <1>3, <1>6 DEF Announced, Issuer, LoginEnabled, EntraEnabled, PasswordEnabled
<1> QED BY <1>6, <1>7, <1>8 DEF FlowSound, NothingOpensByMistake, AllowlistsKeepOut, IssAsAdvertised

\* The parsed allowlists admit nobody that the environment does not list.
LEMMA ListsAreKept ==
    ASSUME NEW e \in Environments
    PROVE  /\ \A upn : e.entra.upns # {} /\ UpnAllowed(Load(e), upn) => upn \in e.entra.upns
           /\ \A uri : e.redirects # {} /\ UriAllowed(Load(e), uri) => uri \in e.redirects
           /\ \A host : e.cimd.hosts # {} /\ HostAllowed(Load(e), host) => Under[host] \cap e.cimd.hosts # {}
<1>1. e.entra.upns # {} => Items(e.entra.upns) # {}
  BY EnvironmentParts DEF EntraAccepted, CsvAccepted
<1> QED BY <1>1, LoadParts DEF UpnAllowed, UriAllowed, HostAllowed, Items

\* What an authorization at a discovered server starts from.
LEMMA AuthorizeFacts ==
    ASSUME DeploymentIInv, NEW client \in Clients, NEW uri \in RequestUris \cup {None},
           Authorize(client, uri)
    PROVE  /\ env \in Environments /\ env # None /\ settings = Load(env)
           /\ flow \in Flow /\ flow.mode = "none" /\ flow.sentIss = None
           /\ flow.base \in Bases /\ flow.issuer = Issuer(settings, flow.base)
           /\ flow.iss = LoginEnabled(settings)
           /\ client = "static" \/ LoginEnabled(settings)
           /\ IF client = "static" THEN env.redirects # {} => uri \in env.redirects
              ELSE env.cimd.hosts # {} => Under[client] \cap env.cimd.hosts # {}
<1>1. env \in Environments /\ env # None /\ settings = Load(env)
  BY MountedFacts DEF Authorize, DeploymentIInv
<1>2. flow.stage = "discovered"
  BY DEF Authorize
<1>3. client = "static" \/ LoginEnabled(settings)
  BY DEF Authorize, Known, CimdActive
<1>4. IF client = "static" THEN UriAllowed(settings, uri) ELSE HostAllowed(settings, client)
  BY DeploymentAssumption DEF Authorize, Known
<1>5. IF client = "static" THEN env.redirects # {} => uri \in env.redirects
      ELSE env.cimd.hosts # {} => Under[client] \cap env.cimd.hosts # {}
  BY <1>1, <1>4, ListsAreKept
<1> QED BY <1>1, <1>2, <1>3, <1>5 DEF DeploymentIInv, DeploymentTypeOK, FlowSound, Announced

\* The flow after each step of GET /authorize is a flow.
LEMMA AnsweredFlow ==
    ASSUME NEW f \in Flow, NEW g, NEW client \in Clients, NEW uri \in RequestUris \cup {None},
           NEW answer \in {"code", "error"}, NEW sent \in Bases \cup {None},
           g = [f EXCEPT !.stage = "answered", !.client = client, !.redirect = uri,
                    !.answer = answer, !.sentIss = sent]
    PROVE  g \in Flow
BY DEF Flow

LEMMA ParkedFlow ==
    ASSUME NEW f \in Flow, NEW g, NEW client \in Clients, NEW uri \in RequestUris \cup {None},
           NEW mode \in {"entra", "password"}, NEW base \in Bases,
           g = [f EXCEPT !.stage = "parked", !.client = client, !.redirect = uri,
                    !.mode = mode, !.base = base]
    PROVE  g \in Flow
BY DEF Flow

LEMMA ApprovedFlow ==
    ASSUME NEW f \in Flow, NEW g, NEW client \in Clients, NEW uri \in RequestUris \cup {None},
           g = [f EXCEPT !.stage = "answered", !.client = client, !.redirect = uri, !.answer = "code"]
    PROVE  g \in Flow
BY DEF Flow

LEMMA ErrorRedirectStep ==
    ASSUME DeploymentIInv, NEW client \in Clients, NEW uri \in RequestUris \cup {None},
           ErrorRedirect(client, uri)
    PROVE  DeploymentIInv'
<1> PICK sent : sent = IF LoginEnabled(settings) THEN Issuer(settings, flow.base) ELSE None
  OBVIOUS
<1>1. /\ env \in Environments /\ env # None /\ settings = Load(env)
      /\ flow \in Flow /\ flow.base \in Bases /\ flow.issuer = Issuer(settings, flow.base)
      /\ flow.iss = LoginEnabled(settings)
      /\ IF client = "static" THEN env.redirects # {} => uri \in env.redirects
         ELSE env.cimd.hosts # {} => Under[client] \cap env.cimd.hosts # {}
  BY AuthorizeFacts DEF ErrorRedirect
<1>2. /\ env' = env /\ settings' = settings /\ expiresIn' = expiresIn
      /\ flow' = [flow EXCEPT !.stage = "answered", !.client = client, !.redirect = uri,
                      !.answer = "error", !.sentIss = sent]
  BY DEF ErrorRedirect
<1>3. sent \in Bases \cup {None} /\ sent = (IF flow.iss THEN flow.issuer ELSE None)
  BY <1>1, IssuerFacts
<1>4. flow' \in Flow
  BY <1>1, <1>2, <1>3, AnsweredFlow
<1>5. /\ flow'.stage = "answered" /\ flow'.answer = "error" /\ flow'.sentIss = sent
      /\ flow'.client = client /\ flow'.redirect = uri
      /\ flow'.base = flow.base /\ flow'.issuer = flow.issuer /\ flow'.iss = flow.iss
  BY <1>1, <1>2 DEF Flow
<1>6. DeploymentTypeOK'
  BY <1>1, <1>2, <1>4, <1>5 DEF DeploymentIInv, DeploymentTypeOK
<1>7. AllowlistsKeepOut'
  BY <1>1, <1>2, <1>5 DEF AllowlistsKeepOut, ClientListed
<1> QED BY <1>3, <1>5, <1>6, <1>7 DEF DeploymentIInv, FlowSound, NothingOpensByMistake, IssAsAdvertised

LEMMA ParkStep ==
    ASSUME DeploymentIInv, NEW client \in Clients, NEW uri \in RequestUris \cup {None},
           Park(client, uri)
    PROVE  DeploymentIInv'
<1> PICK base : base = IF EntraEnabled(settings) THEN Issuer(settings, flow.base) ELSE flow.base
  OBVIOUS
<1> PICK mode : mode = LoginMode(settings)
  OBVIOUS
<1>1. /\ env \in Environments /\ env # None /\ settings = Load(env)
      /\ flow \in Flow /\ flow.base \in Bases /\ flow.issuer = Issuer(settings, flow.base)
      /\ flow.iss = LoginEnabled(settings)
      /\ IF client = "static" THEN env.redirects # {} => uri \in env.redirects
         ELSE env.cimd.hosts # {} => Under[client] \cap env.cimd.hosts # {}
  BY AuthorizeFacts DEF Park
<1>2. /\ env' = env /\ settings' = settings /\ expiresIn' = expiresIn
      /\ flow' = [flow EXCEPT !.stage = "parked", !.client = client, !.redirect = uri,
                      !.mode = mode, !.base = base]
  BY DEF Park
<1>3. mode \in {"entra", "password"} /\ LoginEnabled(settings)
  BY ModeFacts DEF Park
<1>4. base \in Bases /\ Issuer(settings, base) = flow.issuer
  BY <1>1, IssuerFacts
<1>5. flow' \in Flow
  BY <1>1, <1>2, <1>3, <1>4, ParkedFlow
<1>6. /\ flow'.stage = "parked" /\ flow'.mode = mode /\ flow'.base = base
      /\ flow'.client = client /\ flow'.redirect = uri
      /\ flow'.issuer = flow.issuer /\ flow'.iss = flow.iss
  BY <1>1, <1>2 DEF Flow
<1>7. DeploymentTypeOK'
  BY <1>1, <1>2, <1>3, <1>4, <1>5, <1>6 DEF DeploymentIInv, DeploymentTypeOK
<1>8. Announced' /\ flow'.iss
  BY <1>1, <1>2, <1>3, <1>4, <1>6 DEF Announced, Issuer, LoginEnabled, EntraEnabled, PasswordEnabled
<1>9. ClientListed'
  BY <1>1, <1>2, <1>6 DEF ClientListed
<1> QED BY <1>6, <1>7, <1>8, <1>9
        DEF DeploymentIInv, FlowSound, NothingOpensByMistake, AllowlistsKeepOut, IssAsAdvertised

LEMMA AutoApproveStep ==
    ASSUME DeploymentIInv, NEW client \in Clients, NEW uri \in RequestUris \cup {None},
           AutoApprove(client, uri)
    PROVE  DeploymentIInv'
<1>1. /\ env \in Environments /\ env # None /\ settings = Load(env)
      /\ flow \in Flow /\ flow.base \in Bases /\ flow.mode = "none" /\ flow.sentIss = None
      /\ flow.iss = LoginEnabled(settings)
      /\ client = "static" \/ LoginEnabled(settings)
      /\ client = "static" => (env.redirects # {} => uri \in env.redirects)
  BY AuthorizeFacts DEF AutoApprove
<1>2. /\ env' = env /\ settings' = settings /\ expiresIn' = expiresIn
      /\ flow' = [flow EXCEPT !.stage = "answered", !.client = client, !.redirect = uri, !.answer = "code"]
  BY DEF AutoApprove
<1>3. ~ LoginEnabled(settings)
  BY ModeFacts DEF AutoApprove
<1>4. flow' \in Flow
  BY <1>1, <1>2, ApprovedFlow
<1>5. /\ flow'.stage = "answered" /\ flow'.answer = "code" /\ flow'.client = "static" /\ flow'.redirect = uri
      /\ flow'.mode = "none" /\ flow'.base = flow.base /\ flow'.iss = FALSE /\ flow'.sentIss = None
  BY <1>1, <1>2, <1>3 DEF Flow
<1>6. DeploymentTypeOK'
  BY <1>1, <1>2, <1>4, <1>5 DEF DeploymentIInv, DeploymentTypeOK
<1>7. NothingOpensByMistake'
  BY <1>1, <1>2, <1>3, <1>5, NoLoginIsMeant DEF NothingOpensByMistake
<1>8. AllowlistsKeepOut'
  BY <1>1, <1>2, <1>3, <1>5 DEF AllowlistsKeepOut, ClientListed
<1> QED BY <1>5, <1>6, <1>7, <1>8 DEF DeploymentIInv, FlowSound, IssAsAdvertised

LEMMA CompleteStep ==
    ASSUME DeploymentIInv, NEW upn \in People \cup {None}, Complete(upn)
    PROVE  DeploymentIInv'
<1> PICK sent : sent = Issuer(settings, flow.base)
  OBVIOUS
<1>1. env \in Environments /\ env # None /\ settings = Load(env)
  BY MountedFacts DEF Complete, DeploymentIInv
<1>2. flow.stage = "parked" /\ flow \in Flow /\ flow.base \in Bases /\ flow.mode # "none"
  BY DEF Complete, DeploymentIInv, DeploymentTypeOK
<1>3. /\ env' = env /\ settings' = settings /\ expiresIn' = expiresIn
      /\ flow' = [flow EXCEPT !.stage = "answered", !.person = upn, !.answer = "code", !.sentIss = sent]
  BY DEF Complete
<1>4. sent \in Bases
  BY <1>1, <1>2, IssuerFacts
<1>5. flow.issuer # None => flow.iss /\ sent = flow.issuer /\ ClientListed
  BY <1>2 DEF DeploymentIInv, FlowSound, Announced
<1>6. flow' \in Flow
  BY <1>2, <1>3, <1>4 DEF Flow
<1>7. /\ flow'.stage = "answered" /\ flow'.answer = "code" /\ flow'.sentIss = sent /\ flow'.mode = flow.mode
      /\ flow'.client = flow.client /\ flow'.redirect = flow.redirect /\ flow'.person = upn
      /\ flow'.base = flow.base /\ flow'.issuer = flow.issuer /\ flow'.iss = flow.iss
  BY <1>2, <1>3 DEF Flow
<1>8. DeploymentTypeOK'
  BY <1>1, <1>2, <1>3, <1>6, <1>7 DEF DeploymentIInv, DeploymentTypeOK
<1>9. AllowlistsKeepOut'
  <2>1. flow.mode = "entra" /\ env.entra.upns # {} => upn \in env.entra.upns
    BY <1>1, ListsAreKept DEF Complete
  <2>2. flow.issuer # None => ClientListed'
    BY <1>3, <1>5, <1>7 DEF ClientListed
  <2> QED BY <1>3, <1>7, <2>1, <2>2 DEF AllowlistsKeepOut
<1> QED BY <1>2, <1>5, <1>7, <1>8, <1>9 DEF DeploymentIInv, FlowSound, NothingOpensByMistake, IssAsAdvertised

\* Where a person is turned away or gives up, nothing is left.
LEMMA EndStep ==
    ASSUME DeploymentIInv, flow' = NoFlow, UNCHANGED <<env, settings, expiresIn>>
    PROVE  DeploymentIInv'
<1>1. DeploymentTypeOK'
  BY NoFlowType DEF DeploymentIInv, DeploymentTypeOK, NoFlow
<1> QED BY <1>1 DEF DeploymentIInv, NoFlow, FlowSound, NothingOpensByMistake, AllowlistsKeepOut, IssAsAdvertised

LEMMA IssueTokenStep == DeploymentIInv /\ IssueToken => DeploymentIInv'
<1> SUFFICES ASSUME DeploymentIInv, IssueToken PROVE DeploymentIInv'
  OBVIOUS
<1>1. env' = env /\ settings' = settings /\ flow' = flow /\ expiresIn' \in MinTtl .. MaxTtl
  BY SettingsAssumption DEF IssueToken
<1> QED BY <1>1 DEF DeploymentIInv, DeploymentTypeOK, FlowSound, Announced, ClientListed,
                    NothingOpensByMistake, AllowlistsKeepOut, IssAsAdvertised, Issuer, LoginEnabled, EntraEnabled, PasswordEnabled

-----------------------------------------------------------------------------

\* load_oauth_settings, build_oauth_endpoints and the handlers keep the
\* inductive invariant, whatever environments follow one another.
THEOREM Invariance == DeploymentSpec => []DeploymentIInv
<1>1. ASSUME DeploymentIInv, [DeploymentNext]_deploymentVars PROVE DeploymentIInv'
  <2>1. CASE UNCHANGED deploymentVars
    BY <1>1, <2>1 DEF deploymentVars, DeploymentIInv, DeploymentTypeOK, FlowSound, Announced, ClientListed,
           NothingOpensByMistake, AllowlistsKeepOut, IssAsAdvertised, Issuer, LoginEnabled, EntraEnabled, PasswordEnabled
  <2>2. CASE \E e \in Environments : Deploy(e)
    BY <1>1, <2>2, DeployStep
  <2>3. CASE Stop
    BY <1>1, <2>3, StopStep
  <2>4. CASE \E base \in Bases : Discover(base)
    BY <1>1, <2>4, DiscoverStep
  <2>5. CASE \E client \in Clients, uri \in RequestUris \cup {None} :
                 ErrorRedirect(client, uri) \/ Park(client, uri) \/ AutoApprove(client, uri)
    BY <1>1, <2>5, ErrorRedirectStep, ParkStep, AutoApproveStep
  <2>6. CASE \E upn \in People \cup {None} : Complete(upn) \/ Forbid(upn)
    BY <1>1, <2>6, CompleteStep, EndStep DEF Forbid
  <2>7. CASE GiveUp
    BY <1>1, <2>7, EndStep DEF GiveUp
  <2>8. CASE IssueToken
    BY <1>1, <2>8, IssueTokenStep
  <2> QED BY <1>1, <2>1, <2>2, <2>3, <2>4, <2>5, <2>6, <2>7, <2>8 DEF DeploymentNext
<1> QED BY <1>1, InitInvariant, PTL DEF DeploymentSpec

\* No code without a login, but where the environment asks for none, and to
\* the pre-configured client; for every environment that is accepted.
THEOREM NothingOpens == DeploymentSpec => []NothingOpensByMistake
<1>1. DeploymentIInv => NothingOpensByMistake
  BY DEF DeploymentIInv
<1> QED BY <1>1, Invariance, PTL

\* Nobody gets a code by an Entra login whom a non-blank OAUTH_ENTRA_ALLOWED_UPNS
\* of the moment does not list, whatever happened since the request was parked;
\* and short of a redeployment no answer goes where the environment's lists of
\* redirect URIs and of hosts do not lead (is_upn_allowed, is_redirect_uri_allowed,
\* is_host_allowed).
THEOREM Allowlists == DeploymentSpec => []AllowlistsKeepOut
<1>1. DeploymentIInv => AllowlistsKeepOut
  BY DEF DeploymentIInv
<1> QED BY <1>1, Invariance, PTL

\* The route that completes a parked request is mounted for as long as the
\* login mode is the one it was parked in.
THEOREM ParkedFinish == DeploymentSpec => []ParkedRequestsCanFinish
<1>1. DeploymentIInv => ParkedRequestsCanFinish
  BY LoginIsMounted DEF DeploymentIInv, DeploymentTypeOK, ParkedRequestsCanFinish, Mounted
<1> QED BY <1>1, Invariance, PTL

\* The answer carries iss exactly if the discovery document said so, and the
\* issuer of that document.
THEOREM IssKept == DeploymentSpec => []IssAsAdvertised
<1>1. DeploymentIInv => IssAsAdvertised
  BY DEF DeploymentIInv
<1> QED BY <1>1, Invariance, PTL

=============================================================================
