----------------------------- MODULE Deployment -----------------------------
(***************************************************************************)
(* A server from its environment to the answer an OAuth client gets:       *)
(* load_oauth_settings, build_oauth_endpoints, the discovery document, and *)
(* one authorization that goes by what the document said.  The server may  *)
(* be stopped and deployed with another environment at any point of it;    *)
(* what is parked is in Redis, and stays.                                  *)
(***************************************************************************)
EXTENDS Settings

CONSTANTS
    People,     \* whom Microsoft vouches for: upn of the id_token, in lower case
    None

ASSUME DeploymentAssumption ==
    /\ None \notin Bases \cup Environments \cup ClientHosts \cup Upns
    /\ "static" \notin ClientHosts \cup {None}
    /\ Blank \notin People \cup {None}

\* The pre-configured client, and those that are URLs, by their hosts.
Clients == {"static"} \cup ClientHosts

RequestUris == Uris \cup DefaultUris

VARIABLES
    env,        \* the environment of the running server, None if there is none
    settings,   \* what was loaded from it
    flow,       \* one authorization, as the client and its browser know it
    expiresIn   \* of the access token issued last

deploymentVars == <<env, settings, flow, expiresIn>>

\* The routes that build_oauth_endpoints mounts.  Faulty: the password first.
RoutesPasswordFirst(s) ==
    IF ~ Enabled(s) THEN {}
    ELSE {"GET /authorize", "POST /token", "GET /.well-known"}
         \cup (IF PasswordEnabled(s) THEN {"POST /authorize"}
               ELSE IF EntraEnabled(s) THEN {"GET /oauth/entra/callback"} ELSE {})

\* The routes that build_oauth_endpoints mounts.
Routes(s) ==
    IF ~ Enabled(s) THEN {}
    ELSE {"GET /authorize", "POST /token", "GET /.well-known"}
         \cup (IF EntraEnabled(s) THEN {"GET /oauth/entra/callback"}
               ELSE IF PasswordEnabled(s) THEN {"POST /authorize"} ELSE {})

Mounted(route) == settings # None /\ route \in Routes(settings)

(* issuer, iss and cimd are what the discovery document announced; base is *)
(* where the browser is, redirect where the pre-configured client wants    *)
(* the answer, person whom the id_token of an Entra login names.           *)
NoFlow == [stage |-> "none", issuer |-> None, iss |-> FALSE, cimd |-> FALSE,
           client |-> None, redirect |-> None, mode |-> "none", base |-> None,
           person |-> None, answer |-> None, sentIss |-> None]

\* Of an authorization the end of the server leaves what is parked; the
\* document may not hold for the next server.
Left ==
    IF flow.stage = "parked"
    THEN [NoFlow EXCEPT !.stage = "parked", !.client = flow.client, !.redirect = flow.redirect,
              !.mode = flow.mode, !.base = flow.base]
    ELSE NoFlow

Flow ==
    [stage : {"none", "discovered", "parked", "answered"},
     issuer : Bases \cup {None}, iss : BOOLEAN, cimd : BOOLEAN,
     client : Clients \cup {None}, redirect : RequestUris \cup {None},
     mode : {"entra", "password", "none"}, base : Bases \cup {None},
     person : People \cup {None}, answer : {"code", "error", None}, sentIss : Bases \cup {None}]

\* The settings are those of the environment, the lifetime of a token in its
\* range, and the authorization fits the running server.
DeploymentTypeOK ==
    /\ env \in Environments \cup {None}
    /\ settings = (IF env = None THEN None ELSE Load(env))
    /\ env # None => settings.tokenTtl \in MinTtl .. MaxTtl
    /\ flow \in Flow
    /\ flow.stage # "none" => flow.base \in Bases
    /\ flow.stage = "parked" => flow.mode # "none"
    /\ flow.stage = "answered" => env # None /\ flow.answer \in {"code", "error"}
    /\ expiresIn \in MinTtl .. MaxTtl \cup {None}

DeploymentInit ==
    /\ env = None
    /\ settings = None
    /\ flow = NoFlow
    /\ expiresIn = None

-----------------------------------------------------------------------------

\* The application starts; with any other environment it does not.
Deploy(e) ==
    /\ env = None
    /\ env' = e
    /\ settings' = Load(e)
    /\ UNCHANGED <<flow, expiresIn>>

Stop ==
    /\ env # None
    /\ env' = None /\ settings' = None /\ expiresIn' = None
    /\ flow' = Left

\* authorization_response_iss_parameter_supported
AnnouncesIss(s) == LoginEnabled(s)

\* GET /.well-known/oauth-authorization-server, at one of the server's URLs.
Discover(base) ==
    /\ Mounted("GET /.well-known")
    /\ flow.stage = "none"
    /\ flow' = [NoFlow EXCEPT !.stage = "discovered", !.issuer = Issuer(settings, base),
                    !.base = Issuer(settings, base), !.iss = AnnouncesIss(settings), !.cimd = CimdActive(settings)]
    /\ UNCHANGED <<env, settings, expiresIn>>

\* The client is known and may be answered there: the pre-configured one at a
\* URI of the allowlist, one that is a URL, if a resolver was made, under an
\* allowed host, at a URI that its document lists (LoginPage).
Known(client, uri) ==
    \/ client = "static" /\ UriAllowed(settings, uri)
    \/ client \in ClientHosts /\ uri = None /\ CimdActive(settings) /\ HostAllowed(settings, client)

\* GET /authorize at the URL the document gave.
Authorize(client, uri) ==
    /\ Mounted("GET /authorize")
    /\ flow.stage = "discovered"
    /\ Known(client, uri)

\* Faulty: iss is left out.
ErrorRedirectBare(client, uri) ==
    /\ Authorize(client, uri)
    /\ flow' = [flow EXCEPT !.stage = "answered", !.client = client, !.redirect = uri, !.answer = "error"]
    /\ UNCHANGED <<env, settings, expiresIn>>

\* unsupported_response_type, or no S256 challenge
ErrorRedirect(client, uri) ==
    /\ Authorize(client, uri)
    /\ flow' = [flow EXCEPT !.stage = "answered", !.client = client, !.redirect = uri, !.answer = "error",
                    !.sentIss = IF LoginEnabled(settings) THEN Issuer(settings, flow.base) ELSE None]
    /\ UNCHANGED <<env, settings, expiresIn>>

\* The request is parked, and the browser sent to Microsoft or shown the form.
Park(client, uri) ==
    /\ Authorize(client, uri)
    /\ LoginMode(settings) # "none"
    /\ flow' = [flow EXCEPT !.stage = "parked", !.client = client, !.redirect = uri,
                    !.mode = LoginMode(settings),
                    !.base = IF EntraEnabled(settings) THEN Issuer(settings, @) ELSE @]
    /\ UNCHANGED <<env, settings, expiresIn>>

\* Nobody logs in here.
AutoApprove(client, uri) ==
    /\ Authorize(client, uri)
    /\ LoginMode(settings) = "none"
    /\ flow' = [flow EXCEPT !.stage = "answered", !.client = client, !.redirect = uri, !.answer = "code"]
    /\ UNCHANGED <<env, settings, expiresIn>>

\* What completes a request that was parked in a login mode.
Completion(mode) == IF mode = "entra" THEN "GET /oauth/entra/callback" ELSE "POST /authorize"

\* The person has logged in: with the form, or at Microsoft by a name (None if
\* the id_token has none) that the allowlist in force by now admits.
Complete(upn) ==
    /\ flow.stage = "parked"
    /\ Mounted(Completion(flow.mode))
    /\ IF flow.mode = "entra" THEN UpnAllowed(settings, upn) ELSE upn = None
    /\ flow' = [flow EXCEPT !.stage = "answered", !.person = upn, !.answer = "code",
                    !.sentIss = Issuer(settings, flow.base)]
    /\ UNCHANGED <<env, settings, expiresIn>>

\* MSG_ENTRA_NOT_ALLOWED: the request is consumed by then.
Forbid(upn) ==
    /\ flow.stage = "parked" /\ flow.mode = "entra"
    /\ Mounted(Completion(flow.mode))
    /\ ~ UpnAllowed(settings, upn)
    /\ flow' = NoFlow
    /\ UNCHANGED <<env, settings, expiresIn>>

\* The client or the person starts over.
GiveUp ==
    /\ flow.stage # "none"
    /\ flow' = NoFlow
    /\ UNCHANGED <<env, settings, expiresIn>>

\* POST /token: the lifetime is the store's.  The bundles are made by
\* MemoryOAuthStores.create() or RedisOAuthStores.from_env().
IssueToken ==
    /\ Mounted("POST /token")
    /\ expiresIn' = DefaultTtl
    /\ UNCHANGED <<env, settings, flow>>

DeploymentNext ==
    \/ \E e \in Environments : Deploy(e)
    \/ Stop
    \/ \E base \in Bases : Discover(base)
    \/ \E client \in Clients, uri \in RequestUris \cup {None} :
           ErrorRedirect(client, uri) \/ Park(client, uri) \/ AutoApprove(client, uri)
    \/ \E upn \in People \cup {None} : Complete(upn) \/ Forbid(upn)
    \/ GiveUp
    \/ IssueToken

DeploymentSpec == DeploymentInit /\ [][DeploymentNext]_deploymentVars

-----------------------------------------------------------------------------

\* A code is given without a login only if the environment does not ask for
\* one in any variable, and only to the pre-configured client: settings made
\* by halves do not open a server (ConfigurationError in oauth.py:352-418).
NothingOpensByMistake ==
    flow.stage = "answered" /\ flow.answer = "code" /\ flow.mode = "none" =>
        /\ env.login.username = Blank /\ env.login.password = Blank
        /\ env.entra = [tenant |-> Blank, id |-> Blank, secret |-> Blank, upns |-> {}]
        /\ flow.client = "static"

\* The answer is on its way to a URI, or to a client of a host, that the
\* environment lists, if it lists any.
ClientListed ==
    IF flow.client = "static"
    THEN env.redirects # {} => flow.redirect \in env.redirects
    ELSE env.cimd.hosts # {} => Under[flow.client] \cap env.cimd.hosts # {}

\* An allowlist that is not blank keeps everyone else out, whatever stands
\* between its commas: nobody gets a code by an Entra login whom the environment
\* of the moment does not list, even if the request was parked under another
\* one; and as long as the server is not redeployed on the way, no code and no
\* error goes to a URI, or to a client of a host, that it does not list.
AllowlistsKeepOut ==
    flow.stage = "answered" =>
        /\ flow.answer = "code" /\ flow.mode = "entra" /\ env.entra.upns # {} =>
               flow.person \in env.entra.upns
        /\ flow.issuer # None => ClientListed

\* What GET /authorize parks can be completed for as long as the login mode is
\* the same: the handlers and the routes decide alike which login is on, even
\* when both are configured and the server is restarted in between.
ParkedRequestsCanFinish ==
    flow.stage = "parked" /\ settings # None /\ Enabled(settings) /\ flow.mode = LoginMode(settings) =>
        Mounted(Completion(flow.mode))

\* The authorization response carries iss exactly if the discovery document
\* said so (RFC 9207, http.py:702-705), and then it is the issuer of that
\* document, by whichever of its URLs the server was found, and through
\* Microsoft and back; unless the settings changed on the way.
IssAsAdvertised ==
    flow.stage = "answered" /\ flow.issuer # None =>
        flow.sentIss = (IF flow.iss THEN flow.issuer ELSE None)

\* "OAUTH_TOKEN_TTL_SECONDS | Access token lifetime" (README.md:53)
TokensLiveAsConfigured ==
    expiresIn # None => expiresIn = settings.tokenTtl

-----------------------------------------------------------------------------
(* What an authorization relies on. *)

\* As long as a client goes by a discovery document, the server is the one that
\* made it, and is found at the issuer of the document.
Announced ==
    /\ env # None
    /\ flow.issuer = Issuer(settings, flow.base)
    /\ flow.iss = LoginEnabled(settings)

FlowSound ==
    /\ flow.stage = "discovered" => Announced /\ flow.mode = "none" /\ flow.sentIss = None
    /\ flow.stage = "parked" /\ flow.issuer # None => Announced /\ flow.iss /\ ClientListed

\* The inductive invariant.
DeploymentIInv ==
    /\ DeploymentTypeOK
    /\ FlowSound
    /\ NothingOpensByMistake
    /\ AllowlistsKeepOut
    /\ IssAsAdvertised

=============================================================================
