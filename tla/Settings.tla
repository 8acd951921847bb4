------------------------------ MODULE Settings ------------------------------
(***************************************************************************)
(* oauth.py: load_oauth_settings, which reads the environment and either   *)
(* raises ConfigurationError or returns an OAuthSettings, and the          *)
(* properties of OAuthSettings that decide what a server does.             *)
(*                                                                         *)
(* The value of a variable is what is left of it after strip(): Blank when *)
(* it is unset or white space.  A CSV variable is the set of its items; {} *)
(* when it is blank, {Blank} when there is nothing between the commas.     *)
(***************************************************************************)
EXTENDS Integers

CONSTANTS
    Blank,
    Given,                  \* a text that is neither blank nor special
    ScryptHash, BrokenHash, \* passwords that start with scrypt$
    Guid, Domain,           \* tenants: a directory ID, or something else
    Ttls,                   \* lifetimes, in range or not
    Uris, Upns, Hosts,      \* items of the CSV variables
    BadHosts,               \* items of OAUTH_CIMD_ALLOWED_HOSTS with a scheme, port, path or leading dot
    ClientHosts, Under,     \* Under[h]: the items that host h equals or is a subdomain of
    Bases,                  \* scheme://host[:port] by which a server is reached
    DefaultUris, DefaultHosts,
    MinTtl, MaxTtl, DefaultTtl  \* MIN_, MAX_ and DEFAULT_OAUTH_TOKEN_TTL_SECONDS

ASSUME SettingsAssumption ==
    /\ Blank \notin {Given, ScryptHash, BrokenHash, Guid, Domain} \cup Uris \cup Upns \cup Hosts \cup BadHosts \cup Bases
    /\ BrokenHash \notin {Given, ScryptHash} /\ Guid # Domain
    /\ Ttls \subseteq Nat /\ Blank \notin Ttls /\ Given \notin Ttls
    /\ MinTtl \in Nat /\ MaxTtl \in Nat /\ DefaultTtl \in MinTtl .. MaxTtl
    /\ Blank \notin DefaultUris \cup DefaultHosts
    /\ Under \in [ClientHosts -> SUBSET (Hosts \cup DefaultHosts)]

Plain == {Blank, Given}
Csv(items) == SUBSET (items \cup {Blank})

\* The parsed list: blank items are dropped.
Items(csv) == csv \ {Blank}

\* The environment.
ClientVars == [id : Plain, secret : Plain]
LoginVars == [username : Plain, password : Plain \cup {ScryptHash, BrokenHash}]
EntraVars == [tenant : {Blank, Guid, Domain}, id : Plain, secret : Plain, upns : Csv(Upns)]
CimdVars == [enabled : {Blank, "true", "false", Given}, hosts : Csv(Hosts \cup BadHosts)]

-----------------------------------------------------------------------------
(* What is not a ConfigurationError. *)

\* Both or neither.
ClientAccepted(v) == (v.id = Blank) <=> (v.secret = Blank)

TtlAccepted(ttl) == ttl # Given /\ (ttl # Blank => ttl \in MinTtl .. MaxTtl)

\* A CSV variable is blank, or has an item.
CsvAccepted(csv) == csv = {} \/ Items(csv) # {}

LoginAccepted(v) ==
    /\ (v.username = Blank) <=> (v.password = Blank)
    /\ v.password # BrokenHash

\* Faulty: the allowlist is parsed, but a list of nothing passes.
EntraAcceptedAnyCsv(v) ==
    /\ \/ v.tenant = Blank /\ v.id = Blank /\ v.secret = Blank
       \/ v.tenant # Blank /\ v.id # Blank /\ v.secret # Blank
    /\ v.tenant # Domain
    /\ Items(v.upns) # {} => v.tenant # Blank

\* Faulty: each variable is looked at by itself.
EntraAcceptedSingly(v) == v.tenant # Domain /\ CsvAccepted(v.upns)

\* All three or none; the allowlist only with them.
EntraAccepted(v) ==
    /\ \/ v.tenant = Blank /\ v.id = Blank /\ v.secret = Blank
       \/ v.tenant # Blank /\ v.id # Blank /\ v.secret # Blank
    /\ v.tenant # Domain
    /\ CsvAccepted(v.upns)
    /\ Items(v.upns) # {} => v.tenant # Blank

CimdAccepted(v) ==
    /\ v.enabled # Given
    /\ CsvAccepted(v.hosts)
    /\ Items(v.hosts) \cap BadHosts = {}

\* The environments with which the application starts.
Environments ==
    [client : {v \in ClientVars : ClientAccepted(v)},
     ttl : {t \in Ttls \cup {Blank, Given} : TtlAccepted(t)},
     redirects : {csv \in Csv(Uris) : CsvAccepted(csv)},
     issuer : Bases \cup {Blank},
     login : {v \in LoginVars : LoginAccepted(v)},
     entra : {v \in EntraVars : EntraAccepted(v)},
     cimd : {v \in CimdVars : CimdAccepted(v)}]

\* OAuthSettings; a blank CSV means the default.
Load(env) ==
    [client |-> env.client,
     tokenTtl |-> IF env.ttl = Blank THEN DefaultTtl ELSE env.ttl,
     redirects |-> IF env.redirects = {} THEN DefaultUris ELSE Items(env.redirects),
     issuer |-> env.issuer,
     login |-> env.login,
     entra |-> [env.entra EXCEPT !.upns = Items(@)],
     cimd |-> [enabled |-> env.cimd.enabled # "false",
               hosts |-> IF env.cimd.hosts = {} THEN DefaultHosts ELSE Items(env.cimd.hosts)]]

-----------------------------------------------------------------------------
(* Properties of OAuthSettings. *)

Enabled(s) == s.client.id # Blank /\ s.client.secret # Blank
EntraEnabled(s) == s.entra.tenant # Blank /\ s.entra.id # Blank /\ s.entra.secret # Blank
PasswordEnabled(s) == s.login.username # Blank /\ s.login.password # Blank
LoginEnabled(s) == EntraEnabled(s) \/ PasswordEnabled(s)

LoginMode(s) ==
    IF EntraEnabled(s) THEN "entra" ELSE IF PasswordEnabled(s) THEN "password" ELSE "none"

\* URL clients are served, but never without a login.
CimdActive(s) == Enabled(s) /\ s.cimd.enabled /\ s.cimd.hosts # {} /\ LoginEnabled(s)

\* is_upn_allowed, of a name in lower case or None.
UpnAllowed(s, upn) == s.entra.upns = {} \/ upn \in s.entra.upns

\* OAuthSettings.is_redirect_uri_allowed, for the pre-configured client.
UriAllowed(s, uri) == uri \in s.redirects

\* ClientMetadataResolver.is_host_allowed
HostAllowed(s, host) == Under[host] \cap s.cimd.hosts # {}

\* _issuer, for a request that came to base.
Issuer(s, base) == IF s.issuer = Blank THEN base ELSE s.issuer

=============================================================================
