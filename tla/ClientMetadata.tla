--------------------------- MODULE ClientMetadata ---------------------------
(***************************************************************************)
(* cimd.py: what a client that is a URL may say about itself               *)
(* (parse_client_metadata), the redirect URIs that follow from it          *)
(* (is_redirect_uri_allowed, _loopback_port_match), and how the client     *)
(* must authenticate (authenticate_cimd_client of http.py).                *)
(*                                                                         *)
(* A URI is the record that urlsplit makes of it; path stands for path and *)
(* query, user for any userinfo.                                           *)
(***************************************************************************)
EXTENDS Naturals, FiniteSets

CONSTANTS
    Hosts,
    Loopback,       \* _LOOPBACK_HOSTS
    Ports,
    BadPort,        \* no number, or one of too many digits
    Paths,
    MaxRedirects,   \* bound on the redirect URIs of a document
    Uris,           \* the URIs that documents and requests contain
    None

Uri == [scheme : {"https", "http", "custom"}, host : Hosts,
        port : Ports \cup {BadPort, None}, path : Paths,
        user : BOOLEAN, fragment : BOOLEAN]

ASSUME MetadataAssumption ==
    /\ Loopback \subseteq Hosts
    /\ BadPort \notin Ports \cup {None}
    /\ None \notin Ports \cup Uris
    /\ Uris \subseteq Uri

Methods == {"none", "private_key_jwt", "client_secret_basic"}

\* client_id: does the document name the URL it came from.  jwks_uri "away" is
\* on a host that is not allowed.  jwks "empty" is {}; "unusable" is another
\* object that parse_jwks finds no key in, {"keys": []} for one.
Document ==
    [client_id : BOOLEAN, secret : BOOLEAN,
     redirects : {uris \in SUBSET Uris : Cardinality(uris) <= MaxRedirects},
     methods : SUBSET Methods,
     jwks_uri : {"absent", "invalid", "allowed", "away"},
     jwks : {"absent", "invalid", "empty", "unusable", "keys"},
     signing_alg : {"absent", "supported", "unsupported"}]

\* A document that names no method is a public client's; secrets are not used.
AuthMethods(doc) ==
    (IF doc.methods = {} THEN {"none"} ELSE doc.methods) \ {"client_secret_basic"}

\* What parse_client_metadata, and then resolve, do not reject.
Accepted(doc) ==
    /\ doc.client_id /\ ~ doc.secret
    /\ doc.redirects # {}
    /\ \A uri \in doc.redirects : uri.scheme \in {"https", "http"} /\ ~ uri.fragment
    /\ AuthMethods(doc) # {}
    /\ doc.jwks_uri \in {"absent", "allowed"} /\ doc.jwks # "invalid"
    /\ "private_key_jwt" \in AuthMethods(doc) =>
           doc.jwks_uri = "allowed" \/ doc.jwks \in {"unusable", "keys"}
    /\ doc.signing_alg # "unsupported"

\* ClientMetadata.  keys: does _client_keys find a key, or a place to look for
\* one; it takes jwks_uri first, and otherwise what parse_jwks makes of jwks.
Parse(doc) ==
    [redirects |-> doc.redirects,
     methods |-> AuthMethods(doc),
     keys |-> doc.jwks_uri = "allowed" \/ doc.jwks = "keys"]

Metadata == {Parse(doc) : doc \in {d \in Document : Accepted(d)}}

-----------------------------------------------------------------------------

\* Faulty: one loopback address is as good as another.
LoopbackMatchAnyHost(registered, requested) ==
    /\ ~ requested.fragment
    /\ registered.scheme = "http" /\ requested.scheme = "http"
    /\ registered.host \in Loopback /\ requested.host \in Loopback
    /\ ~ requested.user
    /\ requested.port # BadPort
    /\ requested.path = registered.path

\* _loopback_port_match
LoopbackMatch(registered, requested) ==
    /\ ~ requested.fragment
    /\ registered.scheme = "http" /\ requested.scheme = "http"
    /\ registered.host \in Loopback /\ requested.host = registered.host
    /\ ~ requested.user
    /\ requested.port # BadPort
    /\ requested.path = registered.path

\* ClientMetadata.is_redirect_uri_allowed
RedirectAllowed(metadata, uri) ==
    uri \in metadata.redirects \/ \E registered \in metadata.redirects : LoopbackMatch(registered, uri)

\* authenticate_cimd_client: with an assertion that verifies, for which the
\* client needs keys, or without one.
Authenticates(metadata, assertion) ==
    IF assertion THEN "private_key_jwt" \in metadata.methods /\ metadata.keys
    ELSE "none" \in metadata.methods

=============================================================================
