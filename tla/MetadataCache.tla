---------------------------- MODULE MetadataCache ----------------------------
(***************************************************************************)
(* cimd.py: ClientMetadataResolver.resolve, the cache of the documents by  *)
(* which clients that are URLs describe themselves, and _client_keys, the  *)
(* key caches that hang on it.                                             *)
(*                                                                         *)
(* resolve looks at the cache and the clock, then awaits (the name lookup, *)
(* the request) and stores what came.  Requests for one client run at the  *)
(* same time, and their documents may come in another order than they were *)
(* asked for.                                                              *)
(***************************************************************************)
EXTENDS Integers, Functions

CONSTANTS
    Urls,           \* client identifiers on allowed hosts
    Versions,       \* what a client may publish about itself
    Unusable,       \* versions that parse_client_metadata rejects
    KeyUris,        \* where a document may say that the client's keys are
    Foreign,        \* those of them on hosts that are not allowed
    KeysAt,         \* KeysAt[v]: the jwks_uri of v, None if its keys are inline
    MaxAges,        \* values of Cache-Control: max-age
    Requests,       \* calls of resolve that run at once
    None,
    MinCache,       \* CIMD_MIN_CACHE_SECONDS
    MaxCache,       \* CIMD_MAX_CACHE_SECONDS
    DefaultCache,   \* CIMD_DEFAULT_CACHE_SECONDS
    MaxFetch,       \* bound on the duration of a fetch; every network operation
                    \* of one is bounded by CIMD_HTTP_TIMEOUT_SECONDS
    MaxTime         \* bound on the clock

ASSUME MetadataAssumption ==
    /\ Unusable \subseteq Versions /\ Foreign \subseteq KeyUris
    /\ None \notin Versions \cup KeyUris \cup MaxAges \cup Urls
    /\ KeysAt \in [Versions -> KeyUris \cup {None}]
    /\ MaxAges \subseteq Nat
    /\ MinCache \in Nat \ {0} /\ MaxCache \in Nat /\ DefaultCache \in Nat
    /\ MinCache <= DefaultCache /\ DefaultCache <= MaxCache
    /\ MaxFetch \in Nat /\ MaxTime \in Nat

Response == [version : Versions, maxAge : MaxAges \cup {None}]

VARIABLES
    now,            \* self._clock()
    documents,      \* self._documents, each with the time it expires at
    keyCaches,      \* the keys of self._jwks
    request,        \* request[r]: the local variables of one resolve
    served          \* history: what the latest call to end has returned

metadataVars == <<now, documents, keyCaches, request, served>>

Idle == [pc |-> "idle", url |-> None, since |-> 0, response |-> None, at |-> 0]
NothingServed == [url |-> None, version |-> None, maxAge |-> None, asOf |-> 0]

\* Faulty: without the upper limit.
CacheTtlUncapped(maxAge) ==
    IF maxAge = None THEN DefaultCache
    ELSE IF maxAge < MinCache THEN MinCache ELSE maxAge

\* _cache_ttl: max-age, within limits.
CacheTtl(maxAge) ==
    LET ttl == IF maxAge = None THEN DefaultCache ELSE maxAge
    IN  IF ttl < MinCache THEN MinCache ELSE IF ttl > MaxCache THEN MaxCache ELSE ttl

\* Types; a document is not cached beyond the longest lifetime.
MetadataTypeOK ==
    /\ now \in 0 .. MaxTime
    /\ DOMAIN documents \subseteq Urls
    /\ \A u \in DOMAIN documents : documents[u] \in
           [version : Versions, maxAge : MaxAges \cup {None}, asOf : 0 .. now, until : 0 .. now + MaxCache]
    /\ keyCaches \subseteq KeyUris
    /\ request \in [Requests -> [pc : {"idle", "fetch", "answered"}, url : Urls \cup {None},
                        since : 0 .. now, response : Response \cup {None}, at : 0 .. now]]
    /\ served \in [url : Urls \cup {None}, version : Versions \cup {None},
                   maxAge : MaxAges \cup {None}, asOf : 0 .. now]

MetadataInit ==
    /\ now = 0
    /\ documents = [u \in {} |-> None]
    /\ keyCaches = {}
    /\ request = [r \in Requests |-> Idle]
    /\ served = NothingServed

-----------------------------------------------------------------------------

Serve(u, doc) ==
    served' = [url |-> u, version |-> doc.version, maxAge |-> doc.maxAge, asOf |-> doc.asOf]

Fresh(u) == u \in DOMAIN documents /\ documents[u].until > now

\* resolve finds the document in the cache.
Lookup(r, u) ==
    /\ request[r].pc = "idle"
    /\ Fresh(u)
    /\ Serve(u, documents[u])
    /\ UNCHANGED <<now, documents, keyCaches, request>>

\* resolve goes to fetch it, and keeps the time.
StartFetch(r, u) ==
    /\ request[r].pc = "idle"
    /\ ~ Fresh(u)
    /\ request' = [request EXCEPT ![r] =
           [pc |-> "fetch", url |-> u, since |-> now, response |-> None, at |-> 0]]
    /\ UNCHANGED <<now, documents, keyCaches, served>>

\* The client's host answers with what it publishes at the time, which may be
\* anything; or the name does not resolve to public addresses, or something on
\* the way fails.
Answer(r) ==
    /\ request[r].pc = "fetch"
    /\ \E response \in Response \cup {None} :
           request' = [request EXCEPT ![r] =
               [pc |-> "answered", url |-> request[r].url, since |-> request[r].since,
                response |-> response, at |-> now]]
    /\ UNCHANGED <<now, documents, keyCaches, served>>

\* Faulty: wherever the client says its keys are.
AcceptableAnywhere(response) ==
    response # None => response.version \notin Unusable

\* The response passes parse_client_metadata, and its keys are on an allowed
\* host.
Acceptable(response) ==
    response # None => /\ response.version \notin Unusable
                       /\ KeysAt[response.version] \notin Foreign

\* Faulty: the lifetime counts from the end of the fetch.
FinishFetchLate(r) ==
    LET response == request[r].response
        doc == [version |-> response.version, maxAge |-> response.maxAge,
                asOf |-> request[r].at, until |-> now + CacheTtl(response.maxAge)]
    IN  /\ request[r].pc = "answered"
        /\ response # None /\ Acceptable(response)
        /\ documents' = [u \in DOMAIN documents \cup {request[r].url} |->
                            IF u = request[r].url THEN doc ELSE documents[u]]
        /\ Serve(request[r].url, doc)
        /\ request' = [request EXCEPT ![r] = Idle]
        /\ UNCHANGED <<now, keyCaches>>

\* The document is good: cache it and return it, whatever the cache holds by
\* now.  Its lifetime counts from before the fetch.
FinishFetch(r) ==
    LET response == request[r].response
        doc == [version |-> response.version, maxAge |-> response.maxAge,
                asOf |-> request[r].at, until |-> request[r].since + CacheTtl(response.maxAge)]
    IN  /\ request[r].pc = "answered"
        /\ response # None /\ Acceptable(response)
        /\ documents' = [u \in DOMAIN documents \cup {request[r].url} |->
                            IF u = request[r].url THEN doc ELSE documents[u]]
        /\ Serve(request[r].url, doc)
        /\ request' = [request EXCEPT ![r] = Idle]
        /\ UNCHANGED <<now, keyCaches>>

\* resolve raises, and leaves the cache as it is: the client is refused.
FailFetch(r) ==
    /\ request[r].pc = "answered"
    /\ request[r].response = None \/ ~ Acceptable(request[r].response)
    /\ served' = NothingServed
    /\ request' = [request EXCEPT ![r] = Idle]
    /\ UNCHANGED <<now, documents, keyCaches>>

\* _client_keys: an assertion of the client just served is checked with the
\* keys its document names; a cache for them is made once and kept.
UseKeys ==
    /\ served.url # None
    /\ KeysAt[served.version] # None
    /\ keyCaches' = keyCaches \cup {KeysAt[served.version]}
    /\ UNCHANGED <<now, documents, request, served>>

\* Time passes, but no fetch is under way for longer than MaxFetch.
Tick ==
    /\ now < MaxTime
    /\ \A r \in Requests : request[r].pc # "idle" => now - request[r].since < MaxFetch
    /\ now' = now + 1
    /\ served' = NothingServed
    /\ UNCHANGED <<documents, keyCaches, request>>

MetadataNext ==
    \/ \E r \in Requests, u \in Urls : Lookup(r, u) \/ StartFetch(r, u)
    \/ \E r \in Requests : Answer(r) \/ FinishFetch(r) \/ FailFetch(r)
    \/ UseKeys
    \/ Tick

MetadataSpec == MetadataInit /\ [][MetadataNext]_metadataVars

-----------------------------------------------------------------------------

\* A document of age t with that Cache-Control may still be served:
\* "respeitando Cache-Control: max-age (entre 60 s e 24 h)" (README.md:99).
MayServe(maxAge, t) ==
    \/ t < MinCache
    \/ maxAge = None /\ t < DefaultCache
    \/ maxAge # None /\ t < maxAge /\ t < MaxCache

\* A client is described by what it published within the lifetime that came
\* with it, or during a fetch just ended; even when a slow fetch overwrites a
\* later document, and when the client's host fails.
ServedWithinLifetime ==
    served.url # None =>
        \/ MayServe(served.maxAge, now - served.asOf)
        \/ now - served.asOf <= MaxFetch

\* Signing keys are only ever fetched from allowed hosts, however long ago
\* the document that names them was let in.
KeysOnAllowedHosts == keyCaches \cap Foreign = {}

------------------------------------------------------------------------------
(* Why it holds: the inductive invariant behind the properties above. *)

\* A fetch under way was not started too long ago, and was answered since.
RequestsSound ==
    \A r \in Requests :
        request[r].pc # "idle" =>
            /\ request[r].url \in Urls
            /\ now - request[r].since <= MaxFetch
            /\ request[r].pc = "answered" => request[r].since <= request[r].at

\* A cached document is acceptable, and expires within its lifetime; so is the
\* one that was served just now.
DocumentsSound ==
    /\ \A u \in DOMAIN documents :
           /\ KeysAt[documents[u].version] \notin Foreign
           /\ documents[u].until <= documents[u].asOf + CacheTtl(documents[u].maxAge)
    /\ served.url # None =>
           served.version \in Versions /\ KeysAt[served.version] \notin Foreign

\* The inductive invariant.
MetadataIInv ==
    /\ MetadataTypeOK
    /\ RequestsSound
    /\ DocumentsSound
    /\ ServedWithinLifetime
    /\ KeysOnAllowedHosts

=============================================================================
