# Verification of nn-mcp-auth

TLA+ models of `src/src/nn_mcp_auth`, the TLC runs that check them on small
instances, and TLAPS proofs about them for every value of the constants.
`PROJECT.json` lists the runs, the theorems, the source lines behind each
definition, the hazards, and for every property a fault that breaks it.

    tlc -workers 2 -config MCServer.cfg MCMcpServer      # one run
    tlapm OAuthServerProofs.tla                          # proofs
    tlapm JwksCacheProofs.tla
    tlapm MetadataCacheProofs.tla
    tlapm AssertedExchangeProofs.tla
    tlapm ExpiringStoreProofs.tla
    tlapm LoginLimiterProofs.tla
    tlapm LoginPageProofs.tla
    tlapm DeploymentProofs.tla

## The system

nn-mcp-auth is a library with which an MCP server becomes its own OAuth 2
authorization server. An application mounts the endpoints
(`build_oauth_endpoints`) and puts `BearerAuthMiddleware` in front of its
paths; both share one `OAuthStores` bundle, in memory (one process) or in Redis
(several replicas).

| Component | State | Operations | Interacts with |
|---|---|---|---|
| Stores (`storage/`) | live pending requests, codes, refresh and access tokens, each with a TTL | create, get, consume (`GETDEL`), issue, pop, is_valid, subject_of, revoke | called by every endpoint and by the gate |
| Authorize endpoint (`http.py`) | the locals of a running request | `GET /authorize`: park the request, or issue a code at once without a login | settings, metadata resolver, pending and code stores |
| Password login (`http.py`) | the locals of a running submission | `POST /authorize`: read, count, verify in a thread, consume, issue | pending store, limiter, code store |
| Entra login (`http.py`, `entra.py`) | the locals of a running callback | consume by `state`, exchange the code, verify the id_token, vet the person, issue | pending store, Microsoft, JWKS cache, code store |
| Token endpoint (`http.py`) | the locals of a running exchange | the three grants; mint access, then refresh token | metadata resolver, replay guard, all token stores |
| Bearer gate (`auth.py`) | the ASGI scope of a call | static tokens, `is_valid`, `subject_of` | access-token store, the application |
| JWKS cache (`jwks.py`) | keys, time of the last fetch | `signing_key`, `_fetch` | the issuer; Entra logins and client assertions |
| Client assertions (`cimd.py`) | claimed `jti`s with their expiry | decode, lifetime, claim | JWKS cache, replay guard |
| Login limiter (`storage/`) | a counter and window per address | hit | password login |
| Metadata resolver (`cimd.py`) | cached documents, and a key cache for each `jwks_uri` | resolve, parse, match a redirect URI | the client's host |
| Settings (`oauth.py`) | constants | loaded once from the environment | everything |
| Discovery (`http.py`) | none | the two metadata documents | settings; what clients then expect of the endpoints |
| Login page (`login_page.py`) | none | the page, its form and its Content-Security-Policy | password login, the browser |
| Passwords, logging, errors, exports | none | pure functions | |

What is hard in it: handlers are coroutines, and over Redis replicas too, so
they interleave between any two store calls; each of them reads, awaits and
writes again (a login reads its request, verifies the password in a thread,
then consumes the request); a single-use credential is consumed *before* it is
compared and before its successor is minted, so that any failure loses the
grant, and none may duplicate it; TTLs lapse at any point; Redis keeps what an
earlier deployment or another login mode left; clocks are read more than once
and rounded. `PROJECT.json` lists these hazards line by line.

What makes each component correct:

- stores and endpoints: a grant is in one hand at a time, never spent twice,
  never handed to another client or another person, never approved without a
  login; every request is answered;
- gate: the identity the application sees is the person behind the token;
- stores: what is put is found unaltered until its deadline and no longer, and
  by one taker only, over either backend;
- JWKS cache: what is served is recent, what is new is found, an outage locks
  nobody out, the issuer is not flooded;
- client assertions: a signed assertion is good once, no client spends another's
  `jti`, and a refused or failed request costs no code;
- limiter: no more than the allowed guesses per window, and no lockout that
  outlasts one;
- metadata resolver: a client is what it published lately, its keys come from
  allowed hosts, a code goes only where the client registered;
- settings and discovery: nothing opens by a half-made setting, and the
  endpoints do what the document announced;
- login page: the form leads to the client of its request, and nowhere else.

## Modules

| Module | Models |
|---|---|
| `OAuthState` | the stores, their records and calls, expiry, and the ledger |
| `AuthorizeEndpoint` | `GET /authorize`, `POST /authorize`, the Entra callback, the limiter |
| `TokenEndpoint` | `POST /token` |
| `OAuthServer` | the two endpoints over one set of stores; their properties, the inductive invariant, the refinement |
| `GrantLifecycle` | the abstract specification: the life of one grant |
| `BearerGate` | `BearerAuthMiddleware` over the access-token store |
| `McpServer` | `OAuthServer` and `BearerGate` together |
| `OAuthServerProofs` | theorems in four parts: one holder per grant and nothing spent twice; what a token stands for; that `OAuthServer` implements `GrantLifecycle`; and the same of `McpServer`, with who is calling |
| `JwksCache` | `jwks.py` with concurrent callers |
| `JwksCacheProofs` | theorems about `JwksCache` |
| `ClientAssertion` | `verify_client_assertion` and the replay guard |
| `AssertedExchange` | `POST /token` behind a client assertion: `ClientAssertion` with the exchange of codes |
| `AssertedExchangeProofs` | theorems about `ClientAssertion` and `AssertedExchange` |
| `OneTimeStore` | the abstract specification of a store |
| `ExpiringStore` | the four stores over memory and Redis, with a clock |
| `ExpiringStoreProofs` | the theorem that `ExpiringStore` implements `OneTimeStore` |
| `AttemptCounter` | the abstract specification of the attempt limiter |
| `LoginLimiter` | the attempt limiter over memory and Redis, with a clock |
| `LoginLimiterProofs` | theorems about `LoginLimiter`, and that it implements `AttemptCounter` |
| `MetadataCache` | the resolver's document cache and the key caches behind it |
| `MetadataCacheProofs` | theorems about `MetadataCache` |
| `ClientMetadata` | what a document may say, and which redirect URIs and authentication follow |
| `LoginPage` | `ClientMetadata` with the login page, its handlers and the browser |
| `LoginPageProofs` | theorems about `LoginPage` |
| `Settings` | `load_oauth_settings` and the properties of `OAuthSettings` |
| `Deployment` | `Settings` with the routes, the discovery document and one authorization |
| `DeploymentProofs` | theorems about `Deployment` |
| `MCOAuthServer`, `MCMcpServer`, `MCJwksCache`, `MCClientAssertion`, `MCAssertedExchange`, `MCExpiringStore`, `MCLoginLimiter`, `MCMetadataCache`, `MCLoginPage`, `MCDeployment` | instances for TLC |

The composition is layered. `OAuthServer` uses the stores as one-time stores
whose entries may go at any time, and `ExpiringStore` shows that both backends
are just that (`OneTimeStore`); it uses the limiter as a counter whose window may
end at any time, and `LoginLimiter`, which has the clock, shows that both
backends are just that (`AttemptCounter`, whose `Attempt` decides as `LoginHit`
does); it takes the settings as constants
and the client as known, which `Settings`, `ClientMetadata` and
`ClientAssertion` account for.

Operators under a comment that begins with "Faulty:" are no part of any
specification. Each is a slip one could make in the definition below it
(a GET in place of a GETDEL, a check left out, a TTL without its leeway), kept
to show that the properties notice.

### How state and actions correspond to the code

**Stores.** A store is a function from live identifiers to records; `Put` and
`Pop` are `SET`/assignment and `GETDEL`/`dict.pop`. One store call is one
atomic step. The tokens are random strings in the code; here an identifier is
its position in `ledger`, a history variable that no handler reads and that
records what each identifier was minted from and for. A TTL is the action
`Expire`, which may come at any time: all relative orders of expirations and
handler steps are included, whatever the TTLs. `StateInit` has empty stores, or
one thing that an earlier deployment left: a refresh token without a client
(before 0.4.0), or a request parked under either login mode.

**Handlers.** A running request is a record in `login`, `call` or `gate` with a
program counter and the handler's locals. A handler is cut at each store call
and at each await whose answer it uses. What comes before its first store call
(parsing, client authentication, fetching the client's metadata document)
changes none of this state and reads only the request and constants, so it is
the guard of the first action, and a request refused there is a stuttering
step. A handler may crash at any point (`LoginCrashes`, `CallCrashes`, `Leave`):
a store raised, or the replica stopped; its locals are lost and the stores keep
what they have.

**Data.** Redirect URIs, verifiers, clients and people are small sets; a
challenge is `S256(v)`, injective as a hash is assumed to be. Client
authentication (secret, assertion or none) is "the client that the request is
from"; `ClientAssertion` has its details. Only URL clients that the settings
serve (`ServedClients`) get past it.

**Entra.** `EntraSignIn` is Microsoft vouching for a person and a nonce; the
`code` parameter of a callback stands for any such sign-in, of this request or
of another one. `CallbackVet` accepts it only with the nonce of the consumed
request and an allowed person; `exchange_code` may fail at will.

**Limiter.** `attempts` is the counter of an address, capped one above the
limit since larger counts behave alike; `WindowEnds` may come at any time, and
restarts the history count `guesses` with it.
`LoginHit` counts and decides in one step, because `hit` returns the count that it
made and nothing is awaited before the comparison.

**Gate.** `CheckValid` and `ReadSubject` are the two reads of the store, between
which `AccessEnds` may fall. `McpServer` lets the gate and the endpoints
interleave freely over the one access-token store.

**JWKS cache.** `signing_key` has one await. `StartFetch` is what precedes it,
`Answer` the issuer's reply (with the keys published at that moment, or a
failure), `FinishFetch` and `FailFetch` what follows it; replies may come in
another order than the requests. Time is in ticks, with small TTL and interval.

**Store backends.** `ExpiringStore` has one store of any class (access,
refresh, code, pending) over either backend. `entries` is the dictionary, or
the keys with the store's prefix. In memory an entry lingers past its deadline
until `Purged`; a call that reads the clock twice is two actions
(`Issue`/`IssuePurge`, `StartPop`/`FinishPop`) between which only `Tick` and
`Restart` fit, since `busy` stands for the one thread. In Redis each command is
one action, `Tick` drops the keys that are past their deadline, and a value is
the JSON object that `Encode` writes and `Decode` reads. The mapping to
`OneTimeStore` is `Live`: the entries that a purge would leave, decoded.

**Limiter with a clock.** `LoginLimiter` has `Grain` ticks in a second, because
both limiters round what is left of a window. `Hit` is the whole of `hit` and
what its caller makes of the count; `HitUnanswered` is a `MULTI` that Redis has
executed and whose reply is lost. `admitted` remembers each attempt that was let
through as its moment and its count in its window, by which two attempts of one
moment are told apart.
`Restart` ends a process, and with it, in memory, the counters and what is
remembered: `BurstsBounded` bounds the bursts of one life of a memory limiter.

**Document cache.** `Lookup` and `StartFetch` are `resolve` up to its first
await, `Answer` is the host's reply, `FinishFetch` and `FailFetch` are what
follows. `FinishFetch` writes whatever the cache holds by then, with a lifetime
that counts from before the fetch, as the code does. `UseKeys` is
`_client_keys`, which makes a `JwksCache` for a `jwks_uri` once and keeps it.

**Client assertions.** `Decode` reads the clock for PyJWT's expiry check,
`Accept` reads it again for the lifetime check and the claim's TTL. The clock
has `Grain` ticks in a second, so that `int(exp - now)` really loses something.
`AssertedExchange` puts these steps in front of the exchange of a code: `Claim`,
then `Consume`, then `Issue`, in the order of `http.py`, and `Crash` at any of
them. At the claim a crash may come before or after Redis has executed it.

**Login page.** A URI is the record `urlsplit` makes of it. A tab is at a client,
shows a page, waits for the answer to its form, or is blocked. A page is what the
server sent: the request id in the hidden field, and `formAction`, the origin that
`login_page_headers` adds to `'self'`; it does not have the redirect URI. `pending`
is the store, and `asked` remembers what each id was made for. `POST /authorize` has
one await: `Read` takes the record before it, `Wrong` makes the page anew from that
record, `Lost` and `Right` ask the store again. `Right` sends the redirect of the
record that was *consumed*, and the browser compares it with the `formAction` of the
page that the tab *submitted*. A request may go at any moment (`Expire`), people may
leave a page and open another request in the same tab, and submit once more after
the browser has dropped the redirect. A URL client's document is any document that
is accepted, another one each time it is resolved: which one it is when is
`MetadataCache`'s.

**Client metadata.** `jwks` "unusable" is an object that is not empty and in which
`parse_jwks` finds no key; such a document is accepted. `keys` is whether
`_client_keys` finds a key or a `jwks_uri` to ask.

**Settings and deployment.** `Environments` are those for which
`load_oauth_settings` returns; a variable is blank, given, or one of the values
that the code tells apart. `Deploy` and `Stop` replace the server between any
two steps of an authorization, as a rolling deployment over one Redis does.
`GET /authorize` asks the allowlist of redirect URIs for the pre-configured client,
and that of hosts for a client that is a URL (`Known`); `Complete` asks the one of
people, and `Forbid` is its 403. `Under[h]` are the allowed hosts that `h` equals or
is a subdomain of. What is parked is answered under a later deployment without
asking the lists of URIs and hosts again, as the code does; the list of people is
asked at the answer.

## Runs

| Run | Shows | Bounds |
|---|---|---|
| `password` | three submissions race for one request: one code, at most `MaxAttempts` guesses per window, and every submission and exchange is answered; `Provenance`, by which the code comes after a login | 3 logins, 1 exchange, 1 grant, 2 attempts |
| `server` | two callbacks with any sign-ins; tokens stay with client and person through a rotation; the caller an application sees has logged in for that token's grant; no token of a URL client is without a person | 2 people (1 allowed), 2 clients, 2 grants, 5 identifiers, 1 gate call |
| `token` | two exchanges race for the same code or refresh token, with right and wrong redirects and verifiers; `IInv`; refinement of `GrantLifecycle` | 2 calls, 2 redirects, 2 verifiers, 2 grants, 7 identifiers |
| `jwks` | served keys are recent, new keys are found, an outage empties nothing; `JwksIInv` | 2 keys, 2 callers, 6 ticks |
| `jwks_spaced` (violation) | concurrent callers fetch within the minimum interval | as `jwks` |
| `exchange` | one assertion, one exchange; no code is lost to a refused request; a replay passes only in the last second; only own replays are refused; `ExchangeIInv` | 2 clients, 1 `jti`, 2 handlers, 2 codes, 3 claims, 1 crash, 2 ticks a second |
| `assertion_single_use` (violation) | a claim that lapses before its assertion | 2 clients, 2 handlers, 2 ticks a second |
| `stores` | both backends of all four stores implement `OneTimeStore` | 2 identifiers, 1 person, 2 clients, TTL 2, 5 ticks |
| `limiter` | bursts, lockouts and `Retry-After` are bounded; refinement of `AttemptCounter`; `LimiterIInv` | 2 addresses, 2 attempts, window of 2 seconds with 2 ticks each, 8 ticks |
| `metadata` | documents are served within their lifetime, keys come from allowed hosts; `MetadataIInv` | 1 client, 4 documents, 2 calls of resolve, 7 ticks |
| `deployment` | no half-made setting opens the server; the allowlists keep people, URIs and clients out; the client gets what was announced | every combination of the variables' kinds of values, 2 base URLs, 2 people (1 listed), 3 clients, 2 redirect URIs |
| `login_page` | each page leads to the client of its own request, the browser stops only at URIs that are not plain, codes go where the client had registered | 2 tabs, 2 requests, 11 URIs, documents with 1 of them |

`MaxGrants` and `MaxIssued` cap what begins: no request is accepted once so many
grants or identifiers exist, and what is already running ends. Two handlers and
two grants suffice for every race over one credential and for mixing up two of
them; five identifiers reach from the request over code and tokens to a
rotation, seven to two rotations or two complete grants. Three submissions are
one more than the two attempts allowed, so that one races for the request while
another is over the limit. Six ticks are enough for a TTL of 3 to lapse after a
fetch of 1, and for two refetch intervals of 2; seven for a document of the
longest lifetime, 4, fetched after a document of the default one has lapsed;
eight for two windows of the limiter. In `exchange` an assertion may be expired,
too long-lived, or good for the whole of its validity and the leeway after it
(1 second each); three claims are a first use, a replay and one more, and
`NoCodeIsWasted` and `OneExchangePerAssertion` need two codes. `MaxCount` in
`limiter` and `MaxAccepted` in `exchange` cut behaviours off that add counts
beyond the limit, or further claims. In `login_page` a request id is used once, so
that two requests are a page that is left and the next one in the same tab, or one
in each tab; one URI in a document suffices, since a request is compared with the
registered URIs one by one. Interchangeable handlers, callers, keys,
clients, `jti`s, tabs and request ids are symmetric in the safety runs; the run with a liveness
property uses no symmetry.

The systems may stop (the bounds are reached, or nobody sends a request), so
deadlock is not checked; that no request hangs is `RequestsAnswered`.

### Fairness

Only `password` assumes any: weak fairness of `LoginSteps(s)` and `CallSteps(c)`,
the steps a running handler takes by itself. asyncio resumes a coroutine whose
await is done, `run_in_threadpool` ends because scrypt does, and the requests to
Microsoft have HTTP timeouts. Nothing is assumed of people, clients, Microsoft,
expirations or crashes.

### Findings

With a run that shows them:

- **Refetch interval** (`jwks.py:20-22`). The interval counts from the *end* of a
  fetch, and a fetch that fails over a cold cache does not count at all, so
  neither concurrent callers nor those that come during a cold outage are held
  to it. `NewKeysAreFound` and `ServedKeysAreRecent` hold nevertheless.
- **Single-use `jti`** (`cimd.py:338,382`). The claim's TTL is rounded down to
  whole seconds and may lapse up to a second before the assertion does.
  `ReplayedOnlyAsItExpires` is the bound that holds: only in that last second.

Stated in the modules, and found to fail when put as the only INVARIANT of the
configuration named here:

- **Identity in every call** (README.md:144-146, `auth.py:95-97`). A token that
  lapses between `is_valid` and `subject_of` passes without its identity:
  `IdentityExposed`, `MCServer.cfg`. `CallersLoggedIn` holds: never with a wrong
  one.
- **Seconds until the window resets** (`storage/base.py:91-93`,
  `storage/redis.py:280`). In the last half second of a window Redis rounds the
  TTL to 0, which the code takes for a missing one, and the answer is a whole
  window: `RetryAfterIsWhatIsLeft`, `MCLimiter.cfg`. `PatiencePays` says what holds:
  rounding makes `Retry-After` up to half a second too short or too long, never less
  than one second, and only in that last half second too long by more.
- **Token lifetime** (README.md:53, `storage/redis.py:302`).
  `OAUTH_TOKEN_TTL_SECONDS` is loaded and validated, but nothing reads
  `settings.token_ttl_seconds`; the lifetime is the stores' `access_ttl`, which
  `RedisOAuthStores.from_env()` leaves at its default:
  `TokensLiveAsConfigured`, `MCDeployment.cfg`.
- **Native clients on `[::1]`** (README.md:94-95, `cimd.py:60`,
  `login_page.py:33,74-76`). Registration admits the address, but `_ORIGIN_RE`
  has no brackets, so that form-action stays `'self'` and the browser drops the
  last redirect: `LoginsArrive`, `MCLoginPage.cfg`. `PlainLoginsArrive` holds:
  the redirect to a plain URI is never dropped.
- **Documents without a usable key** (`cimd.py:224-225`). The check rejects
  `private_key_jwt` without keys ("document_jwks_missing"), but takes any object
  that is not empty for keys, `{"keys": []}` or keys without `kid` among them.
  `parse_jwks` (`jwks.py:35-52`) then drops them all, and a client with no other
  method can log people in, but never redeem their codes:
  `AcceptedClientsAuthenticate`, `MCLoginPage.cfg`.

## Proofs

`OAuthServerProofs` is about `OAuthServer` and, in its last part, `McpServer`, for
all constants that satisfy the named assumptions `ConstantsAssumption` and
`AuthorizeAssumption` (and `GateAssumption` in the last part). Part 1, one holder
per grant:

| Theorem | States |
|---|---|
| `Invariance` | `Spec => []IInv` |
| `TypeCorrect` | `Spec => []TypeOK` |
| `GrantsHaveOneHolder` | `Spec => []OneHolderPerGrant` |
| `NothingIsSpentTwice` | `Spec => []SpentOnce` |

The bounds `MaxGrants` and `MaxIssued` are arbitrary naturals there, so they
limit the proofs in no way that matters.

*Argument.* `OneHolderPerGrant` is not inductive: that a freshly minted code is
the only holder of its grant follows from the handler having consumed the
request, and that it was exchanged only once from nothing being left that could
be exchanged again. `IInv` adds

- `LedgerSound`: identifiers descend from earlier ones and share their root;
- `StoresSound`: a store holds identifiers of its own kind;
- `HandlersSound`: a handler past its consume step holds what it consumed, a
  handler before it holds nothing;
- `Unspent`: what can still be exchanged has no descendants, but for the access
  token of an exchange that is half done.

The proof does not go through the invariants action by action for each
conjunct. Every action is first shown to be of one of a few kinds
(`StepKind`): it lets go of holders, a login or an exchange takes a credential,
a grant begins, a login gives a code, an exchange mints an access token or
gives a refresh token. `StoresSound` and `HandlersSound` are proved along with
that, and `LedgerStep`, `OneHolderStep` and `UnspentStep` need only the kinds.
`SpentOnce` follows step by step from `Unspent`.

Part 2, what a token stands for:

| Theorem | States |
|---|---|
| `ProvenanceHolds` | `Spec => []Provenance` |
| `TokensBelong` | `Spec => []TokensBelongToRequester` |
| `ExchangesProve` | `Spec => []ExchangesProveRequest` |
| `CodesFollow` | `Spec => []CodesFollowLogin` |
| `SubjectsSurvive` | `Spec => []SubjectSurvivesExchange` |
| `UrlDelegated` | `Spec => []UrlClientsAreDelegated` |
| `GuessesBounded` | `Spec => []GuessesLimited` |

*Argument.* All but the last speak of identifiers that were minted, but what is
minted next is decided by the stores and by the handlers' locals. `Provenance`
therefore says three things, and is inductive together with `IInv`:

- `RecordsFaithful`: a live record has the client, redirect URI, challenge and
  subject that its identifier was minted for;
- `HandlersFaithful`: so has a handler that consumed one, and a login about to
  issue a code has the approval (`Approved`) of the person it issues it for;
- `EntrySound`, of every identifier: its client may present what its grant began
  with (`MayPresent`), what it proved is what was asked, and its subject is
  `Vouched` for by a login for the grant's first request.

The ledger and the sign-ins only grow (`HistoryKept`), so what is true of an old
entry, record or handler stays true, and `ProvenanceStep` leaves to each action
only what it changes. `FirstEntry` and `NextEntry` are the two ways an identifier
comes about: a grant's first is its own origin, and another has its parent's. That
a sign-in for *another* request never gets through is where the nonce enters: the
record a callback consumed has the request's own identifier for its nonce, or
none. A URL client has a login because `ServedUrlClients` are served only on top
of one. `GuessesBounded` is by itself: `GuessesCounted` adds that there are no
more guesses than hits, and a hit that admits a guess found fewer than
`MaxAttempts`.

Part 3, that `OAuthServer` implements `GrantLifecycle`:

| Theorem | States |
|---|---|
| `GrantsLive` | `Spec => GrantsLiveOnce` |

*Argument.* The abstract state of a grant is computed from the set of its
`Holders`, which `OneHolderPerGrant` leaves with at most one member; `HeldStates`
(implied by `IInv`) then reads it off the store or the handler that holds it, and
off the ledger (`Begun`) if none does. A step changes holders of one grant `g` at
most: `OthersKeep(g)` says so of the stores and handlers, and `OthersStay`
concludes that all other grants stay as they are. `OneGrantMoves` turns that into
a step of `GrantLifecycle` if `g` made one of its moves, for which there is one
lemma each (`RequestTaken`, `SubjectSettled`, `CodeGiven`, `CredentialTaken`,
`RefreshGiven`, `GrantRequested`, `GrantIsLost`). That a lost grant is gone and not
absent needs `HoldersHaveBegun`, which needs `Provenance`: what descends from an
access token is an access token. Handlers that hold nothing yet, access
tokens, sign-ins and windows move no grant (`HoldersSleep`).

Part 4, of `McpServer`, in which the gate and the end of access tokens interleave
with the endpoints:

| Theorem | States |
|---|---|
| `ServerInvariance` | `ServerSpec => []ServerIInv` |
| `CallersHaveLoggedIn` | `ServerSpec => []CallersLoggedIn` |
| `ServerSpendsOnce` | `ServerSpec => [](OneHolderPerGrant /\ SpentOnce)` |
| `ServerTokensBelong` | `ServerSpec => []TokensBelongToRequester` |
| `ServerCodesFollow` | `ServerSpec => []CodesFollowLogin` |
| `ServerSubjectsSurvive` | `ServerSpec => []SubjectSurvivesExchange` |
| `ServerUrlDelegated` | `ServerSpec => []UrlClientsAreDelegated` |
| `ServerGrantsLive` | `ServerSpec => GrantsLiveOnce` |
| `RecordsFinal` | `ServerSpec => RecordsAreFinal` |

*Argument.* `ServerIInv` adds to `IInv` and `Provenance` that what the gate knows
of a token is what the ledger has, or nothing (`GateFaithful`). Steps of the
endpoints leave the entries that the gate has read; the application's revocation
and the expiry of an access token (`AccessEnds`) leave all of `IInv` and
`Provenance`, which count on no access token being live, and move no grant
(`GateMovesNoGrant`). These theorems do not follow from those about `Spec`, whose
access tokens never end. `RecordsAreFinal` is an action property: every step
leaves a store alone, takes a record away, or puts one under `NextId`
(`StepMovesStores`), which is the identifier of nothing minted before. So a
revoked token, or a spent code, never comes back, and nobody's token changes
hands while it lives.

`JwksCacheProofs` proves of `JwksCache`, from `JwksAssumption` and for any
number of keys and callers:

| Theorem | States |
|---|---|
| `Invariance` | `JwksSpec => []JwksIInv` |
| `Recent` | `JwksSpec => []ServedKeysAreRecent` |
| `Found` | `JwksSpec => []NewKeysAreFound` |
| `Warm` | `JwksSpec => WarmStaysWarm` |

*Argument.* The two safety properties speak of what was served just now, and
follow from what the cache and the running fetches hold. `JwksIInv` adds

- `CallsSound`: a fetch under way began at most `MaxFetch` ago, and was answered
  since then;
- `CacheSound`: the cache has keys exactly if it was ever fetched, and a key that
  it lacks was published at `asOf` (when the issuer gave the answer that it
  holds) or later, if at all; the same of the answer that a caller holds between
  the reply and its own resumption, which is why an older answer that overwrites
  a newer one does no harm beyond `MaxFetch`; and as long as fetches succeed,
  `asOf` is at most `MaxFetch` before `fetchedAt`;
- `SinceSound`: publication times lie in the past.

`MetadataCacheProofs` proves of `MetadataCache`, from `MetadataAssumption`:

| Theorem | States |
|---|---|
| `Invariance` | `MetadataSpec => []MetadataIInv` |
| `Lifetime` | `MetadataSpec => []ServedWithinLifetime` |
| `AllowedHosts` | `MetadataSpec => []KeysOnAllowedHosts` |

*Argument.* `MetadataIInv` adds

- `RequestsSound`: a fetch under way began at most `MaxFetch` ago, and was
  answered since then;
- `DocumentsSound`: a cached document is acceptable and expires within its
  lifetime after the host's answer. The code counts from before the fetch, which
  is earlier than the answer, so that this holds whatever the document
  overwrites.

`AssertedExchangeProofs` proves of `AssertedExchange`, from
`AssertionAssumption` and `ExchangeAssumption`, for any number of ticks a second:

| Theorem | States |
|---|---|
| `Invariance` | `ExchangeSpec => []ExchangeIInv` |
| `SingleUse` | `ExchangeSpec => []ReplayedOnlyAsItExpires` |
| `OwnReplays` | `ExchangeSpec => []OnlyOwnReplaysRefused` |
| `CodesSafe` | `ExchangeSpec => []NoCodeIsWasted` |
| `OneExchange` | `ExchangeSpec => []OneExchangePerAssertion` |

*Argument.* Every step of the exchange is a step of the guard or leaves it alone
(`ExchangeIsGuard`), so the guard's invariant is proved by itself. It adds
`GuardSound`: as long as a second or more of an accepted assertion is left, the
guard holds its key, past the beginning of the last second; and it holds no keys
but those of accepted assertions. `KeyOutlives` is the arithmetic behind it: the
division loses less than a second, and the leeway and the floor of one second
keep the TTL positive. A key can therefore be claimed again only when less than a
second is left of *every* assertion accepted under it. `ClaimsSound` ties the
exchange to the guard: who is about to consume a code, or has consumed one, has
claimed its assertion, and two of them with the same assertion have claimed it
twice, of which the guard's invariant says when. `NoCodeIsWasted` is inductive
with it: the store, the requests between `Consume` and `Issue`, and the codes
granted or lost partition `Codes`.

`ExpiringStoreProofs` proves that `ExpiringStore` implements `OneTimeStore`, from
`StoreAssumption`, for either backend, each of the four stores and every TTL:

| Theorem | States |
|---|---|
| `StoreTypes` | `StoreSpec => []StoreTypeOK` |
| `StoresKeepTheirPromise` | `StoreSpec => KeepsPromise` |
| `GoneStaysGone` | `StoreSpec => GoneForGood` |

*Argument.* The refinement mapping `Live` is what a purge would leave, decoded.
It makes purging a stutter: what a purge drops could not be found any more. A
record comes back from either backend as it was put (`ReadBack`), the empty
subject and client included. Of a call that reads the clock twice only the second
reading counts: `Tick` may pass between them, but with `busy` nothing else does, so
the entry that is answered is one that is live at the answer. The memory stores
count the moment of the deadline out and Redis counts it in, which is why
`OneTimeStore` leaves it open. `GoneForGood`, a consequence of every step being one
of `OneTimeStore`, is for the backends what `RecordsAreFinal` is for the stores as
the endpoints use them.

`LoginLimiterProofs` proves of `LoginLimiter`, from `LimiterAssumption`, for either
backend and any number of addresses, limit, window and ticks a second:

| Theorem | States |
|---|---|
| `Invariance` | `LimiterSpec => []LimiterIInv` |
| `LimiterTypes` | `LimiterSpec => []LimiterTypeOK` |
| `Bursts` | `LimiterSpec => []BurstsBounded` |
| `Lockouts` | `LimiterSpec => []LockoutEnds` |
| `Patience` | `LimiterSpec => []PatiencePays` |
| `AdmissionsCount` | an attempt that is let through adds one to `admitted` |
| `Counts` | `LimiterSpec => CountsAttempts` |

*Argument.* `LimiterIInv` adds to the types

- `AdmissionsSound`: what an address was let through for in the last window's
  length is from two windows at most, the open one (`Since` its `Begin`) and the
  one before, and in each of them the counts are different and within the limit
  (`OfOneWindow`), so that there are at most `MaxAttempts` of them
  (`OneWindowBound`, an injection into `1 .. MaxAttempts`). A new window begins
  only when the old one is over, and then whatever was before that one is more
  than a window ago;
- `LockoutsSound`: the refusals in a row of an address are of its open window, since
  the first attempt of a window passes (the limit is at least 1);
- `LatestSound`: the answer was computed from the window as it is.

`PatiencePays` is the arithmetic of `NearestSecond` on top (`RetryAfterBounds`):
`Retry-After` is at most half a second off either way, except where rounding gives 0:
memory then says one second and Redis the whole window. Whoever waits exactly
`Retry-After` may thus come up to half a second too early; half a second more is
always enough. `AdmissionsCount` says that a set of moments and counts loses no attempt,
so that `BurstsBounded` counts what it should. For `Counts`, an attempt is counted
in the open window or begins one (`CountAttempts`), a tick ends exactly the windows
whose end it passes, in memory one tick earlier than in Redis (`TickEnds`), and a
restart ends them all; a purge is a stutter.

`LoginPageProofs` proves of `LoginPage`, from `MetadataAssumption`,
`LoginPageAssumption` and `PageAssumption`:

| Theorem | States |
|---|---|
| `Invariance` | `PageSpec => []PageIInv` |
| `FormsLead` | `PageSpec => []FormsLeadToTheClient` |
| `PlainArrive` | `PageSpec => []PlainLoginsArrive` |
| `CodesGo` | `PageSpec => []CodesGoWhereRegistered` |

*Argument.* A page does not have the redirect URI it was made from, and the record it
was made from may be gone; so `PageIInv` says, by way of `asked`, that a page with a
form is the `FormPage` of the redirect URI that its request was made for, that what a
handler has in hand and what is in the store is what was asked for (`TabFacts`), and
that what was asked for goes where its client had registered then. `Right` then
compares the consumed record's origin with a `formAction` made from the same URI
(`PlainPasses`), whichever page of the request it was. Ids are not used twice, so
opening a request leaves the other tabs' pages alone (`OpenStep`); a step of one tab
leaves the other tabs alone (`OneTabMoves`, `OthersBelong`). What
`is_redirect_uri_allowed` admits differs from a registered URI in its port, and any
userinfo, at most (`AllowedGoesWhereRegistered`).

`DeploymentProofs` proves of `Deployment`, from `SettingsAssumption` and
`DeploymentAssumption`:

| Theorem | States |
|---|---|
| `Invariance` | `DeploymentSpec => []DeploymentIInv` |
| `NothingOpens` | `DeploymentSpec => []NothingOpensByMistake` |
| `Allowlists` | `DeploymentSpec => []AllowlistsKeepOut` |
| `ParkedFinish` | `DeploymentSpec => []ParkedRequestsCanFinish` |
| `IssKept` | `DeploymentSpec => []IssAsAdvertised` |

*Argument.* The settings are those that the environment loads to, which is part of
the types. `FlowSound` adds what an authorization relies on between two steps: as
long as it goes by a discovery document, the server is the one that made it
(`Announced`), for a redeployment leaves only what is parked, without a document
(`Left`); and a request that is parked under such a document was promised an `iss`,
and its client is listed (`ClientListed`). That the allowlists keep out whom the
environment does not list is `ListsAreKept`: what is loaded from a variable that is
not blank is in the variable, and never empty, which would admit everyone.

*Model-checked only:* `RequestsAnswered`, since liveness under fairness is beyond
this prover, like `ENABLED`. Every other property of a passing run is stated by a
theorem. `CodesFollowLogin` under the password login is part of `Provenance`, which
`password` checks. The properties under Findings fail, and are not proved.

TLC finds true what is proved: `IInv` in `token`, `Provenance` in `password`,
`JwksIInv` in `jwks`, `MetadataIInv` in `metadata`, `ExchangeIInv` in `exchange`,
`LimiterIInv` in `limiter`, and the refinements in `token`, `stores` and `limiter`.
Not listed in a run, but found true as well: `PageIInv` with `MCLoginPage.cfg`,
`DeploymentIInv` with `MCDeployment.cfg`, `RecordsAreFinal` with `MCServer.cfg`,
`GoneForGood` with `MCStores.cfg`. `GateTypeOK` is part of `ServerIInv`.

## Not modelled

- Password hashing, logging, the exception classes and the exports are pure
  functions or I/O: `password.py` is a comparison whose answer the models choose.
- The protected-resource document and those lists of the authorization server's
  document that are constants; the headers and the HTML of the login page.
- The formats: HTTP parameters, JWT syntax, URL syntax, the syntax of JSON (which
  fields survive it is modelled).
- Store bundles without a pending store or replay guard, for which each replica
  falls back to a memory store of its own (`http.py:778-786`).
- A client's public hosts and DNS answers are one answer of the environment.
- Comparisons of credentials that are not ASCII, which end a handler with an
  exception (`oauth.py:444`); the models have that as a crash.

## Plan

Done: the stores, abstract and concrete, the limiter, the authorize and token
endpoints and their composition with the gate; the grant lifecycle and the
refinement; the JWKS cache; client assertions and the exchange behind them; the
metadata resolver; settings, discovery and login page; the theorems about all of
them.

What could still be proved: that `OAuthServer` counts attempts as `AttemptCounter`
does and treats each of its stores as `OneTimeStore` does, as refinements rather
than by comparison of their actions.
