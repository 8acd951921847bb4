------------------------------ MODULE JwksCache ------------------------------
(***************************************************************************)
(* jwks.py: the cache of an issuer's signing keys, shared by the logins    *)
(* and client assertions that verify a signature at the same time.         *)
(*                                                                         *)
(* signing_key awaits once, inside _fetch.  What runs before the await is  *)
(* one action, what runs after it another, and between them the issuer     *)
(* answers with the keys it publishes at that moment; so the answers to    *)
(* two fetches may come in the other order than they were asked for.       *)
(***************************************************************************)
EXTENDS Integers, FiniteSets

CONSTANTS
    Kids,           \* key identifiers
    Callers,        \* calls of signing_key that run at once
    Ttl,            \* JWKS_CACHE_TTL_SECONDS
    MinInterval,    \* JWKS_REFETCH_MIN_INTERVAL_SECONDS
    MaxFetch,       \* bound on the duration of a fetch; every network operation
                    \* of one is bounded by JWKS_HTTP_TIMEOUT_SECONDS
    Never,          \* _fetched_at is None
    MaxTime         \* bound on the clock

ASSUME JwksAssumption ==
    /\ Ttl \in Nat /\ MinInterval \in Nat /\ MaxFetch \in Nat /\ MaxTime \in Nat
    /\ MinInterval <= Ttl
    /\ Never \notin Nat

VARIABLES
    now,            \* self._clock()
    since,          \* external: since[k]: from when on the issuer publishes key k
    keys,           \* self._keys
    fetchedAt,      \* self._fetched_at
    call,           \* call[c]: the local variables of one signing_key
    asOf,           \* history: when the issuer published keys
    failed,         \* history: whether the latest fetch to end has failed
    lastFetch,      \* history: when the latest fetch was started
    served          \* history: how the latest call returned

jwksVars == <<now, since, keys, fetchedAt, call, asOf, failed, lastFetch, served>>

\* The keys the issuer publishes now.
Published(from) == {k \in Kids : from[k] # Never}

\* keys {} is an answer that cannot be used: an error, or no usable key.
Idle == [pc |-> "idle", kid |-> Never, since |-> 0, keys |-> {}, at |-> 0]

\* No call has returned since the clock moved.
NothingServed == [kid |-> Never, found |-> FALSE, asOf |-> 0]

\* Types; the cache was not filled in the future.
JwksTypeOK ==
    /\ now \in 0 .. MaxTime
    /\ since \in [Kids -> 0 .. MaxTime \cup {Never}]
    /\ keys \subseteq Kids
    /\ fetchedAt \in 0 .. now \cup {Never}
    /\ call \in [Callers -> [pc : {"idle", "fetch", "answered"}, kid : Kids \cup {Never},
                             since : 0 .. MaxTime, keys : SUBSET Kids, at : 0 .. MaxTime]]
    /\ asOf \in 0 .. MaxTime
    /\ failed \in BOOLEAN
    /\ lastFetch \in 0 .. MaxTime \cup {Never}
    /\ served \in [kid : Kids \cup {Never}, found : BOOLEAN, asOf : 0 .. MaxTime]

JwksInit ==
    /\ now = 0
    /\ since \in [Kids -> {0, Never}]
    /\ Published(since) # {}
    /\ keys = {}
    /\ fetchedAt = Never
    /\ call = [c \in Callers |-> Idle]
    /\ asOf = 0
    /\ failed = FALSE
    /\ lastFetch = Never
    /\ served = NothingServed

-----------------------------------------------------------------------------

\* Faulty: only a cold cache is stale.
StaleOnce == fetchedAt = Never

Stale == fetchedAt # Never => now - fetchedAt > Ttl
CanRefetch == fetchedAt # Never => now - fetchedAt >= MinInterval

\* Faulty: an unknown key is not looked for.
NeedsFetchWhenStale(kid) == Stale /\ CanRefetch

\* A key that is not there is looked for, but not too often.
NeedsFetch(kid) == (kid \in keys => Stale) /\ CanRefetch

\* The call returns the key, or raises signing_key_unknown.
Serve(kid, from, publishedAt) ==
    served' = [kid |-> kid, found |-> kid \in from, asOf |-> publishedAt]

\* signing_key decides from the cache alone.
Lookup(c, kid) ==
    /\ call[c].pc = "idle"
    /\ ~ NeedsFetch(kid)
    /\ Serve(kid, keys, asOf)
    /\ UNCHANGED <<now, since, keys, fetchedAt, call, asOf, failed, lastFetch>>

\* signing_key goes to fetch.
StartFetch(c, kid) ==
    /\ call[c].pc = "idle"
    /\ NeedsFetch(kid)
    /\ call' = [call EXCEPT ![c] =
                    [pc |-> "fetch", kid |-> kid, since |-> now, keys |-> {}, at |-> 0]]
    /\ lastFetch' = now
    /\ UNCHANGED <<now, since, keys, fetchedAt, asOf, failed, served>>

\* The issuer answers the request of c, or something on the way fails it.
Answer(c, answer) ==
    /\ call[c].pc = "fetch"
    /\ call' = [call EXCEPT ![c].pc = "answered", ![c].keys = answer, ![c].at = now]
    /\ UNCHANGED <<now, since, keys, fetchedAt, asOf, failed, lastFetch, served>>

\* Faulty: the time the keys expire in place of the time of the fetch.
FinishFetchUntil(c) ==
    /\ call[c].pc = "answered"
    /\ call[c].keys # {}
    /\ keys' = call[c].keys
    /\ asOf' = call[c].at
    /\ fetchedAt' = now + Ttl
    /\ failed' = FALSE
    /\ Serve(call[c].kid, call[c].keys, call[c].at)
    /\ call' = [call EXCEPT ![c] = Idle]
    /\ UNCHANGED <<now, since, lastFetch>>

\* _fetch succeeds, and signing_key goes on with the new keys.
FinishFetch(c) ==
    /\ call[c].pc = "answered"
    /\ call[c].keys # {}
    /\ keys' = call[c].keys
    /\ asOf' = call[c].at
    /\ fetchedAt' = now
    /\ failed' = FALSE
    /\ Serve(call[c].kid, call[c].keys, call[c].at)
    /\ call' = [call EXCEPT ![c] = Idle]
    /\ UNCHANGED <<now, since, lastFetch>>

\* Faulty: a failed refresh empties the cache.
FailFetchAndForget(c) ==
    /\ call[c].pc = "answered"
    /\ call[c].keys = {}
    /\ keys' = {}
    /\ fetchedAt' = IF keys # {} THEN now ELSE fetchedAt
    /\ failed' = TRUE
    /\ Serve(call[c].kid, {}, asOf)
    /\ call' = [call EXCEPT ![c] = Idle]
    /\ UNCHANGED <<now, since, asOf, lastFetch>>

\* _fetch fails.  Warm keys keep serving; a cold cache raises, and does not
\* note that it tried.
FailFetch(c) ==
    /\ call[c].pc = "answered"
    /\ call[c].keys = {}
    /\ fetchedAt' = IF keys # {} THEN now ELSE fetchedAt
    /\ failed' = TRUE
    /\ Serve(call[c].kid, keys, asOf)
    /\ call' = [call EXCEPT ![c] = Idle]
    /\ UNCHANGED <<now, since, keys, asOf, lastFetch>>

\* External: the issuer withdraws some keys and adds others.
Rotate(next) ==
    /\ next # Published(since)
    /\ since' = [k \in Kids |-> IF k \notin next THEN Never
                               ELSE IF since[k] = Never THEN now ELSE since[k]]
    /\ UNCHANGED <<now, keys, fetchedAt, call, asOf, failed, lastFetch, served>>

\* Time passes, but no fetch is under way for longer than MaxFetch.
Tick ==
    /\ now < MaxTime
    /\ \A c \in Callers : call[c].pc # "idle" => now - call[c].since < MaxFetch
    /\ now' = now + 1
    /\ served' = NothingServed
    /\ UNCHANGED <<since, keys, fetchedAt, call, asOf, failed, lastFetch>>

JwksNext ==
    \/ \E c \in Callers, kid \in Kids : Lookup(c, kid) \/ StartFetch(c, kid)
    \/ \E c \in Callers, answer \in {Published(since), {}} : Answer(c, answer)
    \/ \E c \in Callers : FinishFetch(c) \/ FailFetch(c)
    \/ \E next \in SUBSET Kids \ {{}} : Rotate(next)
    \/ Tick

JwksSpec == JwksInit /\ [][JwksNext]_jwksVars

-----------------------------------------------------------------------------

\* While fetches succeed, a key is served only if the issuer still published
\* it at most Ttl + MaxFetch ago: a late answer that overwrites a newer one
\* ages the cache by no more than the time it was under way.
ServedKeysAreRecent ==
    ~ failed /\ served.found => now - served.asOf <= Ttl + MaxFetch

\* While fetches succeed, a call is refused only a key that the issuer has
\* not yet published for MinInterval + MaxFetch: neither the refetch limit
\* nor a late answer that drops a key again hides it for longer.
NewKeysAreFound ==
    ~ failed /\ served.kid # Never /\ ~ served.found =>
        \/ since[served.kid] = Never
        \/ now - since[served.kid] <= MinInterval + MaxFetch

\* Once there are keys there always are, whatever the issuer answers: "a
\* transient outage must not lock every login out" (jwks.py:71-73).
WarmStaysWarm == [][keys # {} => keys' # {}]_jwksVars

\* "never more often than this so a flood of bogus kid values cannot hammer
\* it" (jwks.py:20-22): any two fetches start MinInterval apart.
FetchesAreSpaced ==
    [][\A c \in Callers :
        call[c].pc = "idle" /\ call'[c].pc = "fetch" /\ lastFetch # Never
            => now - lastFetch >= MinInterval]_jwksVars

-----------------------------------------------------------------------------
(* Why it holds: the inductive invariant behind the properties above. *)

\* A fetch under way was not started too long ago, and was answered since.
CallsSound ==
    \A c \in Callers :
        call[c].pc # "idle" =>
            /\ call[c].kid \in Kids
            /\ call[c].since <= now /\ now - call[c].since <= MaxFetch
            /\ call[c].pc = "answered" => call[c].since <= call[c].at /\ call[c].at <= now

\* A key that is missing from what the issuer published at a time was not
\* published yet then, or is not any more now.
MissingSince(from, at) == \A k \in Kids \ from : since[k] # Never => since[k] >= at

CacheSound ==
    /\ fetchedAt # Never <=> keys # {}
    /\ asOf <= now
    /\ keys # {} => MissingSince(keys, asOf)
    /\ \A c \in Callers :
           call[c].pc = "answered" /\ call[c].keys # {} => MissingSince(call[c].keys, call[c].at)
    /\ ~ failed /\ fetchedAt # Never => fetchedAt - asOf <= MaxFetch

SinceSound == \A k \in Kids : since[k] # Never => since[k] <= now

JwksIInv ==
    /\ JwksTypeOK
    /\ CallsSound
    /\ CacheSound
    /\ SinceSound
    /\ ServedKeysAreRecent
    /\ NewKeysAreFound

=============================================================================
