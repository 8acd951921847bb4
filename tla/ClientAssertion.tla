--------------------------- MODULE ClientAssertion ---------------------------
(***************************************************************************)
(* cimd.py: verify_client_assertion and the ReplayGuard behind it, by      *)
(* which a client that is a URL authenticates at POST /token with a signed *)
(* assertion.                                                              *)
(*                                                                         *)
(* The clock is read when PyJWT checks the expiry, and again for the TTL   *)
(* of the claim; between the two the thread may be preempted or a Redis    *)
(* round trip may take its time.  The guard of two replicas is one Redis.  *)
(*                                                                         *)
(* exp is a whole number of seconds, as NumericDate has it; the clock is   *)
(* finer: a second has Grain ticks, which is what int(exp - now) loses.    *)
(***************************************************************************)
EXTENDS Integers, Sequences, Functions

CONSTANTS
    Clients,        \* URL clients
    Jtis,
    Handlers,       \* token requests that run at once
    None,
    Grain,          \* ticks in a second
    Leeway,         \* CLIENT_ASSERTION_CLOCK_SKEW_SECONDS
    MaxLifetime,    \* CLIENT_ASSERTION_MAX_LIFETIME_SECONDS
    MaxExp,         \* bound on exp
    MaxAccepted     \* bound on the length of the history

ASSUME AssertionAssumption ==
    /\ Grain \in Nat \ {0}
    /\ Leeway \in Nat \ {0}
    /\ MaxLifetime \in Nat /\ MaxExp \in Nat /\ MaxAccepted \in Nat
    /\ None \notin [client : Clients, jti : Jtis, exp : 1 .. MaxExp]

\* What the signature protects.
Assertion == [client : Clients, jti : Jtis, exp : 1 .. MaxExp]

\* Past this no assertion is accepted any more, and the clock stops.
MaxTime == (MaxExp + Leeway + 1) * Grain

VARIABLES
    now,        \* time.time(), in ticks
    guard,      \* the keys claimed, each with the time it expires
    checking,   \* checking[h]: the assertion that handler h has decoded
    accepted,   \* history: the assertions accepted, and when
    refused     \* history: the assertion refused just now, None if there is none

assertionVars == <<now, guard, checking, accepted, refused>>

\* Faulty: the jti alone.
ClaimKeyByJti(a) == a.jti

\* The claim's key: f"{metadata.client_id}|{jti}".
ClaimKey(a) == <<a.client, a.jti>>

\* Types; a key in the guard has not expired, for Redis takes no TTL below 1.
AssertionTypeOK ==
    /\ now \in 0 .. MaxTime
    /\ \A k \in DOMAIN guard : guard[k] \in Nat /\ guard[k] > now
    /\ checking \in [Handlers -> Assertion \cup {None}]
    /\ accepted \in Seq([assertion : Assertion, at : 0 .. MaxTime])
    /\ refused \in Assertion \cup {None}

AssertionInit ==
    /\ now = 0
    /\ guard = [k \in {} |-> 0]
    /\ checking = [h \in Handlers |-> None]
    /\ accepted = <<>>
    /\ refused = None

-----------------------------------------------------------------------------

\* exp plus the leeway, in ticks: when PyJWT stops accepting.
ExpiresAt(a) == (a.exp + Leeway) * Grain

\* jwt.decode succeeds: the signature is the client's, and PyJWT compares
\* exp <= now - leeway.
Decode(h, a) ==
    /\ checking[h] = None
    /\ now < ExpiresAt(a)
    /\ checking' = [checking EXCEPT ![h] = a]
    /\ UNCHANGED <<now, guard, accepted, refused>>

\* Faulty: without the leeway that PyJWT grants.
ClaimTtlNoLeeway(a) ==
    LET left == (a.exp * Grain - now) \div Grain
    IN  (IF left > 1 THEN left ELSE 1) * Grain

\* Faulty: without the floor of one second.
ClaimTtlNoFloor(a) == ((a.exp * Grain - now) \div Grain + Leeway) * Grain

\* int(max(1.0, exp - now)) + CLIENT_ASSERTION_CLOCK_SKEW_SECONDS, in ticks.
ClaimTtl(a) ==
    LET left == (a.exp * Grain - now) \div Grain
    IN  ((IF left > 1 THEN left ELSE 1) + Leeway) * Grain

\* SET NX: TRUE for the first claim of a key since its last one expired.
Claimable(a) == ClaimKey(a) \notin DOMAIN guard

\* exp - now > MAX_LIFETIME + SKEW: assertion_lifetime.
TooLong(a) == a.exp * Grain - now > (MaxLifetime + Leeway) * Grain

LifetimeRefused(h) ==
    /\ checking[h] # None
    /\ TooLong(checking[h])
    /\ checking' = [checking EXCEPT ![h] = None]
    /\ UNCHANGED <<now, guard, accepted, refused>>

\* replay_guard.claim succeeds: the client is authenticated.  The claim is
\* final, even if the token request it came with fails later.
Accept(h) ==
    LET a == checking[h]
    IN  /\ Len(accepted) < MaxAccepted
        /\ a # None
        /\ ~ TooLong(a)
        /\ Claimable(a)
        /\ guard' = [k \in DOMAIN guard \cup {ClaimKey(a)} |->
                        IF k = ClaimKey(a) THEN now + ClaimTtl(a) ELSE guard[k]]
        /\ accepted' = Append(accepted, [assertion |-> a, at |-> now])
        /\ refused' = None
        /\ checking' = [checking EXCEPT ![h] = None]
        /\ UNCHANGED now

\* assertion_replayed
ReplayRefused(h) ==
    LET a == checking[h]
    IN  /\ a # None
        /\ ~ TooLong(a)
        /\ ~ Claimable(a)
        /\ refused' = a
        /\ checking' = [checking EXCEPT ![h] = None]
        /\ UNCHANGED <<now, guard, accepted>>

\* The replica stops, or Redis fails the claim.
Abandon(h) ==
    /\ checking[h] # None
    /\ checking' = [checking EXCEPT ![h] = None]
    /\ UNCHANGED <<now, guard, accepted, refused>>

\* Expired keys are gone: Redis drops them, the memory guard purges them.
Tick ==
    /\ now < MaxTime
    /\ now' = now + 1
    /\ guard' = Restrict(guard, {k \in DOMAIN guard : guard[k] > now + 1})
    /\ refused' = None
    /\ UNCHANGED <<checking, accepted>>

AssertionNext ==
    \/ \E h \in Handlers, a \in Assertion : Decode(h, a)
    \/ \E h \in Handlers :
           LifetimeRefused(h) \/ Accept(h) \/ ReplayRefused(h) \/ Abandon(h)
    \/ Tick

AssertionSpec == AssertionInit /\ [][AssertionNext]_assertionVars

-----------------------------------------------------------------------------

\* The guard outlives the assertion, up to a second: one that is accepted
\* twice is accepted the second time when less than a second, or nothing, is
\* left of its validity.
ReplayedOnlyAsItExpires ==
    \A i, j \in DOMAIN accepted :
        i < j /\ accepted[i].assertion = accepted[j].assertion =>
            ExpiresAt(accepted[j].assertion) - accepted[j].at < Grain

\* Only a jti that this very client has used is ever refused as replayed:
\* clients do not spend each other's.
OnlyOwnReplaysRefused ==
    refused # None =>
        \E i \in DOMAIN accepted :
            /\ accepted[i].assertion.client = refused.client
            /\ accepted[i].assertion.jti = refused.jti

\* "single-use jti" (cimd.py:338): as long as an assertion is valid, it is
\* accepted once.
AssertionsAreSingleUse ==
    \A i, j \in DOMAIN accepted :
        /\ accepted[i].assertion = accepted[j].assertion
        /\ accepted[i].at < ExpiresAt(accepted[i].assertion)
        /\ accepted[j].at < ExpiresAt(accepted[j].assertion)
        => i = j

-----------------------------------------------------------------------------
(* Why it holds: the inductive invariant behind the properties above. *)

\* Until the last second of an assertion that was accepted the guard holds its
\* key; and it holds no other keys.
GuardSound ==
    /\ \A i \in DOMAIN accepted :
           LET a == accepted[i].assertion
           IN  ExpiresAt(a) - now >= Grain =>
                   ClaimKey(a) \in DOMAIN guard /\ guard[ClaimKey(a)] > ExpiresAt(a) - Grain
    /\ \A k \in DOMAIN guard :
           \E i \in DOMAIN accepted : ClaimKey(accepted[i].assertion) = k

\* The inductive invariant of the guard.
AssertionIInv ==
    /\ AssertionTypeOK
    /\ GuardSound
    /\ ReplayedOnlyAsItExpires
    /\ OnlyOwnReplaysRefused

=============================================================================
