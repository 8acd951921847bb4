-------------------------- MODULE AssertedExchange --------------------------
(***************************************************************************)
(* POST /token of a client that authenticates with an assertion: http.py's *)
(* authenticate_cimd_client in front of the exchange of a code.            *)
(*                                                                         *)
(* The jti is claimed before the code is looked at, so that whatever fails *)
(* in between costs the client its assertion but not its code: a retry     *)
(* needs another assertion.  A code is issued to one client; that another  *)
(* client cannot use it is TokenEndpoint's subject.                        *)
(***************************************************************************)
EXTENDS ClientAssertion

CONSTANTS
    Codes,          \* codes that the client was given
    MaxCrashes      \* bound on the failures of stores and replicas

ASSUME ExchangeAssumption == MaxCrashes \in Nat /\ None \notin Codes

VARIABLES
    exchange,   \* exchange[h]: the token request in handler h
    live,       \* codes in the store
    spent,      \* history: which assertion consumed each code, and when
    granted,    \* codes for which the client was given tokens
    lost,       \* codes consumed by a request that failed afterwards
    crashes

exchangeVars == <<assertionVars, exchange, live, spent, granted, lost, crashes>>

NoExchange == [pc |-> "idle", code |-> None, assertion |-> None]

\* Types.
ExchangeTypeOK ==
    /\ exchange \in [Handlers -> [pc : {"idle", "claim", "consume", "issue"},
                        code : Codes \cup {None}, assertion : Assertion \cup {None}]]
    /\ \A h \in Handlers :
           /\ (exchange[h].pc = "claim") <=> (checking[h] # None)
           /\ exchange[h].pc = "claim" => checking[h] = exchange[h].assertion
           /\ exchange[h].pc # "idle" => exchange[h].code # None /\ exchange[h].assertion # None
    /\ spent \in Seq([assertion : Assertion, at : 0 .. MaxTime])
    /\ live \cup granted \cup lost \subseteq Codes
    /\ crashes \in 0 .. MaxCrashes

ExchangeInit ==
    /\ AssertionInit
    /\ exchange = [h \in Handlers |-> NoExchange]
    /\ live = Codes
    /\ spent = <<>>
    /\ granted = {}
    /\ lost = {}
    /\ crashes = 0

-----------------------------------------------------------------------------

End(h) == exchange' = [exchange EXCEPT ![h] = NoExchange]

GoTo(h, pc) ==
    exchange' = [exchange EXCEPT ![h] =
        [pc |-> pc, code |-> exchange[h].code, assertion |-> exchange[h].assertion]]

\* A request for the tokens of a code, until the client has got an answer.
Begin(h, a, c) ==
    /\ exchange[h].pc = "idle"
    /\ c \notin granted \cup lost
    /\ Decode(h, a)
    /\ exchange' = [exchange EXCEPT ![h] = [pc |-> "claim", code |-> c, assertion |-> a]]
    /\ UNCHANGED <<live, spent, granted, lost, crashes>>

\* The assertion is good, and from now on spent.
Claim(h) ==
    /\ Accept(h)
    /\ GoTo(h, "consume")
    /\ UNCHANGED <<live, spent, granted, lost, crashes>>

\* Faulty: the code is consumed first.
RefusedLate(h) ==
    /\ LifetimeRefused(h) \/ ReplayRefused(h)
    /\ live' = live \ {exchange[h].code}
    /\ End(h)
    /\ UNCHANGED <<spent, granted, lost, crashes>>

\* invalid_client
Refused(h) ==
    /\ LifetimeRefused(h) \/ ReplayRefused(h)
    /\ End(h)
    /\ UNCHANGED <<live, spent, granted, lost, crashes>>

\* stores.code.consume; invalid_grant if another request was first.
Consume(h) ==
    LET c == exchange[h].code
    IN  /\ exchange[h].pc = "consume"
        /\ IF c \in live
           THEN /\ GoTo(h, "issue")
                /\ spent' = Append(spent, [assertion |-> exchange[h].assertion, at |-> now])
           ELSE End(h) /\ UNCHANGED spent
        /\ live' = live \ {c}
        /\ UNCHANGED <<assertionVars, granted, lost, crashes>>

\* The tokens are in the client's hands.
Issue(h) ==
    /\ exchange[h].pc = "issue"
    /\ granted' = granted \cup {exchange[h].code}
    /\ End(h)
    /\ UNCHANGED <<assertionVars, live, spent, lost, crashes>>

\* A store raises, or the replica stops; of the claim's call the answer alone
\* may be lost.
Crash(h) ==
    /\ exchange[h].pc # "idle"
    /\ crashes < MaxCrashes
    /\ IF exchange[h].pc = "claim" THEN Abandon(h) \/ Accept(h) ELSE UNCHANGED assertionVars
    /\ lost' = IF exchange[h].pc = "issue" THEN lost \cup {exchange[h].code} ELSE lost
    /\ End(h)
    /\ crashes' = crashes + 1
    /\ UNCHANGED <<live, spent, granted>>

Pass == Tick /\ UNCHANGED <<exchange, live, spent, granted, lost, crashes>>

HandlerSteps(h) == Claim(h) \/ Refused(h) \/ Consume(h) \/ Issue(h)

ExchangeNext ==
    \/ \E h \in Handlers, a \in Assertion, c \in Codes : Begin(h, a, c)
    \/ \E h \in Handlers : HandlerSteps(h) \/ Crash(h)
    \/ Pass

ExchangeSpec == ExchangeInit /\ [][ExchangeNext]_exchangeVars

-----------------------------------------------------------------------------

\* An assertion pays for one exchange: a second code is consumed under it only
\* by a claim in the last second of its validity.
OneExchangePerAssertion ==
    \A i, j \in DOMAIN spent :
        i < j /\ spent[i].assertion = spent[j].assertion =>
            \E k \in DOMAIN accepted :
                /\ accepted[k].assertion = spent[j].assertion
                /\ ExpiresAt(accepted[k].assertion) - accepted[k].at < Grain

\* Requests refused as replays or expired, and failures before the code is
\* consumed, cost the client its assertion but never its code: the code stays
\* in the store, for the retry with another assertion, until one request takes
\* it, which then grants its tokens or fails after taking it.
NoCodeIsWasted ==
    LET issuing == {h \in Handlers : exchange[h].pc = "issue"}
        taken == {exchange[h].code : h \in issuing}
    IN  /\ live \cup taken = Codes \ (granted \cup lost)
        /\ live \cap taken = {} /\ granted \cap lost = {}
        /\ \A g, h \in issuing : exchange[g].code = exchange[h].code => g = h

-----------------------------------------------------------------------------
(* Why it holds: the inductive invariant behind the properties above. *)

Claimed(a) == \E k \in DOMAIN accepted : accepted[k].assertion = a
ClaimedTwice(a) ==
    \E k, l \in DOMAIN accepted : k < l /\ accepted[k].assertion = a /\ accepted[l].assertion = a

\* Whoever is about to consume a code, or has consumed one, has claimed the
\* assertion for it: two of them with the same assertion have claimed it twice.
ClaimsSound ==
    LET about == {h \in Handlers : exchange[h].pc = "consume"}
    IN  /\ \A h \in about : Claimed(exchange[h].assertion)
        /\ \A i \in DOMAIN spent : Claimed(spent[i].assertion)
        /\ \A g, h \in about : g # h /\ exchange[g].assertion = exchange[h].assertion =>
               ClaimedTwice(exchange[h].assertion)
        /\ \A h \in about, i \in DOMAIN spent : spent[i].assertion = exchange[h].assertion =>
               ClaimedTwice(exchange[h].assertion)
        /\ \A i, j \in DOMAIN spent : i < j /\ spent[i].assertion = spent[j].assertion =>
               ClaimedTwice(spent[j].assertion)

\* The inductive invariant of the exchange.
ExchangeIInv ==
    /\ AssertionIInv
    /\ ExchangeTypeOK
    /\ NoCodeIsWasted
    /\ ClaimsSound

=============================================================================
