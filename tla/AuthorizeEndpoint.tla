-------------------------- MODULE AuthorizeEndpoint --------------------------
(***************************************************************************)
(* GET /authorize, POST /authorize and GET /oauth/entra/callback.          *)
(*                                                                         *)
(* A handler of http.py is cut into one action per call to a store and per *)
(* await whose answer it uses.  What precedes the first store call reads   *)
(* only the request and constant settings, so it is part of the action     *)
(* that makes that call, and a request refused there is a stuttering step. *)
(***************************************************************************)
EXTENDS OAuthState

CONSTANTS
    AllowedRedirects,   \* settings.allowed_redirect_uris
    LoginUser,          \* settings.login_username
    AllowedUpns,        \* settings.entra_allowed_upns; empty admits everyone
    Logins,             \* POST and callback handlers that run at once
    ClientIps,
    MaxAttempts         \* LOGIN_RATE_LIMIT_MAX_ATTEMPTS

ASSUME AuthorizeAssumption ==
    /\ AllowedRedirects \subseteq RedirectUris
    /\ LoginUser \in People
    /\ AllowedUpns \subseteq People
    /\ MaxAttempts \in Nat \ {0}
    /\ None \notin PendingRecord \cup ClientIps

VARIABLES
    login,      \* login[s]: the local variables of the handler in slot s
    attempts,   \* login_limiter: hits of an address in its window
    guesses,    \* history: credential checks of an address in its window
    signIns     \* external: the sign-ins that Entra has vouched for

authorizeVars == <<login, attempts, guesses, signIns>>

\* A sign-in, as the id_token tells it: the nonce it echoes and the person.
SignIn == [nonce : Nat, person : People]

LoginPcs == {"idle", "hit", "verify", "consume", "exchange", "vet", "issue"}

LoginHandler == [pc : LoginPcs, request : Nat, ip : ClientIps \cup {None},
                 found : BOOLEAN, record : PendingRecord \cup {None},
                 result : SignIn \cup {None}, subject : People \cup {None}]

IdleLogin == [pc |-> "idle", request |-> 0, ip |-> None, found |-> FALSE,
              record |-> None, result |-> None, subject |-> None]

Goto(s, pc) == login' = [login EXCEPT ![s].pc = pc]

\* The handler answers, or dies with its replica; its locals are lost.
Return(s) == login' = [login EXCEPT ![s] = IdleLogin]

\* settings.is_upn_allowed
UpnAllowed(person) == AllowedUpns = {} \/ person \in AllowedUpns

\* A URL client's metadata document answers for its own redirect URIs.
RedirectAllowed(client, redirect) ==
    client = StaticClient => redirect \in AllowedRedirects

-----------------------------------------------------------------------------
(* GET /authorize *)

\* The nonce of a request is fresh, like its identifier; the password page
\* needs none.
Nonce == IF LoginMode = "entra" THEN NextId ELSE 0

\* A login is required: the request is parked until the person signs in.
AuthorizeLogin(client, redirect, v) ==
    /\ OpenToGrants
    /\ LoginMode # "none"
    /\ RedirectAllowed(client, redirect)
    /\ pending' = Put(pending, NextId,
           [client |-> client, redirect |-> redirect, challenge |-> S256(v),
            nonce |-> Nonce])
    /\ Mint("pending", 0, client, redirect, S256(v), None)
    /\ UNCHANGED <<codes, refresh, access, authorizeVars>>

\* Faulty: the code is issued at once although a login is configured.
AuthorizeAutoAlways(client, redirect, v) ==
    /\ OpenToGrants
    /\ RedirectAllowed(client, redirect)
    /\ codes' = Put(codes, NextId,
           [client |-> client, redirect |-> redirect, challenge |-> S256(v),
            subject |-> None])
    /\ Mint("code", 0, client, redirect, S256(v), None)
    /\ UNCHANGED <<pending, refresh, access, authorizeVars>>

\* No login is configured: the code is issued at once, for no subject.
AuthorizeAuto(client, redirect, v) ==
    /\ OpenToGrants
    /\ LoginMode = "none"
    /\ RedirectAllowed(client, redirect)
    /\ codes' = Put(codes, NextId,
           [client |-> client, redirect |-> redirect, challenge |-> S256(v),
            subject |-> None])
    /\ Mint("code", 0, client, redirect, S256(v), None)
    /\ UNCHANGED <<pending, refresh, access, authorizeVars>>

-----------------------------------------------------------------------------
(* POST /authorize *)

\* pending.get: the record only tells whether the request is still known.
LoginRead(s, id, ip) ==
    /\ LoginMode = "password"
    /\ login[s].pc = "idle"
    /\ login' = [login EXCEPT ![s] =
           [IdleLogin EXCEPT !.pc = "hit", !.request = id, !.ip = ip,
                             !.found = id \in DOMAIN pending]]
    /\ UNCHANGED <<stateVars, attempts, guesses, signIns>>

\* Faulty: one attempt too many.
AdmittedOnceMore(s) == attempts[login[s].ip] <= MaxAttempts /\ login[s].found

\* Neither too many attempts nor an unknown request.
Admitted(s) == attempts[login[s].ip] < MaxAttempts /\ login[s].found

\* limiter.hit, then the two refusals that precede the credential check.
\* Counts above MaxAttempts are not told apart.
LoginHit(s) ==
    LET ip == login[s].ip
    IN  /\ login[s].pc = "hit"
        /\ attempts' = [attempts EXCEPT ![ip] =
               IF @ > MaxAttempts THEN @ ELSE @ + 1]
        /\ IF Admitted(s)
           THEN /\ Goto(s, "verify")
                /\ guesses' = [guesses EXCEPT ![ip] = @ + 1]
           ELSE Return(s) /\ UNCHANGED guesses
        /\ UNCHANGED <<stateVars, signIns>>

\* run_in_threadpool(login_credentials_match) returns True.
LoginVerified(s) ==
    /\ login[s].pc = "verify"
    /\ Goto(s, "consume")
    /\ UNCHANGED <<stateVars, attempts, guesses, signIns>>

\* Faulty: a submission that lost the race is not answered.
LoginConsumeOrHang(s) ==
    LET id == login[s].request
    IN  /\ login[s].pc = "consume"
        /\ id \in DOMAIN pending
        /\ login' = [login EXCEPT ![s] =
               [@ EXCEPT !.pc = "issue", !.record = pending[id], !.subject = LoginUser]]
        /\ pending' = Pop(pending, id)
        /\ UNCHANGED <<ledger, codes, refresh, access, attempts, guesses, signIns>>

\* pending.consume: None when the request expired, or another submission won.
LoginConsume(s) ==
    LET id == login[s].request
    IN  /\ login[s].pc = "consume"
        /\ IF id \in DOMAIN pending
           THEN login' = [login EXCEPT ![s] =
                    [@ EXCEPT !.pc = "issue", !.record = pending[id],
                              !.subject = LoginUser]]
           ELSE Return(s)
        /\ pending' = Pop(pending, id)
        /\ UNCHANGED <<ledger, codes, refresh, access, attempts, guesses, signIns>>

\* The window of an address that has hits ends: its counter is gone.
WindowEnds(ip) ==
    /\ attempts[ip] > 0
    /\ attempts' = [attempts EXCEPT ![ip] = 0]
    /\ guesses' = [guesses EXCEPT ![ip] = 0]
    /\ UNCHANGED <<stateVars, login, signIns>>

-----------------------------------------------------------------------------
(* GET /oauth/entra/callback *)

\* External: a person signs in on the page a request redirected to.
EntraSignIn(id, person) ==
    /\ LoginMode = "entra"
    /\ pending[id].nonce # 0
    /\ signIns' = signIns \cup {[nonce |-> pending[id].nonce, person |-> person]}
    /\ UNCHANGED <<stateVars, login, attempts, guesses>>

\* pending.consume(state); a request of the password page has no nonce.
\* result is the sign-in the code parameter stands for, None if Entra denied.
CallbackConsume(s, id, result) ==
    /\ LoginMode = "entra"
    /\ login[s].pc = "idle"
    /\ pending' = Pop(pending, id)
    /\ IF pending[id].nonce = 0 \/ result = None
       THEN UNCHANGED login
       ELSE login' = [login EXCEPT ![s] =
                [IdleLogin EXCEPT !.pc = "exchange", !.request = id,
                                  !.record = pending[id], !.result = result]]
    /\ UNCHANGED <<ledger, codes, refresh, access, attempts, guesses, signIns>>

\* exchange_code returns the id_token.
CallbackExchange(s) ==
    /\ login[s].pc = "exchange"
    /\ Goto(s, "vet")
    /\ UNCHANGED <<stateVars, attempts, guesses, signIns>>

\* Faulty: a sign-in of another request will do.
VettedNoNonce(s) == UpnAllowed(login[s].result.person)

\* Faulty: anyone of the tenant will do.
VettedAnyone(s) == login[s].result.nonce = login[s].record.nonce

\* The id_token echoes the nonce of this request, and is of a person allowed.
Vetted(s) ==
    /\ login[s].result.nonce = login[s].record.nonce
    /\ UpnAllowed(login[s].result.person)

\* verify_id_token, then is_upn_allowed.
CallbackVet(s) ==
    /\ login[s].pc = "vet"
    /\ Vetted(s)
    /\ login' = [login EXCEPT ![s] =
           [@ EXCEPT !.pc = "issue", !.subject = login[s].result.person]]
    /\ UNCHANGED <<stateVars, attempts, guesses, signIns>>

-----------------------------------------------------------------------------
(* Both login handlers *)

\* stores.code.issue, for the record that was consumed.
IssueCode(s) ==
    LET record == login[s].record
    IN  /\ login[s].pc = "issue"
        /\ codes' = Put(codes, NextId,
               [client |-> record.client, redirect |-> record.redirect,
                challenge |-> record.challenge, subject |-> login[s].subject])
        /\ Mint("code", login[s].request, record.client, record.redirect,
                record.challenge, login[s].subject)
        /\ Return(s)
        /\ UNCHANGED <<pending, refresh, access, attempts, guesses, signIns>>

\* Wrong credentials, an EntraAuthError, or a person who is not allowed.
LoginRefused(s) ==
    /\ login[s].pc \in {"verify", "exchange", "vet"}
    /\ Return(s)
    /\ UNCHANGED <<stateVars, attempts, guesses, signIns>>

\* A store raises, or the replica that runs the handler stops.
LoginCrashes(s) ==
    /\ login[s].pc # "idle"
    /\ Return(s)
    /\ UNCHANGED <<stateVars, attempts, guesses, signIns>>

-----------------------------------------------------------------------------

AuthorizeInit ==
    /\ login = [s \in Logins |-> IdleLogin]
    /\ attempts = [ip \in ClientIps |-> 0]
    /\ guesses = [ip \in ClientIps |-> 0]
    /\ signIns = {}

\* The steps a running handler takes by itself.
LoginSteps(s) ==
    \/ LoginHit(s) \/ LoginVerified(s) \/ LoginConsume(s)
    \/ CallbackExchange(s) \/ CallbackVet(s)
    \/ IssueCode(s) \/ LoginRefused(s)

AuthorizeNext ==
    \/ \E client \in ServedClients, redirect \in RedirectUris, v \in Verifiers :
           AuthorizeLogin(client, redirect, v) \/ AuthorizeAuto(client, redirect, v)
    \/ \E s \in Logins, id \in IssuedOf("pending") \cup {0}, ip \in ClientIps : LoginRead(s, id, ip)
    \/ \E id \in DOMAIN pending, person \in People : EntraSignIn(id, person)
    \/ \E s \in Logins, id \in DOMAIN pending, result \in signIns \cup {None} :
           CallbackConsume(s, id, result)
    \/ \E s \in Logins : LoginSteps(s) \/ LoginCrashes(s)
    \/ \E ip \in ClientIps : WindowEnds(ip)

=============================================================================
