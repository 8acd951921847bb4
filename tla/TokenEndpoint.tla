---------------------------- MODULE TokenEndpoint ----------------------------
(***************************************************************************)
(* POST /token: the three grants of the token handler.                     *)
(*                                                                         *)
(* Parsing the form, authenticating the client and fetching its metadata   *)
(* document come before the first call to these stores and leave nothing   *)
(* behind but the handler's locals, so an exchange begins with the step    *)
(* that consumes the credential it presents; a request refused earlier is  *)
(* a stuttering step.  The two tokens are minted by two further steps, and *)
(* each may fail.                                                          *)
(***************************************************************************)
EXTENDS OAuthState

CONSTANT Calls      \* token requests that run at once

VARIABLE call       \* call[c]: the local variables of the handler in slot c

CallPcs == {"idle", "issue_access", "issue_refresh"}

CallHandler == [pc : CallPcs, grant : {"none", "code", "refresh", "client_credentials"},
                client : Clients \cup {None}, token : Nat,
                redirect : RedirectUris \cup {None},
                challenge : Challenges \cup {None},
                subject : People \cup {None}]

\* token is the identifier consumed, 0 for a client-credentials request;
\* redirect and challenge are what the request for the exchange presented.
IdleCall == [pc |-> "idle", grant |-> "none", client |-> None, token |-> 0,
             redirect |-> None, challenge |-> None, subject |-> None]

\* Faulty: the handler does not stop at its answer.
FinishAndGoOn(c) == UNCHANGED call

\* The handler answers, or dies with its replica; its locals are lost.
Finish(c) == call' = [call EXCEPT ![c] = IdleCall]

\* Faulty: the subject is left behind.
ExchangeAnonymous(c, grant, client, token, redirect, challenge, subject) ==
    call' = [call EXCEPT ![c] =
        [pc |-> "issue_access", grant |-> grant, client |-> client,
         token |-> token, redirect |-> redirect, challenge |-> challenge,
         subject |-> None]]

\* The credential is good, and _issue_token_response is called.
Exchange(c, grant, client, token, redirect, challenge, subject) ==
    call' = [call EXCEPT ![c] =
        [pc |-> "issue_access", grant |-> grant, client |-> client,
         token |-> token, redirect |-> redirect, challenge |-> challenge,
         subject |-> subject]]

-----------------------------------------------------------------------------

\* Faulty: verify_pkce is not asked.
CodeMatchesAnyVerifier(record, client, redirect, v) ==
    record.client = client /\ record.redirect = redirect

\* The three comparisons that follow stores.code.consume.
CodeMatches(record, client, redirect, v) ==
    /\ record.client = client
    /\ record.redirect = redirect
    /\ record.challenge = S256(v)

\* Faulty: refresh tokens are not bound to their client.
RefreshMatchesAny(record, client) == TRUE

\* Faulty: a token that carries no client is anybody's.
RefreshMatchesLegacy(record, client) == record.client \in {None, client}

\* A token minted before 0.4.0 carries no client and is the static client's.
RefreshMatches(record, client) ==
    IF record.client = None THEN client = StaticClient ELSE record.client = client

\* grant_type=authorization_code.  The code is spent even when it turns out
\* to be another client's, or to come with the wrong redirect or verifier.
\* The tokens are issued for record.client_id, which is the client by then.
RedeemCode(c, id, client, redirect, v) ==
    /\ Open
    /\ call[c].pc = "idle"
    /\ codes' = Pop(codes, id)
    /\ IF CodeMatches(codes[id], client, redirect, v)
       THEN Exchange(c, "code", client, id, redirect, S256(v), codes[id].subject)
       ELSE UNCHANGED call
    /\ UNCHANGED <<ledger, pending, refresh, access>>

\* grant_type=refresh_token.  The token is spent even by the wrong client.
RotateRefresh(c, id, client) ==
    /\ Open
    /\ call[c].pc = "idle"
    /\ refresh' = Pop(refresh, id)
    /\ IF RefreshMatches(refresh[id], client)
       THEN Exchange(c, "refresh", client, id, None, None, refresh[id].subject)
       ELSE UNCHANGED call
    /\ UNCHANGED <<ledger, pending, codes, access>>

\* grant_type=client_credentials, for the static client with its secret.
ClientCredentials(c) ==
    /\ OpenToGrants
    /\ call[c].pc = "idle"
    /\ Exchange(c, "client_credentials", StaticClient, 0, None, None, None)
    /\ UNCHANGED stateVars

-----------------------------------------------------------------------------
(* _issue_token_response *)

IssueAccess(c) ==
    /\ call[c].pc = "issue_access"
    /\ access' = Put(access, NextId, [subject |-> call[c].subject])
    /\ Mint("access", call[c].token, call[c].client, call[c].redirect,
            call[c].challenge, call[c].subject)
    /\ IF call[c].grant = "client_credentials"
       THEN Finish(c)
       ELSE call' = [call EXCEPT ![c].pc = "issue_refresh"]
    /\ UNCHANGED <<pending, codes, refresh>>

IssueRefresh(c) ==
    /\ call[c].pc = "issue_refresh"
    /\ refresh' = Put(refresh, NextId,
           [client |-> call[c].client, subject |-> call[c].subject])
    /\ Mint("refresh", call[c].token, call[c].client, call[c].redirect,
            call[c].challenge, call[c].subject)
    /\ Finish(c)
    /\ UNCHANGED <<pending, codes, access>>

\* A store raises, or the replica that runs the handler stops.  The
\* credential is spent; an access token already minted stays valid.
CallCrashes(c) ==
    /\ call[c].pc # "idle"
    /\ Finish(c)
    /\ UNCHANGED stateVars

-----------------------------------------------------------------------------

TokenInit == call = [c \in Calls |-> IdleCall]

CallSteps(c) == IssueAccess(c) \/ IssueRefresh(c)

TokenNext ==
    \E c \in Calls :
        \/ \E id \in DOMAIN codes, client \in ServedClients,
              redirect \in RedirectUris, v \in Verifiers :
               RedeemCode(c, id, client, redirect, v)
        \/ \E id \in DOMAIN refresh, client \in ServedClients :
               RotateRefresh(c, id, client)
        \/ ClientCredentials(c)
        \/ CallSteps(c)
        \/ CallCrashes(c)

=============================================================================
