-------------------------- MODULE OAuthServerProofs --------------------------
(***************************************************************************)
(* Proofs about OAuthServer and McpServer, for all values of their         *)
(* constants, in four parts: the inductive invariant of the endpoints;     *)
(* what a token stands for; the life of a grant; and whom a call to the    *)
(* application speaks for.                                                 *)
(***************************************************************************)
EXTENDS McpServer, TLAPS

-----------------------------------------------------------------------------
(***************************************************************************)
(* Part 1: types, one holder per grant, nothing is spent twice.            *)
(***************************************************************************)

(***************************************************************************)
(* The store and ledger operators.                                         *)
(***************************************************************************)

LEMMA PopFacts ==
    ASSUME NEW store, NEW id
    PROVE  /\ DOMAIN Pop(store, id) = DOMAIN store \ {id}
           /\ \A i \in DOMAIN Pop(store, id) : Pop(store, id)[i] = store[i]
BY DEF Pop, Restrict

LEMMA PopType ==
    ASSUME NEW Record, NEW store, store \in [DOMAIN store -> Record], NEW id
    PROVE  Pop(store, id) \in [DOMAIN Pop(store, id) -> Record]
BY DEF Pop, Restrict

LEMMA PutType ==
    ASSUME NEW Record, NEW store, store \in [DOMAIN store -> Record], NEW id,
           NEW record \in Record
    PROVE  Put(store, id, record) \in [DOMAIN Put(store, id, record) -> Record]
BY DEF Put

LEMMA PutFacts ==
    ASSUME NEW store, NEW id, NEW record
    PROVE  /\ DOMAIN Put(store, id, record) = DOMAIN store \cup {id}
           /\ Put(store, id, record)[id] = record
           /\ \A i \in DOMAIN store \ {id} : Put(store, id, record)[i] = store[i]
BY DEF Put

\* The ledger grows by one entry, under a fresh identifier.
Extends(kind, parent) ==
    /\ ledger' \in Seq(LedgerEntry)
    /\ Issued' = Issued \cup {NextId}
    /\ NextId \in Nat \ {0} /\ NextId \notin Issued
    /\ \A i \in Issued : ledger'[i] = ledger[i] /\ i < NextId
    /\ ledger'[NextId].kind = kind
    /\ ledger'[NextId].parent = parent
    /\ ledger'[NextId].root = IF parent = 0 THEN NextId ELSE ledger[parent].root

LEMMA MintFacts ==
    ASSUME ledger \in Seq(LedgerEntry),
           NEW kind \in {"pending", "code", "access", "refresh"},
           NEW parent \in Issued \cup {0},
           NEW client \in Clients \cup {None},
           NEW redirect \in RedirectUris \cup {None},
           NEW challenge \in Challenges \cup {None},
           NEW subject \in People \cup {None},
           Mint(kind, parent, client, redirect, challenge, subject)
    PROVE  /\ Extends(kind, parent)
           /\ ledger'[NextId].client = client
           /\ ledger'[NextId].redirect = redirect
           /\ ledger'[NextId].challenge = challenge
           /\ ledger'[NextId].subject = subject
<1> DEFINE entry == [kind |-> kind, parent |-> parent,
                     root |-> IF parent = 0 THEN NextId ELSE ledger[parent].root,
                     client |-> client, redirect |-> redirect,
                     challenge |-> challenge, subject |-> subject]
<1>1. NextId \in Nat \ {0} /\ \A i \in Issued : i < NextId
  BY DEF NextId, Issued
<1>2. entry \in LedgerEntry
  <2>1. parent \in Nat /\ (parent # 0 => ledger[parent].root \in Nat)
    <3>1. parent # 0 => ledger[parent] \in LedgerEntry
      BY DEF Issued
    <3> QED BY <3>1 DEF Issued, LedgerEntry
  <2> QED BY <1>1, <2>1 DEF LedgerEntry
<1>3. ledger' = Append(ledger, entry)
  BY DEF Mint
<1> HIDE DEF entry
<1>4. ledger' \in Seq(LedgerEntry) /\ Len(ledger') = Len(ledger) + 1
      /\ ledger'[NextId] = entry /\ \A i \in Issued : ledger'[i] = ledger[i]
  BY <1>2, <1>3 DEF NextId, Issued
<1>5. Issued' = Issued \cup {NextId} /\ NextId \notin Issued
  BY <1>4 DEF NextId, Issued
<1> QED BY <1>1, <1>4, <1>5 DEF entry, Extends

(***************************************************************************)
(* Every step is one of the actions, taken with parameters of the right    *)
(* sets.  A lemma about all steps names the actions it has to look at.     *)
(***************************************************************************)

LEMMA ServedAreClients == ServedClients \subseteq Clients
BY DEF ServedClients, Clients

LEMMA ChallengesOfVerifiers == \A v \in Verifiers : S256(v) \in Challenges
BY DEF Challenges

(***************************************************************************)
(* What becomes of a handler's locals.                                     *)
(***************************************************************************)

LEMMA IdleTypes == IdleLogin \in LoginHandler /\ IdleCall \in CallHandler
BY DEF IdleLogin, LoginHandler, LoginPcs, IdleCall, CallHandler, CallPcs

LEMMA LoginType ==
    ASSUME NEW s \in Logins, login \in [Logins -> LoginHandler]
    PROVE  /\ \A h \in LoginHandler :
                login' = [login EXCEPT ![s] = h] => login' \in [Logins -> LoginHandler]
           /\ \A pc \in LoginPcs : Goto(s, pc) => login' \in [Logins -> LoginHandler]
           /\ Return(s) => login' \in [Logins -> LoginHandler]
<1>1. \A h \in LoginHandler :
          login' = [login EXCEPT ![s] = h] => login' \in [Logins -> LoginHandler]
  OBVIOUS
<1>2. ASSUME NEW pc \in LoginPcs, Goto(s, pc)
      PROVE  login' \in [Logins -> LoginHandler]
  <2>1. [login[s] EXCEPT !.pc = pc] \in LoginHandler
    BY DEF LoginHandler
  <2>2. login' = [login EXCEPT ![s] = [login[s] EXCEPT !.pc = pc]]
    BY <1>2 DEF Goto
  <2> QED BY <1>1, <2>1, <2>2
<1>3. Return(s) => login' \in [Logins -> LoginHandler]
  BY IdleTypes DEF Return
<1> QED BY <1>1, <1>2, <1>3

LEMMA CallType ==
    ASSUME NEW c \in Calls, call \in [Calls -> CallHandler]
    PROVE  /\ \A grant \in {"code", "refresh", "client_credentials"}, client \in Clients \cup {None},
                 token \in Nat, redirect \in RedirectUris \cup {None},
                 challenge \in Challenges \cup {None}, subject \in People \cup {None} :
                Exchange(c, grant, client, token, redirect, challenge, subject) =>
                    call' \in [Calls -> CallHandler]
           /\ call' = [call EXCEPT ![c].pc = "issue_refresh"] => call' \in [Calls -> CallHandler]
           /\ Finish(c) => call' \in [Calls -> CallHandler]
<1>1. \A h \in CallHandler :
          call' = [call EXCEPT ![c] = h] => call' \in [Calls -> CallHandler]
  OBVIOUS
<1>2. ASSUME NEW grant \in {"code", "refresh", "client_credentials"},
             NEW client \in Clients \cup {None}, NEW token \in Nat,
             NEW redirect \in RedirectUris \cup {None},
             NEW challenge \in Challenges \cup {None}, NEW subject \in People \cup {None},
             Exchange(c, grant, client, token, redirect, challenge, subject)
      PROVE  call' \in [Calls -> CallHandler]
  <2> DEFINE h == [pc |-> "issue_access", grant |-> grant, client |-> client,
                   token |-> token, redirect |-> redirect, challenge |-> challenge,
                   subject |-> subject]
  <2>1. h \in CallHandler
    BY DEF CallHandler, CallPcs
  <2> QED BY <1>1, <1>2, <2>1 DEF Exchange
<1>3. ASSUME call' = [call EXCEPT ![c].pc = "issue_refresh"]
      PROVE  call' \in [Calls -> CallHandler]
  <2>1. [call[c] EXCEPT !.pc = "issue_refresh"] \in CallHandler
    BY DEF CallHandler, CallPcs
  <2> QED BY <1>1, <1>3, <2>1
<1>4. Finish(c) => call' \in [Calls -> CallHandler]
  BY IdleTypes DEF Finish
<1> QED BY <1>1, <1>2, <1>3, <1>4

LEMMA TypeStep ==
    ASSUME TypeOK, StoresSound, HandlersSound, Next
    PROVE  TypeOK'
<1> USE DEF TypeOK
<1>1. ASSUME NEW client \in ServedClients, NEW redirect \in RedirectUris, NEW v \in Verifiers,
             AuthorizeLogin(client, redirect, v), UNCHANGED call
      PROVE  TypeOK'
  <2> DEFINE record == [client |-> client, redirect |-> redirect, challenge |-> S256(v),
                        nonce |-> Nonce]
  <2>1. ledger' \in Seq(LedgerEntry)
    BY <1>1, ServedAreClients, ChallengesOfVerifiers, MintFacts DEF AuthorizeLogin, Extends
  <2>2. record \in PendingRecord
    BY ServedAreClients, ChallengesOfVerifiers DEF PendingRecord, Nonce, NextId
  <2>3. pending' \in [DOMAIN pending' -> PendingRecord]
    BY <1>1, <2>2, PutType DEF AuthorizeLogin
  <2> QED BY <1>1, <2>1, <2>3 DEF AuthorizeLogin, authorizeVars
<1>2. ASSUME NEW client \in ServedClients, NEW redirect \in RedirectUris, NEW v \in Verifiers,
             AuthorizeAuto(client, redirect, v), UNCHANGED call
      PROVE  TypeOK'
  <2> DEFINE record == [client |-> client, redirect |-> redirect, challenge |-> S256(v),
                        subject |-> None]
  <2>1. ledger' \in Seq(LedgerEntry)
    BY <1>2, ServedAreClients, ChallengesOfVerifiers, MintFacts DEF AuthorizeAuto, Extends
  <2>2. record \in CodeRecord
    BY ServedAreClients, ChallengesOfVerifiers DEF CodeRecord
  <2>3. codes' \in [DOMAIN codes' -> CodeRecord]
    BY <1>2, <2>2, PutType DEF AuthorizeAuto
  <2> QED BY <1>2, <2>1, <2>3 DEF AuthorizeAuto, authorizeVars
<1>3. ASSUME NEW s \in Logins, NEW id \in IssuedOf("pending") \cup {0}, NEW ip \in ClientIps,
             LoginRead(s, id, ip), UNCHANGED call
      PROVE  TypeOK'
  <2> DEFINE found == id \in DOMAIN pending
             h == [IdleLogin EXCEPT !.pc = "hit", !.request = id, !.ip = ip, !.found = found]
  <2>1. found \in BOOLEAN /\ id \in Nat
    BY DEF IssuedOf, Issued
  <2>2. h \in LoginHandler
    <3> HIDE DEF found
    <3> QED BY <2>1 DEF IdleLogin, LoginHandler, LoginPcs
  <2>3. login' \in [Logins -> LoginHandler]
    BY <1>3, <2>2, LoginType DEF LoginRead
  <2> QED BY <1>3, <2>3 DEF LoginRead, stateVars
<1>4. ASSUME NEW id \in DOMAIN pending, NEW person \in People,
             EntraSignIn(id, person), UNCHANGED call
      PROVE  TypeOK'
  <2>1. [nonce |-> pending[id].nonce, person |-> person] \in SignIn
    <3>1. pending[id] \in PendingRecord
      OBVIOUS
    <3> QED BY <3>1 DEF SignIn, PendingRecord
  <2> QED BY <1>4, <2>1 DEF EntraSignIn, stateVars
<1>5. ASSUME NEW s \in Logins, NEW id \in DOMAIN pending, NEW result \in signIns \cup {None},
             CallbackConsume(s, id, result), UNCHANGED call
      PROVE  TypeOK'
  <2>1. pending' \in [DOMAIN pending' -> PendingRecord]
    BY <1>5, PopType DEF CallbackConsume
  <2> DEFINE h == [IdleLogin EXCEPT !.pc = "exchange", !.request = id,
                                    !.record = pending[id], !.result = result]
  <2>2. id \in Nat /\ pending[id] \in PendingRecord /\ result \in SignIn \cup {None}
    BY DEF StoresSound, IssuedOf, Issued
  <2>3. h \in LoginHandler
    BY <2>2 DEF IdleLogin, LoginHandler, LoginPcs
  <2>4. login' \in [Logins -> LoginHandler]
    BY <1>5, <2>3, LoginType DEF CallbackConsume
  <2> QED BY <1>5, <2>1, <2>4 DEF CallbackConsume
<1>6. ASSUME NEW s \in Logins, LoginHit(s), UNCHANGED call
      PROVE  TypeOK'
  <2>1. attempts' \in [ClientIps -> 0 .. MaxAttempts + 1] /\ guesses' \in [ClientIps -> Nat]
    <3> DEFINE ip == login[s].ip
               n == IF attempts[ip] > MaxAttempts THEN attempts[ip] ELSE attempts[ip] + 1
    <3>1. ip \in ClientIps
      BY <1>6 DEF LoginHit, HandlersSound, LoginSound, LoginHandler
    <3>2. n \in 0 .. MaxAttempts + 1
      BY <3>1, AuthorizeAssumption
    <3>3. attempts' = [attempts EXCEPT ![ip] = n]
      BY <1>6 DEF LoginHit
    <3>4. guesses' = guesses \/ guesses' = [guesses EXCEPT ![ip] = guesses[ip] + 1]
      BY <1>6 DEF LoginHit
    <3> HIDE DEF ip, n
    <3>5. attempts' \in [ClientIps -> 0 .. MaxAttempts + 1]
      BY ONLY <3>1, <3>2, <3>3, attempts \in [ClientIps -> 0 .. MaxAttempts + 1]
    <3>6. guesses' \in [ClientIps -> Nat]
      <4>1. guesses[ip] \in Nat /\ guesses[ip] + 1 \in Nat
        BY <3>1
      <4> QED BY ONLY <3>1, <3>4, <4>1, guesses \in [ClientIps -> Nat]
    <3> QED BY <3>5, <3>6
  <2>2. login' \in [Logins -> LoginHandler]
    BY <1>6, LoginType DEF LoginHit, LoginPcs
  <2> QED BY <1>6, <2>1, <2>2 DEF LoginHit, stateVars
<1>7. ASSUME NEW s \in Logins, LoginVerified(s) \/ CallbackExchange(s), UNCHANGED call
      PROVE  TypeOK'
  <2>1. login' \in [Logins -> LoginHandler]
    BY <1>7, LoginType DEF LoginVerified, CallbackExchange, LoginPcs
  <2> QED BY <1>7, <2>1 DEF LoginVerified, CallbackExchange, stateVars
<1>8. ASSUME NEW s \in Logins, LoginConsume(s), UNCHANGED call
      PROVE  TypeOK'
  <2>1. pending' \in [DOMAIN pending' -> PendingRecord]
    BY <1>8, PopType DEF LoginConsume
  <2>2. login' \in [Logins -> LoginHandler]
    <3>1. CASE login[s].request \in DOMAIN pending
      <4> DEFINE h == [login[s] EXCEPT !.pc = "issue", !.record = pending[login[s].request],
                                       !.subject = LoginUser]
      <4>1. login[s] \in LoginHandler /\ pending[login[s].request] \in PendingRecord
        BY <3>1
      <4>2. h \in LoginHandler
        BY <4>1, AuthorizeAssumption DEF LoginHandler, LoginPcs
      <4>3. login' = [login EXCEPT ![s] = h]
        BY <1>8, <3>1 DEF LoginConsume
      <4> HIDE DEF h
      <4> QED BY <4>2, <4>3
    <3>2. CASE login[s].request \notin DOMAIN pending
      BY <1>8, <3>2, LoginType DEF LoginConsume
    <3> QED BY <3>1, <3>2
  <2> QED BY <1>8, <2>1, <2>2 DEF LoginConsume
<1>9. ASSUME NEW s \in Logins, CallbackVet(s), UNCHANGED call
      PROVE  TypeOK'
  <2>1. login[s].result.person \in People
    <3>1. login[s].result \in SignIn
      BY <1>9 DEF CallbackVet, HandlersSound, LoginSound, LoginHandler
    <3> QED BY <3>1 DEF SignIn
  <2>2. login' \in [Logins -> LoginHandler]
    <3>1. [login[s] EXCEPT !.pc = "issue", !.subject = login[s].result.person] \in LoginHandler
      BY <2>1 DEF LoginHandler, LoginPcs
    <3> QED BY <1>9, <3>1, LoginType DEF CallbackVet
  <2> QED BY <1>9, <2>2 DEF CallbackVet, stateVars
<1>10. ASSUME NEW s \in Logins, IssueCode(s), UNCHANGED call
       PROVE  TypeOK'
  <2> DEFINE record == login[s].record
             minted == [client |-> record.client, redirect |-> record.redirect,
                        challenge |-> record.challenge, subject |-> login[s].subject]
  <2>1. /\ record \in PendingRecord /\ login[s].request \in Issued
        /\ login[s].subject \in People \cup {None}
    BY <1>10 DEF IssueCode, HandlersSound, LoginSound, LoginHandler, IssuedOf
  <2>2. /\ record.client \in Clients /\ record.redirect \in RedirectUris
        /\ record.challenge \in Challenges
    BY <2>1 DEF PendingRecord
  <2>3. ledger' \in Seq(LedgerEntry)
    BY <1>10, <2>1, <2>2, MintFacts DEF IssueCode, Extends
  <2>4. codes' \in [DOMAIN codes' -> CodeRecord]
    <3>1. minted \in CodeRecord
      BY <2>1, <2>2 DEF CodeRecord
    <3> QED BY <1>10, <3>1, PutType DEF IssueCode
  <2>5. login' \in [Logins -> LoginHandler]
    BY <1>10, LoginType DEF IssueCode
  <2> QED BY <1>10, <2>3, <2>4, <2>5 DEF IssueCode
<1>11. ASSUME NEW s \in Logins, LoginRefused(s) \/ LoginCrashes(s), UNCHANGED call
       PROVE  TypeOK'
  <2>1. login' \in [Logins -> LoginHandler]
    BY <1>11, LoginType DEF LoginRefused, LoginCrashes
  <2> QED BY <1>11, <2>1 DEF LoginRefused, LoginCrashes, stateVars
<1>12. ASSUME NEW ip \in ClientIps, WindowEnds(ip), UNCHANGED call
       PROVE  TypeOK'
  BY <1>12, AuthorizeAssumption DEF WindowEnds, stateVars
<1>13. ASSUME NEW c \in Calls, NEW id \in DOMAIN codes, NEW client \in ServedClients,
              NEW redirect \in RedirectUris, NEW v \in Verifiers,
              RedeemCode(c, id, client, redirect, v), UNCHANGED authorizeVars
       PROVE  TypeOK'
  <2>1. codes' \in [DOMAIN codes' -> CodeRecord]
    BY <1>13, PopType DEF RedeemCode
  <2>2. codes[id].subject \in People \cup {None} /\ id \in Nat
    <3>1. codes[id] \in CodeRecord
      OBVIOUS
    <3> QED BY <3>1 DEF CodeRecord, StoresSound, IssuedOf, Issued
  <2>3. call' \in [Calls -> CallHandler]
    BY <1>13, <2>2, ServedAreClients, ChallengesOfVerifiers, CallType DEF RedeemCode
  <2> QED BY <1>13, <2>1, <2>3 DEF RedeemCode, authorizeVars
<1>14. ASSUME NEW c \in Calls, NEW id \in DOMAIN refresh, NEW client \in ServedClients,
              RotateRefresh(c, id, client), UNCHANGED authorizeVars
       PROVE  TypeOK'
  <2>1. refresh' \in [DOMAIN refresh' -> RefreshRecord]
    BY <1>14, PopType DEF RotateRefresh
  <2>2. refresh[id].subject \in People \cup {None} /\ id \in Nat
    <3>1. refresh[id] \in RefreshRecord
      OBVIOUS
    <3> QED BY <3>1 DEF RefreshRecord, StoresSound, IssuedOf, Issued
  <2>3. call' \in [Calls -> CallHandler]
    BY <1>14, <2>2, ServedAreClients, CallType DEF RotateRefresh
  <2> QED BY <1>14, <2>1, <2>3 DEF RotateRefresh, authorizeVars
<1>15. ASSUME NEW c \in Calls, ClientCredentials(c), UNCHANGED authorizeVars
       PROVE  TypeOK'
  <2>1. call' \in [Calls -> CallHandler]
    BY <1>15, CallType DEF ClientCredentials, Clients
  <2> QED BY <1>15, <2>1 DEF ClientCredentials, stateVars, authorizeVars
<1>16. ASSUME NEW c \in Calls, IssueAccess(c) \/ IssueRefresh(c), UNCHANGED authorizeVars
       PROVE  TypeOK'
  <2>1. /\ call[c].token \in Issued \cup {0} /\ call[c].client \in Clients \cup {None}
        /\ call[c].redirect \in RedirectUris \cup {None}
        /\ call[c].challenge \in Challenges \cup {None}
        /\ call[c].subject \in People \cup {None}
    BY DEF HandlersSound, CallSound, CallHandler, IssuedOf
  <2>2. ledger' \in Seq(LedgerEntry)
    BY <1>16, <2>1, MintFacts DEF IssueAccess, IssueRefresh, Extends
  <2>3. call' \in [Calls -> CallHandler]
    BY <1>16, CallType DEF IssueAccess, IssueRefresh
  <2>4. CASE IssueAccess(c)
    <3>1. [subject |-> call[c].subject] \in AccessRecord
      BY <2>1 DEF AccessRecord
    <3>2. access' \in [DOMAIN access' -> AccessRecord]
      BY <2>4, <3>1, PutType DEF IssueAccess
    <3> QED BY <1>16, <2>2, <2>3, <2>4, <3>2 DEF IssueAccess, authorizeVars
  <2>5. CASE IssueRefresh(c)
    <3>1. [client |-> call[c].client, subject |-> call[c].subject] \in RefreshRecord
      BY <2>1 DEF RefreshRecord
    <3>2. refresh' \in [DOMAIN refresh' -> RefreshRecord]
      BY <2>5, <3>1, PutType DEF IssueRefresh
    <3> QED BY <1>16, <2>2, <2>3, <2>5, <3>2 DEF IssueRefresh, authorizeVars
  <2> QED BY <1>16, <2>4, <2>5
<1>17. ASSUME NEW c \in Calls, CallCrashes(c), UNCHANGED authorizeVars
       PROVE  TypeOK'
  <2>1. call' \in [Calls -> CallHandler]
    BY <1>17, CallType DEF CallCrashes
  <2> QED BY <1>17, <2>1 DEF CallCrashes, stateVars, authorizeVars
<1>18. ASSUME Expire, UNCHANGED <<authorizeVars, call>>
       PROVE  TypeOK'
  <2>1. CASE \E id \in DOMAIN pending : pending' = Pop(pending, id)
                                         /\ UNCHANGED <<codes, refresh>>
    <3>1. pending' \in [DOMAIN pending' -> PendingRecord]
      BY <2>1, PopType
    <3> QED BY <1>18, <2>1, <3>1 DEF Expire, authorizeVars
  <2>2. CASE \E id \in DOMAIN codes : codes' = Pop(codes, id)
                                       /\ UNCHANGED <<pending, refresh>>
    <3>1. codes' \in [DOMAIN codes' -> CodeRecord]
      BY <2>2, PopType
    <3> QED BY <1>18, <2>2, <3>1 DEF Expire, authorizeVars
  <2>3. CASE \E id \in DOMAIN refresh : refresh' = Pop(refresh, id)
                                         /\ UNCHANGED <<pending, codes>>
    <3>1. refresh' \in [DOMAIN refresh' -> RefreshRecord]
      BY <2>3, PopType
    <3> QED BY <1>18, <2>3, <3>1 DEF Expire, authorizeVars
  <2> QED BY <1>18, <2>1, <2>2, <2>3 DEF Expire
<1> HIDE DEF TypeOK
<1> QED
  BY <1>1, <1>2, <1>3, <1>4, <1>5, <1>6, <1>7, <1>8, <1>9, <1>10, <1>11, <1>12,
     <1>13, <1>14, <1>15, <1>16, <1>17, <1>18
  DEF Next, AuthorizeNext, TokenNext, LoginSteps, CallSteps

(***************************************************************************)
(* Who holds what.  As far as the holders of grants and the ledger go,     *)
(* every step is of one of seven kinds.                                    *)
(***************************************************************************)

FewerLogins ==
    /\ HoldingLogins' \subseteq HoldingLogins
    /\ \A t \in HoldingLogins' : login'[t].request = login[t].request

FewerCalls ==
    /\ HoldingCalls' \subseteq HoldingCalls
    /\ \A d \in HoldingCalls' : call'[d].token = call[d].token /\ call'[d].pc = call[d].pc

\* Nothing is minted and nobody takes anything; holders may let go.
LetsGo ==
    /\ UNCHANGED ledger
    /\ Spendable' \subseteq Spendable
    /\ FewerLogins /\ FewerCalls

\* Login handler s takes a pending request out of its store.
LoginTakes(s, id) ==
    /\ UNCHANGED ledger
    /\ id \in Spendable /\ Spendable' \subseteq Spendable \ {id}
    /\ s \notin HoldingLogins
    /\ HoldingLogins' \subseteq HoldingLogins \cup {s}
    /\ login'[s].request = id
    /\ \A t \in HoldingLogins : login'[t].request = login[t].request
    /\ FewerCalls

\* Token handler c takes a code or a refresh token out of its store.
CallTakes(c, id) ==
    /\ UNCHANGED ledger
    /\ id \in Spendable /\ Spendable' \subseteq Spendable \ {id}
    /\ c \notin HoldingCalls
    /\ HoldingCalls' \subseteq HoldingCalls \cup {c}
    /\ call'[c].token = id
    /\ \A d \in HoldingCalls : call'[d].token = call[d].token /\ call'[d].pc = call[d].pc
    /\ FewerLogins

\* A grant begins.
Begins ==
    /\ \E kind \in {"pending", "code", "access"} : Extends(kind, 0)
    /\ Spendable' \subseteq Spendable \cup {NextId}
    /\ FewerLogins /\ FewerCalls

\* Login handler s gives a code for the request it holds.
LoginGives(s) ==
    /\ s \in HoldingLogins
    /\ Extends("code", login[s].request)
    /\ Spendable' \subseteq Spendable \cup {NextId}
    /\ FewerLogins /\ s \notin HoldingLogins'
    /\ FewerCalls

\* Token handler c mints the access token of its exchange.
CallMints(c) ==
    /\ c \in HoldingCalls /\ call[c].pc = "issue_access"
    /\ Extends("access", call[c].token)
    /\ Spendable' \subseteq Spendable
    /\ FewerLogins
    /\ HoldingCalls' \subseteq HoldingCalls
    /\ call'[c].token = call[c].token /\ call'[c].pc = "issue_refresh"
    /\ \A d \in HoldingCalls \ {c} : call'[d].token = call[d].token /\ call'[d].pc = call[d].pc

\* Token handler c gives the refresh token of its exchange.
CallGives(c) ==
    /\ c \in HoldingCalls /\ call[c].pc = "issue_refresh"
    /\ Extends("refresh", call[c].token)
    /\ Spendable' \subseteq Spendable \cup {NextId}
    /\ FewerCalls /\ c \notin HoldingCalls'
    /\ FewerLogins

StepKind ==
    \/ LetsGo
    \/ \E s \in Logins, id \in Spendable : LoginTakes(s, id)
    \/ \E c \in Calls, id \in Spendable : CallTakes(c, id)
    \/ Begins
    \/ \E s \in HoldingLogins : LoginGives(s)
    \/ \E c \in HoldingCalls : CallMints(c)
    \/ \E c \in HoldingCalls : CallGives(c)

LEMMA HoldersAreIssued ==
    ASSUME StoresSound, HandlersSound
    PROVE  /\ Spendable \subseteq Issued
           /\ \A s \in HoldingLogins : login[s].request \in IssuedOf("pending")
           /\ \A c \in HoldingCalls : call[c].token \in IssuedOf("code") \cup IssuedOf("refresh")
           /\ HeldIds \subseteq Issued
           /\ 0 \notin Issued
           /\ \A s \in HoldingLogins, c \in HoldingCalls : login[s].request # call[c].token
<1>1. Spendable \subseteq Issued
  BY DEF Spendable, StoresSound, IssuedOf
<1>2. \A s \in HoldingLogins : login[s].request \in IssuedOf("pending")
  BY DEF HoldingLogins, HandlersSound, LoginSound
<1>3. \A c \in HoldingCalls : call[c].token \in IssuedOf("code") \cup IssuedOf("refresh")
  BY DEF HoldingCalls, HandlersSound, CallSound
<1>4. HeldIds \subseteq Issued
  BY <1>2, <1>3 DEF HeldIds, IssuedOf
<1>5. \A s \in HoldingLogins, c \in HoldingCalls : login[s].request # call[c].token
  BY <1>2, <1>3 DEF IssuedOf
<1>6. 0 \notin Issued
  BY DEF Issued
<1> QED BY <1>1, <1>2, <1>3, <1>4, <1>5, <1>6

\* The ledger stays well founded.
LEMMA LedgerStep ==
    ASSUME TypeOK, LedgerSound, StoresSound, HandlersSound, StepKind
    PROVE  LedgerSound'
<1>1. CASE UNCHANGED ledger
  BY <1>1 DEF LedgerSound, Issued, RootOf
<1>2. ASSUME NEW kind, NEW parent \in Issued \cup {0}, Extends(kind, parent)
      PROVE  LedgerSound'
  <2> SUFFICES ASSUME NEW i \in Issued'
               PROVE  /\ ledger'[i].parent < i
                      /\ ledger'[i].root \in 1 .. i
                      /\ ledger'[i].parent = 0 => ledger'[i].root = i
                      /\ ledger'[i].parent # 0 =>
                            ledger'[i].root = ledger'[ledger'[i].parent].root
    BY DEF LedgerSound, RootOf
  <2>1. CASE i \in Issued
    <3>1. ledger[i].parent \in Nat /\ ledger[i].parent < i /\ i \in Nat /\ i <= Len(ledger)
          /\ Len(ledger) \in Nat
      <4>1. ledger[i] \in LedgerEntry /\ Len(ledger) \in Nat
        BY <2>1 DEF TypeOK, Issued
      <4> QED BY <2>1, <4>1 DEF LedgerEntry, Issued, LedgerSound
    <3>2. ledger[i].parent # 0 => ledger[i].parent \in Issued
      BY <3>1 DEF Issued
    <3> QED BY <1>2, <2>1, <3>2 DEF LedgerSound, RootOf, Extends
  <2>2. CASE i = NextId
    BY <1>2, <2>2 DEF LedgerSound, RootOf, Extends, Issued
  <2> QED BY <1>2, <2>1, <2>2 DEF Extends
<1> QED
  BY <1>1, <1>2, HoldersAreIssued
  DEF StepKind, LetsGo, LoginTakes, CallTakes, Begins, LoginGives, CallMints, CallGives, IssuedOf

\* Grants stay in one place.
LEMMA OneHolderStep ==
    ASSUME LedgerSound, StoresSound, HandlersSound, OneHolderPerGrant, StepKind
    PROVE  OneHolderPerGrant'
<1> USE HoldersAreIssued DEF OneHolderPerGrant
<1>1. CASE LetsGo
  <2>1. HeldIds' \subseteq HeldIds
    BY <1>1 DEF LetsGo, FewerLogins, FewerCalls, HeldIds
  <2> QED BY <1>1, <2>1 DEF LetsGo, FewerLogins, FewerCalls, RootOf
<1>2. ASSUME NEW s \in Logins, NEW id \in Spendable, LoginTakes(s, id)
      PROVE  OneHolderPerGrant'
  <2>1. HeldIds' \subseteq HeldIds \cup {id}
    BY <1>2 DEF LoginTakes, FewerCalls, HeldIds
  <2>2. \A t \in HoldingLogins : login[t].request \in HeldIds
    BY DEF HeldIds
  <2> QED BY <1>2, <2>1, <2>2 DEF LoginTakes, FewerCalls, RootOf
<1>3. ASSUME NEW c \in Calls, NEW id \in Spendable, CallTakes(c, id)
      PROVE  OneHolderPerGrant'
  <2>1. HeldIds' \subseteq HeldIds \cup {id}
    BY <1>3 DEF CallTakes, FewerLogins, HeldIds
  <2>2. \A d \in HoldingCalls : call[d].token \in HeldIds
    BY DEF HeldIds
  <2> QED BY <1>3, <2>1, <2>2 DEF CallTakes, FewerLogins, RootOf
<1>4. CASE Begins
  <2>1. HeldIds' \subseteq HeldIds
    BY <1>4 DEF Begins, FewerLogins, FewerCalls, HeldIds
  <2>2. \A i \in Issued : RootOf(i)' = RootOf(i) /\ RootOf(i) # NextId
    BY <1>4 DEF Begins, Extends, RootOf, LedgerSound, Issued
  <2>3. ledger'[NextId].root = NextId
    BY <1>4 DEF Begins, Extends, RootOf
  <2>4. NextId \notin Issued
    BY <1>4 DEF Begins, Extends
  <2>5. \A i, j \in Spendable' \cup HeldIds' : RootOf(i)' = RootOf(j)' => i = j
    <3>1. Spendable' \cup HeldIds' \subseteq Spendable \cup HeldIds \cup {NextId}
      BY <1>4, <2>1 DEF Begins
    <3> QED BY <2>2, <2>3, <3>1 DEF RootOf
  <2>6. Spendable' \cap HeldIds' = {}
    BY <1>4, <2>1, <2>4 DEF Begins
  <2> QED BY <1>4, <2>5, <2>6 DEF Begins, FewerLogins, FewerCalls
<1>5. ASSUME NEW s \in HoldingLogins, LoginGives(s)
      PROVE  OneHolderPerGrant'
  <2> DEFINE spent == login[s].request
  <2>1. HeldIds' \subseteq HeldIds \ {spent}
    BY <1>5 DEF LoginGives, FewerLogins, FewerCalls, HeldIds
  <2>2. \A i \in Issued : RootOf(i)' = RootOf(i)
    BY <1>5 DEF LoginGives, Extends, RootOf
  <2>3. spent \in HeldIds /\ spent \in Issued /\ ledger'[NextId].root = RootOf(spent)
    BY <1>5 DEF LoginGives, Extends, RootOf, HeldIds
  <2>4. NextId \notin Issued
    BY <1>5 DEF LoginGives, Extends
  <2> HIDE DEF spent
  <2>5. \A i, j \in Spendable' \cup HeldIds' : RootOf(i)' = RootOf(j)' => i = j
    <3>1. Spendable' \cup HeldIds' \subseteq ((Spendable \cup HeldIds) \ {spent}) \cup {NextId}
      BY <1>5, <2>1, <2>3 DEF LoginGives
    <3> QED BY <2>2, <2>3, <3>1 DEF RootOf
  <2>6. Spendable' \cap HeldIds' = {}
    BY <1>5, <2>1, <2>4 DEF LoginGives
  <2> QED BY <1>5, <2>5, <2>6 DEF LoginGives, FewerLogins, FewerCalls
<1>6. ASSUME NEW c \in HoldingCalls, CallMints(c)
      PROVE  OneHolderPerGrant'
  <2>1. HeldIds' \subseteq HeldIds
    BY <1>6 DEF CallMints, FewerLogins, HeldIds
  <2>2. \A i \in Issued : RootOf(i)' = RootOf(i)
    BY <1>6 DEF CallMints, Extends, RootOf
  <2>3. \A d \in HoldingCalls' : d \in HoldingCalls /\ call'[d].token = call[d].token
    BY <1>6 DEF CallMints
  <2>4. \A i, j \in Spendable' \cup HeldIds' : RootOf(i)' = RootOf(j)' => i = j
    <3>1. Spendable' \cup HeldIds' \subseteq Spendable \cup HeldIds
      BY <1>6, <2>1 DEF CallMints
    <3> QED BY <2>2, <3>1
  <2> QED BY <1>6, <2>1, <2>3, <2>4 DEF CallMints, FewerLogins
<1>7. ASSUME NEW c \in HoldingCalls, CallGives(c)
      PROVE  OneHolderPerGrant'
  <2> DEFINE spent == call[c].token
  <2>1. HeldIds' \subseteq HeldIds \ {spent}
    BY <1>7 DEF CallGives, FewerLogins, FewerCalls, HeldIds
  <2>2. \A i \in Issued : RootOf(i)' = RootOf(i)
    BY <1>7 DEF CallGives, Extends, RootOf
  <2>3. spent \in HeldIds /\ spent \in Issued /\ ledger'[NextId].root = RootOf(spent)
    BY <1>7 DEF CallGives, Extends, RootOf, HeldIds
  <2>4. NextId \notin Issued
    BY <1>7 DEF CallGives, Extends
  <2> HIDE DEF spent
  <2>5. \A i, j \in Spendable' \cup HeldIds' : RootOf(i)' = RootOf(j)' => i = j
    <3>1. Spendable' \cup HeldIds' \subseteq ((Spendable \cup HeldIds) \ {spent}) \cup {NextId}
      BY <1>7, <2>1, <2>3 DEF CallGives
    <3> QED BY <2>2, <2>3, <3>1 DEF RootOf
  <2>6. Spendable' \cap HeldIds' = {}
    BY <1>7, <2>1, <2>4 DEF CallGives
  <2> QED BY <1>7, <2>5, <2>6 DEF CallGives, FewerLogins, FewerCalls
<1> QED BY <1>1, <1>2, <1>3, <1>4, <1>5, <1>6, <1>7 DEF StepKind

\* What is spendable or held has not been exchanged, so nothing is twice.
LEMMA UnspentStep ==
    ASSUME TypeOK, LedgerSound, StoresSound, HandlersSound, OneHolderPerGrant,
           Unspent, SpentOnce, StepKind
    PROVE  Unspent' /\ SpentOnce'
<1> USE HoldersAreIssued
<1>1. CASE UNCHANGED ledger
  <2>1. Issued' = Issued /\ SpentOnce'
    BY <1>1 DEF Issued, SpentOnce
  <2>2. CASE LetsGo
    BY <1>1, <2>1, <2>2 DEF LetsGo, FewerLogins, FewerCalls, Unspent
  <2>3. ASSUME NEW s \in Logins, NEW id \in Spendable, LoginTakes(s, id)
        PROVE  Unspent'
    BY <1>1, <2>1, <2>3 DEF LoginTakes, FewerCalls, Unspent
  <2>4. ASSUME NEW c \in Calls, NEW id \in Spendable, CallTakes(c, id)
        PROVE  Unspent'
    BY <1>1, <2>1, <2>4 DEF CallTakes, FewerLogins, Unspent
  <2>5. Issued' # Issued => FALSE
    BY <2>1
  <2> QED BY <2>1, <2>2, <2>3, <2>4, <2>5
          DEF StepKind, Begins, LoginGives, CallMints, CallGives, Extends
<1>2. \A i \in Issued : ledger[i].parent \in Issued \cup {0}
  <2> SUFFICES ASSUME NEW i \in Issued
               PROVE  ledger[i].parent \in Issued \cup {0}
    OBVIOUS
  <2>1. ledger[i] \in LedgerEntry /\ Len(ledger) \in Nat
    BY DEF TypeOK, Issued
  <2> QED BY <2>1 DEF LedgerEntry, Issued, LedgerSound
<1>3. CASE Begins
  <2>1. \A i \in Issued' : \/ i = NextId /\ ledger'[i].parent = 0
                           \/ i \in Issued /\ ledger'[i] = ledger[i]
    BY <1>3 DEF Begins, Extends
  <2>2. NextId \notin Issued /\ NextId # 0
    BY <1>3 DEF Begins, Extends
  <2>3. Unspent'
    <3> SUFFICES ASSUME NEW i \in Issued'
                 PROVE  /\ ledger'[i].parent \notin Spendable'
                        /\ \A t \in HoldingLogins' : ledger'[i].parent # login'[t].request
                        /\ \A d \in HoldingCalls' :
                            ledger'[i].parent = call'[d].token =>
                                call'[d].pc = "issue_refresh" /\ ledger'[i].kind = "access"
      BY DEF Unspent
    <3>1. CASE i \in Issued /\ ledger'[i] = ledger[i]
      BY <1>2, <1>3, <2>2, <3>1 DEF Begins, FewerLogins, FewerCalls, Unspent
    <3>2. CASE i = NextId /\ ledger'[i].parent = 0
      <4>1. 0 \notin Spendable'
        BY <1>3, <2>2 DEF Begins
      <4>2. \A t \in HoldingLogins' : login'[t].request # 0
        BY <1>3 DEF Begins, FewerLogins, IssuedOf
      <4>3. \A d \in HoldingCalls' : call'[d].token # 0
        BY DEF HoldingCalls
      <4> QED BY <3>2, <4>1, <4>2, <4>3
    <3> QED BY <2>1, <3>1, <3>2
  <2>4. SpentOnce'
    BY <2>1 DEF SpentOnce
  <2> QED BY <2>3, <2>4
<1>4. ASSUME NEW s \in HoldingLogins, LoginGives(s)
      PROVE  Unspent' /\ SpentOnce'
  <2> DEFINE spent == login[s].request
  <2>1. \A i \in Issued' : \/ i = NextId /\ ledger'[i].parent = spent
                           \/ i \in Issued /\ ledger'[i] = ledger[i]
    BY <1>4 DEF LoginGives, Extends
  <2>2. NextId \notin Issued /\ NextId # 0
    BY <1>4 DEF LoginGives, Extends
  <2>3. spent \in HeldIds /\ spent \in Issued
    BY DEF HeldIds
  <2>4. \A i \in Issued : ledger[i].parent # spent
    BY DEF Unspent
  <2>5. spent \notin Spendable' /\ \A t \in HoldingLogins' : login'[t].request # spent
    BY <1>4, <2>2, <2>3 DEF LoginGives, FewerLogins, OneHolderPerGrant
  <2>6. \A c \in HoldingCalls' : call'[c].token # spent
    BY <1>4 DEF LoginGives, FewerCalls
  <2> HIDE DEF spent
  <2>7. Unspent'
    BY <1>2, <1>4, <2>1, <2>2, <2>5, <2>6 DEF LoginGives, FewerLogins, FewerCalls, Unspent
  <2>8. SpentOnce'
    BY <2>1, <2>4 DEF SpentOnce
  <2> QED BY <2>7, <2>8
<1>5. ASSUME NEW c \in HoldingCalls, CallMints(c)
      PROVE  Unspent' /\ SpentOnce'
  <2> DEFINE spent == call[c].token
  <2>1. \A i \in Issued' : \/ i = NextId /\ ledger'[i].parent = spent /\ ledger'[i].kind = "access"
                           \/ i \in Issued /\ ledger'[i] = ledger[i]
    BY <1>5 DEF CallMints, Extends
  <2>2. spent \in HeldIds
    BY DEF HeldIds
  <2>3. \A i \in Issued : ledger[i].parent # spent
    BY <1>5 DEF Unspent, CallMints
  <2>4. spent \notin Spendable' /\ \A t \in HoldingLogins' : login'[t].request # spent
    BY <1>5, <2>2 DEF CallMints, FewerLogins, OneHolderPerGrant
  <2>5. \A d \in HoldingCalls' : call'[d].token = spent => call'[d].pc = "issue_refresh"
    BY <1>5 DEF CallMints, OneHolderPerGrant
  <2>6. \A d \in HoldingCalls' : d \in HoldingCalls /\ call'[d].token = call[d].token
                                 /\ (d # c => call'[d].pc = call[d].pc)
    BY <1>5 DEF CallMints
  <2> HIDE DEF spent
  <2>7. Unspent'
    <3> SUFFICES ASSUME NEW i \in Issued'
                 PROVE  /\ ledger'[i].parent \notin Spendable'
                        /\ \A t \in HoldingLogins' : ledger'[i].parent # login'[t].request
                        /\ \A d \in HoldingCalls' :
                            ledger'[i].parent = call'[d].token =>
                                call'[d].pc = "issue_refresh" /\ ledger'[i].kind = "access"
      BY DEF Unspent
    <3>1. CASE i \in Issued /\ ledger'[i] = ledger[i]
      BY <1>5, <2>3, <2>6, <3>1 DEF CallMints, FewerLogins, Unspent, spent
    <3>2. CASE i = NextId /\ ledger'[i].parent = spent /\ ledger'[i].kind = "access"
      BY <2>4, <2>5, <3>2
    <3> QED BY <2>1, <3>1, <3>2
  <2>8. SpentOnce'
    BY <2>1, <2>3 DEF SpentOnce
  <2> QED BY <2>7, <2>8
<1>6. ASSUME NEW c \in HoldingCalls, CallGives(c)
      PROVE  Unspent' /\ SpentOnce'
  <2> DEFINE spent == call[c].token
  <2>1. \A i \in Issued' : \/ i = NextId /\ ledger'[i].parent = spent /\ ledger'[i].kind = "refresh"
                           \/ i \in Issued /\ ledger'[i] = ledger[i]
    BY <1>6 DEF CallGives, Extends
  <2>2. NextId \notin Issued /\ NextId # 0
    BY <1>6 DEF CallGives, Extends
  <2>3. spent \in HeldIds /\ spent \in Issued
    BY DEF HeldIds
  <2>4. \A i \in Issued : ledger[i].parent = spent => ledger[i].kind = "access"
    BY DEF Unspent
  <2>5. spent \notin Spendable' /\ \A t \in HoldingLogins' : login'[t].request # spent
    BY <1>6, <2>2, <2>3 DEF CallGives, FewerLogins, OneHolderPerGrant
  <2>6. \A d \in HoldingCalls' : call'[d].token # spent
    BY <1>6 DEF CallGives, FewerCalls, OneHolderPerGrant
  <2> HIDE DEF spent
  <2>7. Unspent'
    BY <1>2, <1>6, <2>1, <2>2, <2>5, <2>6 DEF CallGives, FewerLogins, FewerCalls, Unspent
  <2>8. SpentOnce'
    BY <2>1, <2>4 DEF SpentOnce
  <2> QED BY <2>7, <2>8
<1> QED
  BY <1>1, <1>3, <1>4, <1>5, <1>6 DEF StepKind, LetsGo, LoginTakes, CallTakes

(***************************************************************************)
(* What a step leaves sound, and of which kind it is.                      *)
(***************************************************************************)

\* No identifier changes kind.
Grows == \A kind : IssuedOf(kind) \subseteq IssuedOf(kind)'

LEMMA LedgerGrows ==
    ASSUME UNCHANGED ledger \/ \E kind, parent : Extends(kind, parent)
    PROVE  Grows
BY DEF Grows, IssuedOf, Issued, Extends

LEMMA OtherLogins ==
    ASSUME NEW s \in Logins, HandlersSound, Grows,
           \A t \in Logins \ {s} : login'[t] = login[t], LoginSound(s)'
    PROVE  \A t \in Logins : LoginSound(t)'
<1> SUFFICES ASSUME NEW t \in Logins \ {s} PROVE LoginSound(t)'
  OBVIOUS
<1> QED BY DEF HandlersSound, LoginSound, Grows

LEMMA OtherCalls ==
    ASSUME NEW c \in Calls, HandlersSound, Grows,
           \A d \in Calls \ {c} : call'[d] = call[d], CallSound(c)'
    PROVE  \A d \in Calls : CallSound(d)'
<1> SUFFICES ASSUME NEW d \in Calls \ {c} PROVE CallSound(d)'
  OBVIOUS
<1> QED BY DEF HandlersSound, CallSound, Grows

\* A step that leaves one side of the server alone keeps its holders.
LEMMA LoginsAlone ==
    ASSUME HandlersSound, Grows, UNCHANGED login
    PROVE  FewerLogins /\ \A s \in Logins : LoginSound(s)'
BY DEF FewerLogins, HoldingLogins, HandlersSound, LoginSound, Grows

LEMMA CallsAlone ==
    ASSUME HandlersSound, Grows, UNCHANGED call
    PROVE  FewerCalls /\ \A c \in Calls : CallSound(c)'
BY DEF FewerCalls, HoldingCalls, HandlersSound, CallSound, Grows

LEMMA LoginBecomes ==
    ASSUME NEW s \in Logins, login \in [Logins -> LoginHandler]
    PROVE  /\ \A h : login' = [login EXCEPT ![s] = h] =>
                /\ login'[s] = h
                /\ \A t \in Logins \ {s} : login'[t] = login[t]
           /\ \A pc : Goto(s, pc) =>
                /\ login'[s].pc = pc
                /\ login'[s].record = login[s].record
                /\ login'[s].request = login[s].request
                /\ login'[s].ip = login[s].ip
                /\ login'[s].result = login[s].result /\ login'[s].subject = login[s].subject
                /\ \A t \in Logins \ {s} : login'[t] = login[t]
           /\ Return(s) =>
                /\ login'[s].pc = "idle" /\ login'[s].record = None
                /\ \A t \in Logins \ {s} : login'[t] = login[t]
<1>1. \A h : login' = [login EXCEPT ![s] = h] =>
            login'[s] = h /\ \A t \in Logins \ {s} : login'[t] = login[t]
  OBVIOUS
<1>2. ASSUME NEW pc, Goto(s, pc)
      PROVE  /\ login'[s].pc = pc
             /\ login'[s].record = login[s].record
             /\ login'[s].request = login[s].request
             /\ login'[s].ip = login[s].ip
             /\ login'[s].result = login[s].result /\ login'[s].subject = login[s].subject
             /\ \A t \in Logins \ {s} : login'[t] = login[t]
  BY <1>2 DEF Goto, LoginHandler
<1>3. IdleLogin.pc = "idle" /\ IdleLogin.record = None
  BY DEF IdleLogin
<1> QED BY <1>1, <1>2, <1>3 DEF Return

\* Handler s moves on, and holds nothing it did not hold before.
LEMMA LoginMovesOn ==
    ASSUME NEW s \in Logins, HandlersSound, UNCHANGED <<ledger, call>>,
           Spendable' \subseteq Spendable,
           \A t \in Logins \ {s} : login'[t] = login[t], LoginSound(s)',
           login'[s].record # None =>
               login[s].record # None /\ login'[s].request = login[s].request
    PROVE  HandlersSound' /\ LetsGo
<1>1. Grows
  BY LedgerGrows
<1>2. HandlersSound'
  BY <1>1, OtherLogins, CallsAlone DEF HandlersSound
<1>3. FewerLogins
  BY DEF FewerLogins, HoldingLogins
<1> QED BY <1>1, <1>2, <1>3, CallsAlone DEF LetsGo

LEMMA StoresKept ==
    ASSUME StoresSound, Grows,
           DOMAIN pending' \subseteq DOMAIN pending, DOMAIN codes' \subseteq DOMAIN codes,
           DOMAIN refresh' \subseteq DOMAIN refresh, DOMAIN access' \subseteq DOMAIN access
    PROVE  StoresSound' /\ Spendable' \subseteq Spendable
BY DEF StoresSound, Spendable, Grows

LEMMA StoreIsOwn ==
    ASSUME StoresSound
    PROVE  /\ \A id \in DOMAIN pending : id \notin DOMAIN codes \cup DOMAIN refresh
           /\ \A id \in DOMAIN codes : id \notin DOMAIN pending \cup DOMAIN refresh
           /\ \A id \in DOMAIN refresh : id \notin DOMAIN pending \cup DOMAIN codes
BY DEF StoresSound, IssuedOf

LEMMA MovingStep ==
    ASSUME NEW s \in Logins, TypeOK, StoresSound, HandlersSound, UNCHANGED call,
           \/ \E id \in IssuedOf("pending") \cup {0}, ip \in ClientIps : LoginRead(s, id, ip)
           \/ LoginHit(s) \/ LoginVerified(s) \/ CallbackExchange(s) \/ CallbackVet(s)
           \/ LoginRefused(s) \/ LoginCrashes(s)
    PROVE  StoresSound' /\ HandlersSound' /\ LetsGo
<1> USE DEF LoginSound
<1>1. LoginSound(s) /\ login \in [Logins -> LoginHandler] /\ login[s] \in LoginHandler
  BY DEF HandlersSound, TypeOK
<1>2. UNCHANGED stateVars
  BY DEF LoginRead, LoginHit, LoginVerified, CallbackExchange, CallbackVet,
         LoginRefused, LoginCrashes
<1>3. StoresSound' /\ Spendable' \subseteq Spendable /\ UNCHANGED <<ledger, call>> /\ Grows
  BY <1>2, LedgerGrows, StoresKept DEF stateVars
<1>4. /\ \A t \in Logins \ {s} : login'[t] = login[t]
      /\ LoginSound(s)'
      /\ login'[s].record # None =>
            login[s].record # None /\ login'[s].request = login[s].request
  <2>1. ASSUME NEW id, NEW ip \in ClientIps, LoginRead(s, id, ip)
        PROVE  /\ \A t \in Logins \ {s} : login'[t] = login[t]
               /\ login'[s].pc = "hit" /\ login'[s].record = None /\ login'[s].ip = ip
    <3> DEFINE h == [IdleLogin EXCEPT !.pc = "hit", !.request = id, !.ip = ip,
                                      !.found = id \in DOMAIN pending]
    <3>1. h.pc = "hit" /\ h.record = None /\ h.ip = ip
      BY DEF IdleLogin
    <3>2. login' = [login EXCEPT ![s] = h]
      BY <2>1 DEF LoginRead
    <3> HIDE DEF h
    <3> QED BY <1>1, <3>1, <3>2, LoginBecomes
  <2>2. CASE \E id \in IssuedOf("pending") \cup {0}, ip \in ClientIps : LoginRead(s, id, ip)
    BY <2>1, <2>2, AuthorizeAssumption
  <2>3. CASE LoginHit(s)
    BY <1>1, <2>3, LoginBecomes DEF LoginHit
  <2>4. CASE LoginVerified(s) \/ CallbackExchange(s)
    BY <1>1, <1>3, <2>4, LoginBecomes DEF LoginVerified, CallbackExchange, Grows
  <2>5. CASE CallbackVet(s)
    <3> DEFINE h == [login[s] EXCEPT !.pc = "issue", !.subject = login[s].result.person]
    <3>1. h.pc = "issue" /\ h.record = login[s].record /\ h.request = login[s].request
      BY <1>1 DEF LoginHandler
    <3>2. login' = [login EXCEPT ![s] = h]
      BY <2>5 DEF CallbackVet
    <3> HIDE DEF h
    <3>3. login'[s] = h /\ \A t \in Logins \ {s} : login'[t] = login[t]
      BY <1>1, <3>2, LoginBecomes
    <3> QED BY <1>1, <1>3, <2>5, <3>1, <3>3 DEF CallbackVet, Grows
  <2>6. CASE LoginRefused(s) \/ LoginCrashes(s)
    BY <1>1, <2>6, LoginBecomes DEF LoginRefused, LoginCrashes
  <2> QED BY <2>2, <2>3, <2>4, <2>5, <2>6
<1> QED BY <1>3, <1>4, LoginMovesOn

LEMMA CallbackConsumeStep ==
    ASSUME NEW s \in Logins, NEW id \in DOMAIN pending, NEW result \in signIns \cup {None},
           TypeOK, StoresSound, HandlersSound, CallbackConsume(s, id, result), UNCHANGED call
    PROVE  StoresSound' /\ HandlersSound' /\ (LetsGo \/ LoginTakes(s, id))
<1>1. LoginSound(s) /\ login \in [Logins -> LoginHandler]
  BY DEF HandlersSound, TypeOK
<1>2. UNCHANGED ledger /\ Grows
  BY LedgerGrows DEF CallbackConsume
<1>3. DOMAIN pending' = DOMAIN pending \ {id}
  BY PopFacts DEF CallbackConsume
<1>4. StoresSound' /\ Spendable' \subseteq Spendable \ {id} /\ id \in Spendable
  BY <1>2, <1>3, StoresKept, StoreIsOwn DEF CallbackConsume, Spendable
<1>5. CASE UNCHANGED login
  BY <1>2, <1>4, <1>5, LoginsAlone, CallsAlone DEF HandlersSound, LetsGo
<1>6. CASE login # login'
  <2> DEFINE h == [IdleLogin EXCEPT !.pc = "exchange", !.request = id,
                                    !.record = pending[id], !.result = result]
  <2>1. login' = [login EXCEPT ![s] = h] /\ result # None
    BY <1>6 DEF CallbackConsume
  <2>2. /\ h.pc = "exchange" /\ h.request = id /\ h.record # None /\ h.result # None
        /\ id \in IssuedOf("pending")
    BY <2>1, AuthorizeAssumption DEF IdleLogin, TypeOK, StoresSound
  <2> HIDE DEF h
  <2>3. login'[s] = h /\ \A t \in Logins \ {s} : login'[t] = login[t]
    BY <1>1, <2>1, LoginBecomes
  <2>4. LoginSound(s)' /\ s \notin HoldingLogins
    BY <1>1, <1>2, <2>2, <2>3 DEF LoginSound, Grows, CallbackConsume, HoldingLogins
  <2>5. HandlersSound'
    BY <1>2, <2>3, <2>4, OtherLogins, CallsAlone DEF HandlersSound
  <2>6. LoginTakes(s, id)
    BY <1>2, <1>4, <2>2, <2>3, <2>4, CallsAlone DEF LoginTakes, HoldingLogins
  <2> QED BY <1>4, <2>5, <2>6
<1> QED BY <1>5, <1>6

LEMMA LoginConsumeStep ==
    ASSUME NEW s \in Logins, TypeOK, StoresSound, HandlersSound, LoginConsume(s), UNCHANGED call
    PROVE  StoresSound' /\ HandlersSound' /\ (LetsGo \/ \E id \in Spendable : LoginTakes(s, id))
<1> DEFINE id == login[s].request
<1>1. LoginSound(s) /\ login \in [Logins -> LoginHandler] /\ login[s] \in LoginHandler
  BY DEF HandlersSound, TypeOK
<1>2. UNCHANGED ledger /\ Grows
  BY LedgerGrows DEF LoginConsume
<1>3. DOMAIN pending' = DOMAIN pending \ {id}
  BY PopFacts DEF LoginConsume
<1>4. StoresSound' /\ Spendable' \subseteq Spendable
  BY <1>2, <1>3, StoresKept DEF LoginConsume
<1>5. CASE id \notin DOMAIN pending
  <2>1. Return(s)
    BY <1>5 DEF LoginConsume
  <2>2. /\ login'[s].pc = "idle" /\ login'[s].record = None
        /\ \A t \in Logins \ {s} : login'[t] = login[t]
    BY <1>1, <2>1, LoginBecomes
  <2> QED BY <1>2, <1>4, <2>2, LoginMovesOn DEF LoginSound
<1>6. CASE id \in DOMAIN pending
  <2> DEFINE h == [login[s] EXCEPT !.pc = "issue", !.record = pending[id], !.subject = LoginUser]
  <2>1. login' = [login EXCEPT ![s] = h]
    BY <1>6 DEF LoginConsume
  <2>2. h.pc = "issue" /\ h.request = id /\ h.record # None /\ id \in IssuedOf("pending")
    <3>1. pending[id] \in PendingRecord
      BY <1>6 DEF TypeOK
    <3> QED BY <1>1, <1>6, <3>1, AuthorizeAssumption DEF LoginHandler, StoresSound
  <2> HIDE DEF h
  <2>3. login'[s] = h /\ \A t \in Logins \ {s} : login'[t] = login[t]
    BY <1>1, <2>1, LoginBecomes
  <2>4. LoginSound(s)' /\ s \notin HoldingLogins
    BY <1>1, <1>2, <2>2, <2>3 DEF LoginSound, Grows, LoginConsume, HoldingLogins
  <2>5. HandlersSound'
    BY <1>2, <2>3, <2>4, OtherLogins, CallsAlone DEF HandlersSound
  <2>6. id \in Spendable /\ Spendable' \subseteq Spendable \ {id}
    BY <1>3, <1>6, StoreIsOwn DEF Spendable, LoginConsume
  <2>7. LoginTakes(s, id)
    BY <1>2, <2>2, <2>3, <2>4, <2>6, CallsAlone DEF LoginTakes, HoldingLogins
  <2> QED BY <1>4, <2>5, <2>6, <2>7
<1> QED BY <1>5, <1>6

LEMMA IssueCodeStep ==
    ASSUME NEW s \in Logins, TypeOK, StoresSound, HandlersSound, IssueCode(s), UNCHANGED call
    PROVE  StoresSound' /\ HandlersSound' /\ s \in HoldingLogins /\ LoginGives(s)
<1>1. /\ LoginSound(s) /\ login \in [Logins -> LoginHandler] /\ login[s] \in LoginHandler
      /\ login[s].pc = "issue"
  BY DEF HandlersSound, TypeOK, IssueCode
<1>2. /\ login[s].record \in PendingRecord /\ login[s].request \in Issued
      /\ login[s].subject \in People \cup {None}
  BY <1>1 DEF LoginSound, LoginHandler, IssuedOf
<1>3. Extends("code", login[s].request) /\ Grows
  <2>1. /\ login[s].record.client \in Clients /\ login[s].record.redirect \in RedirectUris
        /\ login[s].record.challenge \in Challenges
    BY <1>2 DEF PendingRecord
  <2> QED BY <1>2, <2>1, MintFacts, LedgerGrows DEF IssueCode, TypeOK
<1>4. DOMAIN codes' = DOMAIN codes \cup {NextId}
  BY PutFacts DEF IssueCode
<1>5. StoresSound' /\ Spendable' \subseteq Spendable \cup {NextId}
  <2>1. NextId \in IssuedOf("code")'
    BY <1>3 DEF Extends, IssuedOf
  <2> QED BY <1>3, <1>4, <2>1 DEF StoresSound, Grows, Spendable, IssueCode
<1>6. /\ login'[s].pc = "idle" /\ login'[s].record = None
      /\ \A t \in Logins \ {s} : login'[t] = login[t]
  BY <1>1, LoginBecomes DEF IssueCode
<1>7. HandlersSound'
  BY <1>3, <1>6, OtherLogins, CallsAlone DEF HandlersSound, LoginSound
<1>8. FewerLogins /\ s \notin HoldingLogins' /\ s \in HoldingLogins
  BY <1>1, <1>6 DEF FewerLogins, HoldingLogins, LoginSound
<1> QED BY <1>3, <1>5, <1>7, <1>8, CallsAlone DEF LoginGives

LEMMA BeginStep ==
    ASSUME TypeOK, StoresSound, HandlersSound, UNCHANGED call,
           NEW client \in ServedClients, NEW redirect \in RedirectUris, NEW v \in Verifiers,
           AuthorizeLogin(client, redirect, v) \/ AuthorizeAuto(client, redirect, v)
    PROVE  StoresSound' /\ HandlersSound' /\ Begins
<1>1. UNCHANGED authorizeVars
  BY DEF AuthorizeLogin, AuthorizeAuto
<1>2. CASE AuthorizeLogin(client, redirect, v)
  <2>1. Extends("pending", 0) /\ Grows
    BY <1>2, ServedAreClients, ChallengesOfVerifiers, MintFacts, LedgerGrows
    DEF AuthorizeLogin, TypeOK
  <2>2. DOMAIN pending' = DOMAIN pending \cup {NextId}
    BY <1>2, PutFacts DEF AuthorizeLogin
  <2>3. NextId \in IssuedOf("pending")'
    BY <2>1 DEF Extends, IssuedOf
  <2>4. StoresSound' /\ Spendable' \subseteq Spendable \cup {NextId}
    BY <1>2, <2>1, <2>2, <2>3 DEF StoresSound, Grows, Spendable, AuthorizeLogin
  <2> QED BY <1>1, <2>1, <2>4, LoginsAlone, CallsAlone DEF Begins, HandlersSound, authorizeVars
<1>3. CASE AuthorizeAuto(client, redirect, v)
  <2>1. Extends("code", 0) /\ Grows
    BY <1>3, ServedAreClients, ChallengesOfVerifiers, MintFacts, LedgerGrows
    DEF AuthorizeAuto, TypeOK
  <2>2. DOMAIN codes' = DOMAIN codes \cup {NextId}
    BY <1>3, PutFacts DEF AuthorizeAuto
  <2>3. NextId \in IssuedOf("code")'
    BY <2>1 DEF Extends, IssuedOf
  <2>4. StoresSound' /\ Spendable' \subseteq Spendable \cup {NextId}
    BY <1>3, <2>1, <2>2, <2>3 DEF StoresSound, Grows, Spendable, AuthorizeAuto
  <2> QED BY <1>1, <2>1, <2>4, LoginsAlone, CallsAlone DEF Begins, HandlersSound, authorizeVars
<1> QED BY <1>2, <1>3

LEMMA CallBecomes ==
    ASSUME NEW c \in Calls, call \in [Calls -> CallHandler]
    PROVE  /\ \A grant, client, token, redirect, challenge, subject :
                Exchange(c, grant, client, token, redirect, challenge, subject) =>
                    /\ call'[c].pc = "issue_access"
                    /\ call'[c].grant = grant
                    /\ call'[c].token = token
                    /\ \A d \in Calls \ {c} : call'[d] = call[d]
           /\ call' = [call EXCEPT ![c].pc = "issue_refresh"] =>
                /\ call'[c].pc = "issue_refresh"
                /\ call'[c].token = call[c].token
                /\ \A d \in Calls \ {c} : call'[d] = call[d]
           /\ Finish(c) =>
                /\ call'[c].pc = "idle" /\ call'[c].token = 0
                /\ \A d \in Calls \ {c} : call'[d] = call[d]
<1>1. ASSUME NEW grant, NEW client, NEW token, NEW redirect, NEW challenge, NEW subject,
             Exchange(c, grant, client, token, redirect, challenge, subject)
      PROVE  /\ call'[c].pc = "issue_access"
             /\ call'[c].grant = grant
             /\ call'[c].token = token
             /\ \A d \in Calls \ {c} : call'[d] = call[d]
  BY <1>1 DEF Exchange
<1>2. ASSUME call' = [call EXCEPT ![c].pc = "issue_refresh"]
      PROVE  /\ call'[c].pc = "issue_refresh"
             /\ call'[c].token = call[c].token
             /\ \A d \in Calls \ {c} : call'[d] = call[d]
  BY <1>2 DEF CallHandler
<1>3. ASSUME Finish(c)
      PROVE  /\ call'[c].pc = "idle" /\ call'[c].token = 0
             /\ \A d \in Calls \ {c} : call'[d] = call[d]
  BY <1>3 DEF Finish, IdleCall
<1> QED BY <1>1, <1>2, <1>3

\* Exchanges leave the login handlers alone, and may only drop credentials.
LEMMA CallMovesOn ==
    ASSUME NEW c \in Calls, HandlersSound, UNCHANGED <<ledger, login>>,
           Spendable' \subseteq Spendable,
           \A d \in Calls \ {c} : call'[d] = call[d], CallSound(c)',
           call'[c].token # 0 => call'[c] = call[c]
    PROVE  HandlersSound' /\ LetsGo
<1>1. Grows
  BY LedgerGrows
<1>2. HandlersSound'
  BY <1>1, OtherCalls, LoginsAlone DEF HandlersSound
<1>3. FewerCalls
  BY DEF FewerCalls, HoldingCalls
<1> QED BY <1>1, <1>2, <1>3, LoginsAlone DEF LetsGo

\* Handler c takes identifier id, of a code or of a refresh token.
LEMMA CallTakesStep ==
    ASSUME NEW c \in Calls, NEW id \in Spendable,
           HandlersSound, UNCHANGED <<ledger, login>>, call[c].pc = "idle",
           Spendable' \subseteq Spendable \ {id},
           id \in IssuedOf("code") \cup IssuedOf("refresh"),
           id # 0, call'[c].pc = "issue_access", call'[c].token = id,
           call'[c].grant # "client_credentials",
           \A d \in Calls \ {c} : call'[d] = call[d]
    PROVE  HandlersSound' /\ CallTakes(c, id)
<1>1. Grows
  BY LedgerGrows
<1>2. CallSound(c)' /\ c \notin HoldingCalls
  BY <1>1 DEF CallSound, HandlersSound, Grows, HoldingCalls
<1>3. HandlersSound'
  BY <1>1, <1>2, OtherCalls, LoginsAlone DEF HandlersSound
<1> QED BY <1>1, <1>2, <1>3, LoginsAlone DEF CallTakes, HoldingCalls

LEMMA RedeemCodeStep ==
    ASSUME NEW c \in Calls, NEW id \in DOMAIN codes, NEW client, NEW redirect, NEW v,
           TypeOK, StoresSound, HandlersSound,
           RedeemCode(c, id, client, redirect, v), UNCHANGED authorizeVars
    PROVE  StoresSound' /\ HandlersSound' /\ (LetsGo \/ CallTakes(c, id))
<1>1. UNCHANGED <<ledger, login>> /\ call[c].pc = "idle" /\ Grows
  BY LedgerGrows DEF RedeemCode, authorizeVars
<1>2. DOMAIN codes' = DOMAIN codes \ {id}
  BY PopFacts DEF RedeemCode
<1>3. StoresSound' /\ Spendable' \subseteq Spendable \ {id} /\ id \in Spendable
  BY <1>1, <1>2, StoresKept, StoreIsOwn DEF RedeemCode, Spendable
<1>4. id \in IssuedOf("code") /\ id # 0
  BY DEF StoresSound, IssuedOf, Issued
<1>5. CASE UNCHANGED call
  BY <1>1, <1>3, <1>5, LoginsAlone, CallsAlone DEF HandlersSound, LetsGo
<1>6. CASE Exchange(c, "code", client, id, redirect, S256(v), codes[id].subject)
  BY <1>1, <1>3, <1>4, <1>6, CallBecomes, CallTakesStep DEF TypeOK
<1> QED BY <1>5, <1>6 DEF RedeemCode

LEMMA RotateRefreshStep ==
    ASSUME NEW c \in Calls, NEW id \in DOMAIN refresh, NEW client,
           TypeOK, StoresSound, HandlersSound,
           RotateRefresh(c, id, client), UNCHANGED authorizeVars
    PROVE  StoresSound' /\ HandlersSound' /\ (LetsGo \/ CallTakes(c, id))
<1>1. UNCHANGED <<ledger, login>> /\ call[c].pc = "idle" /\ Grows
  BY LedgerGrows DEF RotateRefresh, authorizeVars
<1>2. DOMAIN refresh' = DOMAIN refresh \ {id}
  BY PopFacts DEF RotateRefresh
<1>3. StoresSound' /\ Spendable' \subseteq Spendable \ {id} /\ id \in Spendable
  BY <1>1, <1>2, StoresKept, StoreIsOwn DEF RotateRefresh, Spendable
<1>4. id \in IssuedOf("refresh") /\ id # 0
  BY DEF StoresSound, IssuedOf, Issued
<1>5. CASE UNCHANGED call
  BY <1>1, <1>3, <1>5, LoginsAlone, CallsAlone DEF HandlersSound, LetsGo
<1>6. CASE Exchange(c, "refresh", client, id, None, None, refresh[id].subject)
  BY <1>1, <1>3, <1>4, <1>6, CallBecomes, CallTakesStep DEF TypeOK
<1> QED BY <1>5, <1>6 DEF RotateRefresh

LEMMA ClientCredentialsStep ==
    ASSUME NEW c \in Calls, TypeOK, StoresSound, HandlersSound,
           ClientCredentials(c), UNCHANGED authorizeVars
    PROVE  StoresSound' /\ HandlersSound' /\ LetsGo
<1>1. UNCHANGED <<ledger, login>> /\ call[c].pc = "idle" /\ Grows
  BY LedgerGrows DEF ClientCredentials, authorizeVars, stateVars
<1>2. StoresSound' /\ Spendable' \subseteq Spendable
  BY <1>1, StoresKept DEF ClientCredentials, stateVars
<1>3. /\ call'[c].pc = "issue_access" /\ call'[c].token = 0
      /\ call'[c].grant = "client_credentials"
      /\ \A d \in Calls \ {c} : call'[d] = call[d]
  BY CallBecomes DEF ClientCredentials, TypeOK
<1>4. CallSound(c)'
  BY <1>3 DEF CallSound
<1> QED BY <1>1, <1>2, <1>3, <1>4, CallMovesOn

LEMMA CallCrashesStep ==
    ASSUME NEW c \in Calls, TypeOK, StoresSound, HandlersSound,
           CallCrashes(c), UNCHANGED authorizeVars
    PROVE  StoresSound' /\ HandlersSound' /\ LetsGo
<1>1. UNCHANGED <<ledger, login>> /\ Grows
  BY LedgerGrows DEF CallCrashes, authorizeVars, stateVars
<1>2. StoresSound' /\ Spendable' \subseteq Spendable
  BY <1>1, StoresKept DEF CallCrashes, stateVars
<1>3. /\ call'[c].pc = "idle" /\ call'[c].token = 0
      /\ \A d \in Calls \ {c} : call'[d] = call[d]
  BY CallBecomes DEF CallCrashes, TypeOK
<1>4. CallSound(c)'
  BY <1>3 DEF CallSound
<1> QED BY <1>1, <1>2, <1>3, <1>4, CallMovesOn

LEMMA CallMint ==
    ASSUME NEW c \in Calls, call[c] \in CallHandler, ledger \in Seq(LedgerEntry),
           NEW kind \in {"access", "refresh"}, call[c].token \in Issued \cup {0},
           Mint(kind, call[c].token, call[c].client, call[c].redirect,
                call[c].challenge, call[c].subject)
    PROVE  Extends(kind, call[c].token)
<1>1. /\ call[c].client \in Clients \cup {None}
      /\ call[c].redirect \in RedirectUris \cup {None}
      /\ call[c].challenge \in Challenges \cup {None}
      /\ call[c].subject \in People \cup {None}
  BY DEF CallHandler
<1>2. kind \in {"pending", "code", "access", "refresh"}
  OBVIOUS
<1> QED BY <1>1, <1>2, MintFacts DEF Mint

LEMMA IssueAccessStep ==
    ASSUME NEW c \in Calls, TypeOK, StoresSound, HandlersSound,
           IssueAccess(c), UNCHANGED authorizeVars
    PROVE  StoresSound' /\ HandlersSound' /\ (Begins \/ CallMints(c))
<1>1. /\ CallSound(c) /\ call \in [Calls -> CallHandler] /\ call[c] \in CallHandler
      /\ call[c].pc = "issue_access" /\ UNCHANGED login
  BY DEF HandlersSound, TypeOK, IssueAccess, authorizeVars
<1>2. Extends("access", call[c].token) /\ Grows
  <2>1. call[c].token \in Issued \cup {0}
    BY <1>1 DEF CallSound, IssuedOf
  <2>2. Mint("access", call[c].token, call[c].client, call[c].redirect,
             call[c].challenge, call[c].subject)
    BY DEF IssueAccess
  <2>3. Extends("access", call[c].token)
    BY <1>1, <2>1, <2>2, CallMint DEF TypeOK
  <2> QED BY <2>3, LedgerGrows
<1>3. DOMAIN access' = DOMAIN access \cup {NextId}
  BY PutFacts DEF IssueAccess
<1>4. StoresSound' /\ Spendable' \subseteq Spendable
  <2>1. NextId \in IssuedOf("access")'
    BY <1>2 DEF Extends, IssuedOf
  <2> QED BY <1>2, <1>3, <2>1 DEF StoresSound, Grows, Spendable, IssueAccess
<1>5. CASE call[c].token = 0
  <2>1. Finish(c)
    BY <1>1, <1>5 DEF IssueAccess, CallSound
  <2>2. /\ call'[c].pc = "idle" /\ call'[c].token = 0
        /\ \A d \in Calls \ {c} : call'[d] = call[d]
    BY <1>1, <2>1, CallBecomes
  <2>3. HandlersSound'
    BY <1>1, <1>2, <2>2, OtherCalls, LoginsAlone DEF HandlersSound, CallSound
  <2>4. FewerCalls
    BY <2>2 DEF FewerCalls, HoldingCalls
  <2> QED BY <1>1, <1>2, <1>4, <1>5, <2>3, <2>4, LoginsAlone DEF Begins
<1>6. CASE call[c].token # 0
  <2>1. call' = [call EXCEPT ![c].pc = "issue_refresh"]
    BY <1>1, <1>6 DEF IssueAccess, CallSound
  <2>2. /\ call'[c].pc = "issue_refresh" /\ call'[c].token = call[c].token
        /\ \A d \in Calls \ {c} : call'[d] = call[d]
    BY <1>1, <2>1, CallBecomes
  <2>3. HandlersSound'
    BY <1>1, <1>2, <1>6, <2>2, OtherCalls, LoginsAlone DEF HandlersSound, CallSound, Grows
  <2> QED BY <1>1, <1>2, <1>4, <1>6, <2>2, <2>3, LoginsAlone DEF CallMints, HoldingCalls
<1> QED BY <1>5, <1>6

LEMMA IssueRefreshStep ==
    ASSUME NEW c \in Calls, TypeOK, StoresSound, HandlersSound,
           IssueRefresh(c), UNCHANGED authorizeVars
    PROVE  StoresSound' /\ HandlersSound' /\ c \in HoldingCalls /\ CallGives(c)
<1>1. /\ CallSound(c) /\ call \in [Calls -> CallHandler] /\ call[c] \in CallHandler
      /\ call[c].pc = "issue_refresh" /\ UNCHANGED login
  BY DEF HandlersSound, TypeOK, IssueRefresh, authorizeVars
<1>2. Extends("refresh", call[c].token) /\ Grows
  <2>1. call[c].token \in Issued
    BY <1>1 DEF CallSound, IssuedOf
  <2>2. Mint("refresh", call[c].token, call[c].client, call[c].redirect,
             call[c].challenge, call[c].subject)
    BY DEF IssueRefresh
  <2>3. Extends("refresh", call[c].token)
    BY <1>1, <2>1, <2>2, CallMint DEF TypeOK
  <2> QED BY <2>3, LedgerGrows
<1>3. DOMAIN refresh' = DOMAIN refresh \cup {NextId}
  BY PutFacts DEF IssueRefresh
<1>4. StoresSound' /\ Spendable' \subseteq Spendable \cup {NextId}
  <2>1. NextId \in IssuedOf("refresh")'
    BY <1>2 DEF Extends, IssuedOf
  <2> QED BY <1>2, <1>3, <2>1 DEF StoresSound, Grows, Spendable, IssueRefresh
<1>5. /\ call'[c].pc = "idle" /\ call'[c].token = 0
      /\ \A d \in Calls \ {c} : call'[d] = call[d]
  BY <1>1, CallBecomes DEF IssueRefresh
<1>6. HandlersSound'
  BY <1>1, <1>2, <1>5, OtherCalls, LoginsAlone DEF HandlersSound, CallSound
<1>7. FewerCalls /\ c \notin HoldingCalls' /\ c \in HoldingCalls
  BY <1>1, <1>5 DEF FewerCalls, HoldingCalls, CallSound
<1> QED BY <1>1, <1>2, <1>4, <1>6, <1>7, LoginsAlone DEF CallGives

LEMMA ExpireStep ==
    ASSUME StoresSound, HandlersSound, Expire, UNCHANGED <<authorizeVars, call>>
    PROVE  StoresSound' /\ HandlersSound' /\ LetsGo
<1>1. UNCHANGED <<ledger, login, call>> /\ Grows
  BY LedgerGrows DEF Expire, authorizeVars
<1>2. StoresSound' /\ Spendable' \subseteq Spendable
  <2>1. /\ DOMAIN pending' \subseteq DOMAIN pending /\ DOMAIN codes' \subseteq DOMAIN codes
        /\ DOMAIN refresh' \subseteq DOMAIN refresh /\ DOMAIN access' \subseteq DOMAIN access
    <3>1. ASSUME NEW id, pending' = Pop(pending, id) PROVE DOMAIN pending' \subseteq DOMAIN pending
      BY <3>1, PopFacts
    <3>2. ASSUME NEW id, codes' = Pop(codes, id) PROVE DOMAIN codes' \subseteq DOMAIN codes
      BY <3>2, PopFacts
    <3>3. ASSUME NEW id, refresh' = Pop(refresh, id) PROVE DOMAIN refresh' \subseteq DOMAIN refresh
      BY <3>3, PopFacts
    <3> QED BY <3>1, <3>2, <3>3 DEF Expire
  <2> QED BY <1>1, <2>1, StoresKept
<1> QED BY <1>1, <1>2, LoginsAlone, CallsAlone DEF LetsGo, HandlersSound

LEMMA StepSound ==
    ASSUME TypeOK, StoresSound, HandlersSound, Next
    PROVE  StoresSound' /\ HandlersSound' /\ StepKind
<1>1. CASE AuthorizeNext /\ UNCHANGED call
  <2>1. ASSUME NEW client \in ServedClients, NEW redirect \in RedirectUris, NEW v \in Verifiers,
               AuthorizeLogin(client, redirect, v) \/ AuthorizeAuto(client, redirect, v)
        PROVE  StoresSound' /\ HandlersSound' /\ StepKind
    BY <1>1, <2>1, BeginStep DEF StepKind
  <2>2. ASSUME NEW s \in Logins,
               \/ \E id \in IssuedOf("pending") \cup {0}, ip \in ClientIps : LoginRead(s, id, ip)
               \/ LoginHit(s) \/ LoginVerified(s) \/ CallbackExchange(s) \/ CallbackVet(s)
               \/ LoginRefused(s) \/ LoginCrashes(s)
        PROVE  StoresSound' /\ HandlersSound' /\ StepKind
    BY <1>1, <2>2, MovingStep DEF StepKind
  <2>3. ASSUME NEW s \in Logins, LoginConsume(s)
        PROVE  StoresSound' /\ HandlersSound' /\ StepKind
    BY <1>1, <2>3, LoginConsumeStep DEF StepKind
  <2>4. ASSUME NEW s \in Logins, NEW id \in DOMAIN pending, NEW result \in signIns \cup {None},
               CallbackConsume(s, id, result)
        PROVE  StoresSound' /\ HandlersSound' /\ StepKind
    <3>1. id \in Spendable
      BY DEF Spendable
    <3> QED BY <1>1, <2>4, <3>1, CallbackConsumeStep DEF StepKind
  <2>5. ASSUME NEW s \in Logins, IssueCode(s)
        PROVE  StoresSound' /\ HandlersSound' /\ StepKind
    BY <1>1, <2>5, IssueCodeStep DEF StepKind
  <2>6. ASSUME \/ \E id \in DOMAIN pending, person \in People : EntraSignIn(id, person)
               \/ \E ip \in ClientIps : WindowEnds(ip)
        PROVE  StoresSound' /\ HandlersSound' /\ StepKind
    <3>1. UNCHANGED stateVars /\ UNCHANGED <<login, call>>
      BY <1>1, <2>6 DEF EntraSignIn, WindowEnds
    <3>2. Grows /\ UNCHANGED ledger
      BY <3>1, LedgerGrows DEF stateVars
    <3>3. StoresSound' /\ Spendable' \subseteq Spendable
      BY <3>1, <3>2, StoresKept DEF stateVars
    <3> QED BY <3>1, <3>2, <3>3, LoginsAlone, CallsAlone DEF StepKind, LetsGo, HandlersSound
  <2>7. ASSUME NEW s \in Logins, LoginSteps(s) \/ LoginCrashes(s)
        PROVE  StoresSound' /\ HandlersSound' /\ StepKind
    BY <2>2, <2>3, <2>5, <2>7 DEF LoginSteps
  <2>8. ASSUME NEW s \in Logins, \E id \in IssuedOf("pending") \cup {0}, ip \in ClientIps : LoginRead(s, id, ip)
        PROVE  StoresSound' /\ HandlersSound' /\ StepKind
    BY <2>2, <2>8
  <2>9. CASE \E s \in Logins, id \in IssuedOf("pending") \cup {0}, ip \in ClientIps :
                LoginRead(s, id, ip)
    <3>1. PICK s \in Logins, id \in IssuedOf("pending") \cup {0}, ip \in ClientIps : LoginRead(s, id, ip)
      BY <2>9
    <3> QED BY <2>8, <3>1
  <2> QED
    <3> USE <1>1, <2>1, <2>4, <2>6, <2>7, <2>9
    <3>1. CASE \E client \in ServedClients, redirect \in RedirectUris, v \in Verifiers :
                  AuthorizeLogin(client, redirect, v) \/ AuthorizeAuto(client, redirect, v)
      BY <3>1
    <3>2. CASE \E s \in Logins, id \in DOMAIN pending, result \in signIns \cup {None} :
                  CallbackConsume(s, id, result)
      BY <3>2
    <3>3. CASE \E s \in Logins : LoginSteps(s) \/ LoginCrashes(s)
      BY <3>3
    <3> QED BY <3>1, <3>2, <3>3 DEF AuthorizeNext
<1>2. CASE TokenNext /\ UNCHANGED authorizeVars
  <2>1. ASSUME NEW c \in Calls, NEW id \in DOMAIN codes, NEW client \in ServedClients,
               NEW redirect \in RedirectUris, NEW v \in Verifiers,
               RedeemCode(c, id, client, redirect, v)
        PROVE  StoresSound' /\ HandlersSound' /\ StepKind
    <3>1. id \in Spendable
      BY DEF Spendable
    <3> QED BY <1>2, <2>1, <3>1, RedeemCodeStep DEF StepKind
  <2>2. ASSUME NEW c \in Calls, NEW id \in DOMAIN refresh, NEW client \in ServedClients,
               RotateRefresh(c, id, client)
        PROVE  StoresSound' /\ HandlersSound' /\ StepKind
    <3>1. id \in Spendable
      BY DEF Spendable
    <3> QED BY <1>2, <2>2, <3>1, RotateRefreshStep DEF StepKind
  <2>3. ASSUME NEW c \in Calls, ClientCredentials(c) \/ CallCrashes(c)
        PROVE  StoresSound' /\ HandlersSound' /\ StepKind
    BY <1>2, <2>3, ClientCredentialsStep, CallCrashesStep DEF StepKind
  <2>4. ASSUME NEW c \in Calls, IssueAccess(c)
        PROVE  StoresSound' /\ HandlersSound' /\ StepKind
    <3>1. CallMints(c) => c \in HoldingCalls
      BY DEF CallMints
    <3> QED BY <1>2, <2>4, <3>1, IssueAccessStep DEF StepKind
  <2>5. ASSUME NEW c \in Calls, IssueRefresh(c)
        PROVE  StoresSound' /\ HandlersSound' /\ StepKind
    BY <1>2, <2>5, IssueRefreshStep DEF StepKind
  <2> QED BY <1>2, <2>1, <2>2, <2>3, <2>4, <2>5 DEF TokenNext, CallSteps
<1>3. CASE Expire /\ UNCHANGED <<authorizeVars, call>>
  BY <1>3, ExpireStep DEF StepKind
<1> QED BY <1>1, <1>2, <1>3 DEF Next

(***************************************************************************)
(* The theorems.                                                           *)
(***************************************************************************)

LEMMA InitIInv == Init => IInv
<1> SUFFICES ASSUME Init PROVE IInv
  OBVIOUS
<1>1. /\ login \in [Logins -> LoginHandler] /\ call \in [Calls -> CallHandler]
      /\ \A s \in Logins : login[s].record = None /\ login[s].pc = "idle"
      /\ \A c \in Calls : call[c].token = 0 /\ call[c].pc = "idle"
  BY IdleTypes DEF Init, AuthorizeInit, TokenInit, IdleLogin, IdleCall
<1>2. HoldingLogins = {} /\ HoldingCalls = {} /\ HeldIds = {} /\ HandlersSound
  BY <1>1 DEF HoldingLogins, HoldingCalls, HeldIds, HandlersSound, LoginSound, CallSound
<1>3. /\ attempts \in [ClientIps -> 0 .. MaxAttempts + 1] /\ guesses \in [ClientIps -> Nat]
      /\ signIns \subseteq SignIn
  BY AuthorizeAssumption DEF Init, AuthorizeInit
<1>4. codes = EmptyStore /\ access = EmptyStore /\ DOMAIN EmptyStore = {}
      /\ \A Record : EmptyStore \in [DOMAIN EmptyStore -> Record]
  BY DEF Init, StateInit, EmptyStore
<1> DEFINE Left == /\ ledger \in Seq(LedgerEntry)
                   /\ pending \in [DOMAIN pending -> PendingRecord]
                   /\ refresh \in [DOMAIN refresh -> RefreshRecord]
                   /\ DOMAIN pending \subseteq IssuedOf("pending")
                   /\ DOMAIN refresh \subseteq IssuedOf("refresh")
                   /\ Issued \subseteq {1}
                   /\ \A i \in Issued : ledger[i].parent = 0 /\ ledger[i].root = 1
<1>5. Left
  <2>1. CASE NothingLeft
    BY <1>4, <2>1 DEF NothingLeft, Issued
  <2>2. ASSUME NEW subject \in People \cup {None}, LegacyRefresh(subject)
        PROVE  Left
    <3> DEFINE entry == [kind |-> "refresh", parent |-> 0, root |-> 1,
                         client |-> None, redirect |-> None, challenge |-> None,
                         subject |-> subject]
    <3>1. entry \in LedgerEntry
      BY DEF LedgerEntry
    <3>2. ledger = <<entry>> /\ pending = EmptyStore
          /\ refresh = [i \in {1} |-> [client |-> None, subject |-> subject]]
      BY <2>2 DEF LegacyRefresh
    <3>3. refresh \in [DOMAIN refresh -> RefreshRecord]
      BY <3>2 DEF RefreshRecord
    <3>4. Issued = {1} /\ ledger[1] = entry /\ ledger \in Seq(LedgerEntry)
      <4> HIDE DEF entry
      <4> QED BY <3>1, <3>2 DEF Issued
    <3> QED BY <1>4, <3>2, <3>3, <3>4 DEF IssuedOf
  <2>3. ASSUME NEW client \in Clients, NEW redirect \in RedirectUris, NEW v \in Verifiers,
               NEW nonce \in {0, 1}, LeftPending(client, redirect, v, nonce)
        PROVE  Left
    <3> DEFINE entry == [kind |-> "pending", parent |-> 0, root |-> 1,
                         client |-> client, redirect |-> redirect,
                         challenge |-> S256(v), subject |-> None]
    <3>1. entry \in LedgerEntry
      BY ChallengesOfVerifiers DEF LedgerEntry
    <3>2. ledger = <<entry>> /\ refresh = EmptyStore
          /\ pending = [i \in {1} |-> [client |-> client, redirect |-> redirect,
                                       challenge |-> S256(v), nonce |-> nonce]]
      BY <2>3 DEF LeftPending
    <3>3. pending \in [DOMAIN pending -> PendingRecord]
      BY <3>2, ChallengesOfVerifiers DEF PendingRecord
    <3>4. Issued = {1} /\ ledger[1] = entry /\ ledger \in Seq(LedgerEntry)
      <4> HIDE DEF entry
      <4> QED BY <3>1, <3>2 DEF Issued
    <3> QED BY <1>4, <3>2, <3>3, <3>4 DEF IssuedOf
  <2> QED BY <2>1, <2>2, <2>3 DEF Init, StateInit
<1>6. TypeOK /\ StoresSound
  BY <1>1, <1>3, <1>4, <1>5 DEF TypeOK, StoresSound
<1>7. LedgerSound /\ SpentOnce
  BY <1>5 DEF LedgerSound, SpentOnce
<1>8. Spendable \subseteq {1} /\ 0 \notin Spendable
  BY <1>4, <1>5 DEF Spendable, IssuedOf
<1>9. Unspent /\ OneHolderPerGrant
  BY <1>2, <1>5, <1>8 DEF Unspent, OneHolderPerGrant
<1> QED BY <1>2, <1>6, <1>7, <1>9 DEF IInv

LEMMA StepIInv == IInv /\ [Next]_vars => IInv'
<1> SUFFICES ASSUME IInv, [Next]_vars PROVE IInv'
  OBVIOUS
<1>1. CASE Next
  <2>1. TypeOK' /\ StoresSound' /\ HandlersSound' /\ StepKind
    BY <1>1, TypeStep, StepSound DEF IInv
  <2> QED BY <2>1, LedgerStep, OneHolderStep, UnspentStep DEF IInv
<1>2. CASE UNCHANGED vars
  BY <1>2 DEF vars, stateVars, authorizeVars, IInv, TypeOK, LedgerSound, StoresSound,
     HandlersSound, LoginSound, CallSound, Unspent, OneHolderPerGrant, SpentOnce,
     Issued, IssuedOf, RootOf, Spendable, HeldIds, HoldingLogins, HoldingCalls
<1> QED BY <1>1, <1>2

\* The invariant behind the others holds in every reachable state.
THEOREM Invariance == Spec => []IInv
<1> QED BY InitIInv, StepIInv, PTL DEF Spec

\* Every record in a store and every local variable of a handler keeps the
\* shape the code declares it with.
THEOREM TypeCorrect == Spec => []TypeOK
<1>1. IInv => TypeOK
  BY DEF IInv
<1> QED BY <1>1, Invariance, PTL

\* Whatever the number of handlers, replicas and grants, a grant is in one
\* place at a time.
THEOREM GrantsHaveOneHolder == Spec => []OneHolderPerGrant
<1>1. IInv => OneHolderPerGrant
  BY DEF IInv
<1> QED BY <1>1, Invariance, PTL

\* No request, code or refresh token is ever exchanged twice.
THEOREM NothingIsSpentTwice == Spec => []SpentOnce
<1>1. IInv => SpentOnce
  BY DEF IInv
<1> QED BY <1>1, Invariance, PTL

-----------------------------------------------------------------------------
(***************************************************************************)
(* Part 2: what a token stands for, and how many guesses a window admits.  *)
(***************************************************************************)

(***************************************************************************)
(* Steps that keep what is faithful.                                       *)
(***************************************************************************)

\* The ledger only grows, and sign-ins are not taken back.
HistoryKept ==
    /\ \A i \in Issued : i \in Issued' /\ ledger'[i] = ledger[i]
    /\ signIns \subseteq signIns'

LEMMA HistoryGrows ==
    ASSUME UNCHANGED ledger \/ \E kind, parent : Extends(kind, parent),
           signIns \subseteq signIns'
    PROVE  HistoryKept
BY DEF HistoryKept, Issued, Extends

LEMMA ApprovedStays ==
    ASSUME HistoryKept, NEW id, NEW person
    PROVE  Approved(id, person) => Approved(id, person)'
BY DEF HistoryKept, Approved

\* Where an identifier comes from does not change.
LEMMA OriginStays ==
    ASSUME TypeOK, LedgerSound, HistoryKept, NEW i \in Issued
    PROVE  /\ ledger[i].root \in Issued /\ ledger[i].parent \in Issued \cup {0}
           /\ RootOf(i)' = RootOf(i) /\ Origin(i)' = Origin(i) /\ ledger'[i] = ledger[i]
<1>1. ledger[i] \in LedgerEntry /\ i \in Nat
  BY DEF TypeOK, Issued
<1>2. ledger[i].root \in 1 .. i /\ ledger[i].parent < i /\ ledger[i].parent \in Nat
  BY <1>1 DEF LedgerSound, LedgerEntry
<1>3. ledger[i].root \in Issued /\ ledger[i].parent \in Issued \cup {0}
  BY <1>1, <1>2 DEF Issued
<1> QED BY <1>3 DEF HistoryKept, RootOf, Origin

LEMMA EntryStays ==
    ASSUME TypeOK, LedgerSound, HistoryKept, NEW i \in Issued, EntrySound(i)
    PROVE  EntrySound(i)'
<1>1. /\ ledger[i].root \in Issued /\ ledger[i].parent \in Issued \cup {0}
      /\ RootOf(i)' = RootOf(i) /\ Origin(i)' = Origin(i) /\ ledger'[i] = ledger[i]
  BY OriginStays
<1>2. MayPresent(ledger[i].client, RootOf(i))'
  BY <1>1 DEF EntrySound, MayPresent, RootOf, HistoryKept
<1>3. ledger'[i].subject # None => Vouched(i, ledger[i].subject)'
  <2>1. Approved(RootOf(i), ledger[i].subject) => Approved(RootOf(i), ledger[i].subject)'
    BY <1>1 DEF HistoryKept, Approved, RootOf
  <2> QED BY <1>1, <2>1 DEF EntrySound, Vouched
<1>4. ledger'[i].kind = "code" => CodeSound(i)'
  BY <1>1 DEF EntrySound, CodeSound, Approved, HistoryKept
<1>5. ledger'[i].kind \in {"access", "refresh"} => TokenSound(i)'
  BY <1>1 DEF EntrySound, TokenSound, HistoryKept
<1> QED BY <1>1, <1>2, <1>3, <1>4, <1>5 DEF EntrySound

LEMMA LoginStays ==
    ASSUME HandlersSound, HistoryKept, NEW s \in Logins, LoginFaithful(s), login'[s] = login[s]
    PROVE  LoginFaithful(s)'
<1>1. login[s].record # None => login[s].request \in Issued
  BY DEF HandlersSound, LoginSound, IssuedOf
<1> QED BY <1>1 DEF LoginFaithful, HistoryKept, Approved

LEMMA CallStays ==
    ASSUME HandlersSound, HistoryKept, NEW c \in Calls, CallFaithful(c), call'[c] = call[c]
    PROVE  CallFaithful(c)'
<1>1. call[c].token # 0 => call[c].token \in Issued
  BY DEF HandlersSound, CallSound, IssuedOf
<1> QED BY <1>1 DEF CallFaithful, MayPresent, HistoryKept

LEMMA RecordsStay ==
    ASSUME StoresSound, HistoryKept, RecordsFaithful
    PROVE  /\ \A i \in DOMAIN pending : pending'[i] = pending[i] => PendingFaithful(i)'
           /\ \A i \in DOMAIN codes : codes'[i] = codes[i] => CodeFaithful(i)'
           /\ \A i \in DOMAIN refresh : refresh'[i] = refresh[i] => RefreshFaithful(i)'
           /\ \A i \in DOMAIN access : access'[i] = access[i] => AccessFaithful(i)'
BY DEF StoresSound, IssuedOf, HistoryKept, RecordsFaithful, PendingFaithful, CodeFaithful,
       RefreshFaithful, AccessFaithful

\* So a step has to be looked at only for what it changes.
LEMMA ProvenanceStep ==
    ASSUME IInv, Provenance, HistoryKept,
           \A i \in Issued' \ Issued : EntrySound(i)',
           \A i \in DOMAIN pending' :
               (i \in DOMAIN pending /\ pending'[i] = pending[i]) \/ PendingFaithful(i)',
           \A i \in DOMAIN codes' :
               (i \in DOMAIN codes /\ codes'[i] = codes[i]) \/ CodeFaithful(i)',
           \A i \in DOMAIN refresh' :
               (i \in DOMAIN refresh /\ refresh'[i] = refresh[i]) \/ RefreshFaithful(i)',
           \A i \in DOMAIN access' :
               (i \in DOMAIN access /\ access'[i] = access[i]) \/ AccessFaithful(i)',
           \A s \in Logins : login'[s] = login[s] \/ LoginFaithful(s)',
           \A c \in Calls : call'[c] = call[c] \/ CallFaithful(c)'
    PROVE  Provenance'
<1>1. RecordsFaithful'
  BY RecordsStay DEF IInv, Provenance, RecordsFaithful
<1>2. HandlersFaithful'
  BY LoginStays, CallStays DEF IInv, Provenance, HandlersFaithful
<1>3. \A i \in Issued' : EntrySound(i)'
  BY EntryStays DEF IInv, Provenance
<1> QED BY <1>1, <1>2, <1>3 DEF Provenance

\* A store from which nothing but one entry may be gone.
Drops(before, after) == after = before \/ \E id : after = Pop(before, id)

LEMMA DropsFacts ==
    ASSUME NEW before, NEW after, Drops(before, after)
    PROVE  \A i \in DOMAIN after : i \in DOMAIN before /\ after[i] = before[i]
<1>1. ASSUME NEW id, after = Pop(before, id)
      PROVE  \A i \in DOMAIN after : i \in DOMAIN before /\ after[i] = before[i]
  BY <1>1 DEF Pop, Restrict
<1> QED BY <1>1 DEF Drops

LEMMA PutStep ==
    ASSUME NEW before, NEW after, NEW id, NEW record, after = Put(before, id, record)
    PROVE  \A i \in DOMAIN after :
               (i \in DOMAIN before /\ after[i] = before[i]) \/ (i = id /\ after[i] = record)
BY DEF Put

\* A step of one login that mints nothing.
LEMMA LoginStep ==
    ASSUME IInv, Provenance, NEW s \in Logins,
           UNCHANGED <<ledger, codes, refresh, access, call, signIns>>, Drops(pending, pending'),
           \A t \in Logins \ {s} : login'[t] = login[t], LoginFaithful(s)'
    PROVE  Provenance'
<1>1. HistoryKept /\ Issued' = Issued
  BY HistoryGrows DEF Issued
<1>2. \A i \in DOMAIN pending' : i \in DOMAIN pending /\ pending'[i] = pending[i]
  BY DropsFacts
<1> QED BY <1>1, <1>2, ProvenanceStep

\* A step of one token request that mints nothing.
LEMMA CallStep ==
    ASSUME IInv, Provenance, NEW c \in Calls,
           UNCHANGED <<ledger, pending, access, login, signIns>>,
           Drops(codes, codes'), Drops(refresh, refresh'),
           \A d \in Calls \ {c} : call'[d] = call[d], CallFaithful(c)'
    PROVE  Provenance'
<1>1. HistoryKept /\ Issued' = Issued
  BY HistoryGrows DEF Issued
<1>2. /\ \A i \in DOMAIN codes' : i \in DOMAIN codes /\ codes'[i] = codes[i]
      /\ \A i \in DOMAIN refresh' : i \in DOMAIN refresh /\ refresh'[i] = refresh[i]
  BY DropsFacts
<1> QED BY <1>1, <1>2, ProvenanceStep

(***************************************************************************)
(* The logins.                                                             *)
(***************************************************************************)

\* Steps after which the handler has at most the record it had.
LEMMA LoginMoves ==
    ASSUME IInv, Provenance, NEW s \in Logins, UNCHANGED call,
           \/ \E id \in IssuedOf("pending") \cup {0}, ip \in ClientIps : LoginRead(s, id, ip)
           \/ LoginHit(s) \/ LoginVerified(s) \/ CallbackExchange(s)
           \/ LoginRefused(s) \/ LoginCrashes(s)
    PROVE  Provenance'
<1>1. /\ login \in [Logins -> LoginHandler] /\ LoginFaithful(s)
      /\ login[s].pc # "exchange" => login[s].pc = "vet" \/ login[s].pc = "issue" \/ login[s].record = None
  BY DEF IInv, TypeOK, HandlersSound, LoginSound, Provenance, HandlersFaithful, LoginHandler, LoginPcs
<1>2. UNCHANGED <<ledger, pending, codes, refresh, access, signIns>>
  BY DEF LoginRead, LoginHit, LoginVerified, CallbackExchange, LoginRefused, LoginCrashes, stateVars
<1>3. CASE Return(s)
  BY <1>1, <1>2, <1>3, LoginBecomes, LoginStep DEF LoginFaithful, Drops
<1>4. ASSUME NEW id, NEW ip, LoginRead(s, id, ip) PROVE Provenance'
  <2> DEFINE h == [IdleLogin EXCEPT !.pc = "hit", !.request = id, !.ip = ip,
                                    !.found = id \in DOMAIN pending]
  <2>1. login' = [login EXCEPT ![s] = h] /\ LoginMode = "password"
    BY <1>4 DEF LoginRead
  <2>2. h.pc = "hit" /\ h.record = None
    BY DEF IdleLogin
  <2> HIDE DEF h
  <2> QED BY <1>1, <1>2, <2>1, <2>2, LoginBecomes, LoginStep DEF LoginFaithful, Drops
<1>5. CASE LoginVerified(s) \/ (LoginHit(s) /\ Goto(s, "verify"))
  <2>1. /\ login[s].pc \in {"hit", "verify"} /\ login[s].record = None
        /\ Goto(s, "verify") \/ Goto(s, "consume")
    BY <1>1, <1>5 DEF LoginVerified, LoginHit
  <2>2. /\ login'[s].pc \in {"verify", "consume"} /\ login'[s].record = None
        /\ \A t \in Logins \ {s} : login'[t] = login[t]
    BY <1>1, <2>1, LoginBecomes
  <2>3. LoginFaithful(s)'
    BY <1>1, <2>1, <2>2 DEF LoginFaithful
  <2> QED BY <1>2, <2>2, <2>3, LoginStep DEF Drops
<1>6. CASE CallbackExchange(s)
  <2>1. login[s].pc = "exchange" /\ Goto(s, "vet")
    BY <1>6 DEF CallbackExchange
  <2>2. /\ login'[s].pc = "vet" /\ login'[s].record = login[s].record
        /\ login'[s].request = login[s].request /\ login'[s].result = login[s].result
        /\ login'[s].subject = login[s].subject
        /\ \A t \in Logins \ {s} : login'[t] = login[t]
    BY <1>1, <2>1, LoginBecomes
  <2>3. LoginFaithful(s)'
    BY <1>1, <1>2, <2>1, <2>2 DEF LoginFaithful
  <2> QED BY <1>2, <2>2, <2>3, LoginStep DEF Drops
<1> QED BY <1>3, <1>4, <1>5, <1>6 DEF LoginHit, LoginRefused, LoginCrashes

LEMMA LoginConsumes ==
    ASSUME IInv, Provenance, NEW s \in Logins, UNCHANGED call, LoginConsume(s)
    PROVE  Provenance'
<1> DEFINE id == login[s].request
           h == [login[s] EXCEPT !.pc = "issue", !.record = pending[id], !.subject = LoginUser]
<1>1. /\ login \in [Logins -> LoginHandler] /\ login[s] \in LoginHandler
      /\ LoginMode = "password"
  BY DEF IInv, TypeOK, Provenance, HandlersFaithful, LoginFaithful, LoginConsume
<1>2. UNCHANGED <<ledger, codes, refresh, access, signIns>> /\ Drops(pending, pending')
  BY DEF LoginConsume, Drops
<1>3. CASE Return(s)
  BY <1>1, <1>2, <1>3, LoginBecomes, LoginStep DEF LoginFaithful
<1>4. CASE id \in DOMAIN pending /\ login' = [login EXCEPT ![s] = h]
  <2>1. h.pc = "issue" /\ h.request = id /\ h.record = pending[id] /\ h.subject = LoginUser
    BY <1>1 DEF LoginHandler
  <2>2. PendingFaithful(id)
    BY <1>4 DEF Provenance, RecordsFaithful
  <2> HIDE DEF h
  <2>3. login'[s] = h /\ \A t \in Logins \ {s} : login'[t] = login[t]
    BY <1>1, <1>4, LoginBecomes
  <2>4. LoginFaithful(s)'
    BY <1>1, <1>2, <2>1, <2>2, <2>3 DEF LoginFaithful, PendingFaithful, Approved
  <2> QED BY <1>2, <2>3, <2>4, LoginStep
<1> QED BY <1>3, <1>4 DEF LoginConsume

LEMMA CallbackConsumes ==
    ASSUME IInv, Provenance, NEW s \in Logins, UNCHANGED call,
           NEW id \in DOMAIN pending, NEW result \in signIns \cup {None},
           CallbackConsume(s, id, result)
    PROVE  Provenance'
<1> DEFINE h == [IdleLogin EXCEPT !.pc = "exchange", !.request = id,
                                  !.record = pending[id], !.result = result]
<1>1. login \in [Logins -> LoginHandler] /\ LoginFaithful(s) /\ LoginMode = "entra"
  BY DEF IInv, TypeOK, Provenance, HandlersFaithful, CallbackConsume
<1>2. UNCHANGED <<ledger, codes, refresh, access, signIns>> /\ Drops(pending, pending')
  BY DEF CallbackConsume, Drops
<1>3. CASE UNCHANGED login
  <2>1. login'[s] = login[s] /\ HistoryKept
    BY <1>2, <1>3, HistoryGrows
  <2>2. LoginFaithful(s)'
    BY <1>1, <2>1, LoginStays DEF IInv
  <2> QED BY <1>2, <1>3, <2>2, LoginStep
<1>4. CASE result # None /\ pending[id].nonce # 0 /\ login' = [login EXCEPT ![s] = h]
  <2>1. /\ h.pc = "exchange" /\ h.request = id /\ h.record = pending[id] /\ h.result = result
        /\ h.subject = None
    BY DEF IdleLogin
  <2>2. PendingFaithful(id)
    BY DEF Provenance, RecordsFaithful
  <2> HIDE DEF h
  <2>3. login'[s] = h /\ \A t \in Logins \ {s} : login'[t] = login[t]
    BY <1>1, <1>4, LoginBecomes
  <2>4. LoginFaithful(s)'
    BY <1>1, <1>2, <1>4, <2>1, <2>2, <2>3 DEF LoginFaithful, PendingFaithful
  <2> QED BY <1>2, <2>3, <2>4, LoginStep
<1> QED BY <1>3, <1>4 DEF CallbackConsume

\* The sign-in that is accepted is for this very request.
LEMMA CallbackVets ==
    ASSUME IInv, Provenance, NEW s \in Logins, UNCHANGED call, CallbackVet(s)
    PROVE  Provenance'
<1> DEFINE h == [login[s] EXCEPT !.pc = "issue", !.subject = login[s].result.person]
<1>1. /\ login \in [Logins -> LoginHandler] /\ login[s] \in LoginHandler
      /\ LoginFaithful(s) /\ login[s].pc = "vet"
  BY DEF IInv, TypeOK, Provenance, HandlersFaithful, CallbackVet
<1>2. UNCHANGED <<ledger, pending, codes, refresh, access, signIns>>
  BY DEF CallbackVet, stateVars
<1>3. login' = [login EXCEPT ![s] = h] /\ Vetted(s)
  BY DEF CallbackVet
<1>4. /\ h.pc = "issue" /\ h.request = login[s].request /\ h.record = login[s].record
      /\ h.subject = login[s].result.person
  BY <1>1 DEF LoginHandler
<1> HIDE DEF h
<1>5. login'[s] = h /\ \A t \in Logins \ {s} : login'[t] = login[t]
  BY <1>1, <1>3, LoginBecomes
<1>6. Approved(login[s].request, login[s].result.person)
  <2>1. /\ login[s].result \in signIns /\ LoginMode = "entra"
        /\ login[s].result.nonce = login[s].request /\ UpnAllowed(login[s].result.person)
    BY <1>1, <1>3 DEF LoginFaithful, Vetted
  <2>2. login[s].result = [nonce |-> login[s].request, person |-> login[s].result.person]
    BY <2>1 DEF IInv, TypeOK, SignIn
  <2> QED BY <2>1, <2>2 DEF Approved
<1>7. LoginFaithful(s)'
  BY <1>1, <1>2, <1>4, <1>5, <1>6 DEF LoginFaithful, Approved
<1> QED BY <1>2, <1>5, <1>7, LoginStep DEF Drops

(***************************************************************************)
(* What mints an identifier.                                               *)
(***************************************************************************)

\* The first identifier of a grant is its own origin.
LEMMA FirstEntry ==
    ASSUME NEW kind \in {"pending", "code", "access"}, NEW n, n = NextId, Extends(kind, 0),
           ledger'[n].subject = None,
           kind = "code" => LoginMode = "none",
           kind = "access" => ledger'[n].client \notin UrlClients
    PROVE  EntrySound(n)'
<1>1. ledger'[n].root = n /\ ledger'[n].parent = 0 /\ ledger'[n].kind = kind
  BY DEF Extends
<1> QED BY <1>1 DEF EntrySound, MayPresent, RootOf, Origin, CodeSound, TokenSound

\* Others have the origin of what they are minted for.
LEMMA NextEntry ==
    ASSUME IInv, Provenance, HistoryKept,
           NEW kind \in {"code", "access", "refresh"}, NEW n, n = NextId,
           NEW parent \in Issued, Extends(kind, parent),
           NEW client, NEW subject, client = ledger'[n].client, subject = ledger'[n].subject,
           MayPresent(client, parent),
           ledger'[n].redirect # None =>
               /\ ledger'[n].redirect = ledger[parent].redirect
               /\ ledger'[n].challenge = ledger[parent].challenge,
           kind = "code" =>
               /\ ledger[parent].kind = "pending" /\ ledger[parent].parent = 0
               /\ Approved(parent, subject),
           kind # "code" =>
               /\ subject = ledger[parent].subject
               /\ client \in UrlClients => subject \in People,
           ledger[parent].kind # "access"
    PROVE  EntrySound(n)'
<1> DEFINE root == ledger[parent].root
<1>1. /\ root \in Issued /\ parent # 0 /\ EntrySound(parent)
      /\ ledger'[parent] = ledger[parent] /\ ledger'[root] = ledger[root]
  <2>1. root \in Issued
    BY OriginStays DEF IInv
  <2> QED BY <2>1 DEF Provenance, HistoryKept, Issued
<1>2. ledger'[n].root = root /\ ledger'[n].parent = parent /\ ledger'[n].kind = kind
  BY <1>1 DEF Extends
<1>3. /\ ledger[root].parent = 0 /\ ledger[root].kind # "access"
      /\ MayPresent(ledger[parent].client, root)
      /\ ledger[parent].redirect # None =>
             /\ ledger[parent].redirect = ledger[root].redirect
             /\ ledger[parent].challenge = ledger[root].challenge
      /\ ledger[parent].subject # None => Vouched(parent, ledger[parent].subject)
  BY <1>1 DEF EntrySound, RootOf, Origin
<1>4. client = ledger[root].client \/ (ledger[root].client = None /\ client = StaticClient)
  BY <1>3, ConstantsAssumption DEF MayPresent, Clients
<1>5. subject # None =>
          \/ ledger[root].kind = "refresh" /\ subject = ledger[root].subject
          \/ ledger[root].kind = "pending" /\ Approved(root, subject)
  <2>1. CASE kind = "code"
    <3>1. root = parent
      BY <2>1 DEF IInv, LedgerSound
    <3> QED BY <2>1, <3>1
  <2>2. CASE kind # "code"
    BY <1>3, <2>2 DEF Vouched, Origin, RootOf
  <2> QED BY <2>1, <2>2
<1> HIDE DEF root
<1>6. MayPresent(ledger[n].client, RootOf(n))' /\ Origin(n).parent' = 0 /\ Origin(n).kind' # "access"
  BY <1>1, <1>2, <1>3, <1>4 DEF MayPresent, RootOf, Origin
<1>7. ledger'[n].redirect # None =>
          ledger'[n].redirect = Origin(n).redirect' /\ ledger'[n].challenge = Origin(n).challenge'
  BY <1>1, <1>2, <1>3 DEF Origin, RootOf
<1>8. ledger'[n].subject # None => Vouched(n, ledger[n].subject)'
  BY <1>1, <1>2, <1>5 DEF Vouched, Origin, RootOf, Approved, HistoryKept
<1>9. kind = "code" => CodeSound(n)'
  BY <1>1, <1>2 DEF CodeSound, Approved, HistoryKept
<1>10. kind # "code" => TokenSound(n)'
  BY <1>1, <1>2 DEF TokenSound
<1> QED BY <1>2, <1>6, <1>7, <1>8, <1>9, <1>10 DEF EntrySound

LEMMA AuthorizeMints ==
    ASSUME IInv, Provenance, UNCHANGED call,
           NEW client \in ServedClients, NEW redirect \in RedirectUris, NEW v \in Verifiers,
           AuthorizeLogin(client, redirect, v) \/ AuthorizeAuto(client, redirect, v)
    PROVE  Provenance'
<1>1. UNCHANGED <<refresh, access, login, signIns>>
  BY DEF AuthorizeLogin, AuthorizeAuto, authorizeVars
<1>2. client \in Clients /\ S256(v) \in Challenges
  BY ServedAreClients, ChallengesOfVerifiers
<1>3. CASE AuthorizeLogin(client, redirect, v)
  <2> DEFINE record == [client |-> client, redirect |-> redirect, challenge |-> S256(v),
                        nonce |-> Nonce]
  <2>1. /\ Extends("pending", 0)
        /\ ledger'[NextId].client = client /\ ledger'[NextId].redirect = redirect
        /\ ledger'[NextId].challenge = S256(v) /\ ledger'[NextId].subject = None
    BY <1>2, <1>3, MintFacts DEF AuthorizeLogin, IInv, TypeOK
  <2>2. HistoryKept
    BY <1>1, <2>1, HistoryGrows
  <2>3. \A i \in Issued' \ Issued : EntrySound(i)'
    BY <2>1, FirstEntry DEF Extends
  <2>4. pending' = Put(pending, NextId, record) /\ UNCHANGED codes
    BY <1>3 DEF AuthorizeLogin
  <2>5. /\ record.client = client /\ record.redirect = redirect /\ record.challenge = S256(v)
        /\ record.nonce \in {0, NextId}
    BY DEF Nonce
  <2> HIDE DEF record
  <2>6. \A i \in DOMAIN pending' :
            (i \in DOMAIN pending /\ pending'[i] = pending[i]) \/ PendingFaithful(i)'
    <3>1. \A i \in DOMAIN pending' : (i \in DOMAIN pending /\ pending'[i] = pending[i]) \/ (i = NextId /\ pending'[i] = record)
      BY <2>4, PutStep
    <3> QED BY <2>1, <2>5, <3>1 DEF PendingFaithful, Extends
  <2> QED BY <1>1, <2>2, <2>3, <2>4, <2>6, ProvenanceStep
<1>4. CASE AuthorizeAuto(client, redirect, v)
  <2> DEFINE record == [client |-> client, redirect |-> redirect, challenge |-> S256(v),
                        subject |-> None]
  <2>1. /\ Extends("code", 0) /\ LoginMode = "none"
        /\ ledger'[NextId].client = client /\ ledger'[NextId].redirect = redirect
        /\ ledger'[NextId].challenge = S256(v) /\ ledger'[NextId].subject = None
    BY <1>2, <1>4, MintFacts DEF AuthorizeAuto, IInv, TypeOK
  <2>2. HistoryKept
    BY <1>1, <2>1, HistoryGrows
  <2>3. \A i \in Issued' \ Issued : EntrySound(i)'
    BY <2>1, FirstEntry DEF Extends
  <2>4. codes' = Put(codes, NextId, record) /\ UNCHANGED pending
    BY <1>4 DEF AuthorizeAuto
  <2>5. /\ record.client = client /\ record.redirect = redirect /\ record.challenge = S256(v)
        /\ record.subject = None
    OBVIOUS
  <2> HIDE DEF record
  <2>6. \A i \in DOMAIN codes' :
            (i \in DOMAIN codes /\ codes'[i] = codes[i]) \/ CodeFaithful(i)'
    <3>1. \A i \in DOMAIN codes' : (i \in DOMAIN codes /\ codes'[i] = codes[i]) \/ (i = NextId /\ codes'[i] = record)
      BY <2>4, PutStep
    <3> QED BY <2>1, <2>5, <3>1 DEF CodeFaithful
  <2> QED BY <1>1, <2>2, <2>3, <2>4, <2>6, ProvenanceStep
<1> QED BY <1>3, <1>4

LEMMA LoginMints ==
    ASSUME IInv, Provenance, NEW s \in Logins, UNCHANGED call, IssueCode(s)
    PROVE  Provenance'
<1> DEFINE record == login[s].record
           id == login[s].request
           code == [client |-> record.client, redirect |-> record.redirect,
                    challenge |-> record.challenge, subject |-> login[s].subject]
<1>1. /\ login \in [Logins -> LoginHandler] /\ login[s] \in LoginHandler /\ login[s].pc = "issue"
      /\ LoginSound(s) /\ LoginFaithful(s)
  BY DEF IInv, TypeOK, HandlersSound, Provenance, HandlersFaithful, IssueCode
<1>2. /\ record \in PendingRecord /\ id \in Issued /\ ledger[id].kind = "pending"
      /\ login[s].subject \in People \cup {None}
      /\ record # None
  BY <1>1 DEF LoginSound, LoginHandler, IssuedOf
<1>3. /\ ledger[id].parent = 0 /\ record.client = ledger[id].client
      /\ record.redirect = ledger[id].redirect /\ record.challenge = ledger[id].challenge
      /\ Approved(id, login[s].subject)
  BY <1>1, <1>2 DEF LoginFaithful
<1>4. /\ Extends("code", id)
      /\ ledger'[NextId].client = record.client /\ ledger'[NextId].redirect = record.redirect
      /\ ledger'[NextId].challenge = record.challenge
      /\ ledger'[NextId].subject = login[s].subject
  <2>1. /\ record.client \in Clients /\ record.redirect \in RedirectUris
        /\ record.challenge \in Challenges
    BY <1>2 DEF PendingRecord
  <2> QED BY <1>2, <2>1, MintFacts DEF IssueCode, IInv, TypeOK
<1>5. UNCHANGED <<pending, refresh, access, signIns>> /\ HistoryKept
  BY <1>4, HistoryGrows DEF IssueCode
<1>6. \A i \in Issued' \ Issued : EntrySound(i)'
  <2> SUFFICES ASSUME NEW i, i = NextId PROVE EntrySound(i)'
    BY <1>4 DEF Extends
  <2>1. MayPresent(record.client, id)
    BY <1>3 DEF MayPresent
  <2> HIDE DEF record, id
  <2> QED BY <1>2, <1>3, <1>4, <1>5, <2>1, NextEntry
<1>7. codes' = Put(codes, NextId, code) /\ Return(s)
  BY DEF IssueCode
<1>8. /\ code.client = record.client /\ code.redirect = record.redirect
      /\ code.challenge = record.challenge /\ code.subject = login[s].subject
  OBVIOUS
<1> HIDE DEF code
<1>9. \A i \in DOMAIN codes' :
          (i \in DOMAIN codes /\ codes'[i] = codes[i]) \/ CodeFaithful(i)'
  <2>1. \A i \in DOMAIN codes' : (i \in DOMAIN codes /\ codes'[i] = codes[i]) \/ (i = NextId /\ codes'[i] = code)
    BY <1>7, PutStep
  <2> QED BY <1>4, <1>8, <2>1 DEF CodeFaithful
<1>10. \A t \in Logins : login'[t] = login[t] \/ LoginFaithful(t)'
  BY <1>1, <1>7, LoginBecomes DEF LoginFaithful
<1> QED BY <1>5, <1>6, <1>7, <1>9, <1>10, ProvenanceStep

(***************************************************************************)
(* The token requests.                                                     *)
(***************************************************************************)

LEMMA StaticIsNoUrl == StaticClient \notin UrlClients /\ None \notin UrlClients
BY ConstantsAssumption DEF Clients

\* URL clients are served on top of a login, and so get codes of people.
LEMMA ServedUrlClients ==
    ASSUME NEW client \in ServedClients, client \in UrlClients
    PROVE  LoginMode # "none"
BY StaticIsNoUrl DEF ServedClients, CimdActive

LEMMA ApprovedArePeople ==
    ASSUME TypeOK, NEW id, NEW person, Approved(id, person)
    PROVE  person \in People
<1>1. CASE [nonce |-> id, person |-> person] \in signIns
  <2>1. [nonce |-> id, person |-> person] \in SignIn
    BY <1>1 DEF TypeOK
  <2> QED BY <2>1 DEF SignIn
<1> QED BY <1>1, AuthorizeAssumption DEF Approved

\* The locals of an exchange that begins.
LEMMA ExchangeBecomes ==
    ASSUME NEW c \in Calls, call \in [Calls -> CallHandler], NEW grant, NEW client,
           NEW token, NEW redirect, NEW challenge, NEW subject,
           Exchange(c, grant, client, token, redirect, challenge, subject)
    PROVE  /\ call'[c].token = token /\ call'[c].client = client
           /\ call'[c].redirect = redirect /\ call'[c].challenge = challenge
           /\ call'[c].subject = subject
           /\ \A d \in Calls \ {c} : call'[d] = call[d]
BY DEF Exchange

\* A request that is refused leaves the locals as they were.
LEMMA CallRefused ==
    ASSUME IInv, Provenance, NEW c \in Calls,
           UNCHANGED <<ledger, pending, access, login, signIns, call>>,
           Drops(codes, codes'), Drops(refresh, refresh')
    PROVE  Provenance'
<1>1. HistoryKept
  BY HistoryGrows
<1>2. CallFaithful(c)'
  BY <1>1, CallStays DEF IInv, Provenance, HandlersFaithful
<1> QED BY <1>2, CallStep

LEMMA CallRedeems ==
    ASSUME IInv, Provenance, NEW c \in Calls, UNCHANGED authorizeVars,
           NEW id \in DOMAIN codes, NEW client \in ServedClients,
           NEW redirect, NEW v, RedeemCode(c, id, client, redirect, v)
    PROVE  Provenance'
<1>1. /\ UNCHANGED <<ledger, pending, access, login, signIns>>
      /\ Drops(codes, codes') /\ Drops(refresh, refresh')
  BY DEF RedeemCode, authorizeVars, Drops
<1>2. CASE UNCHANGED call
  BY <1>1, <1>2, CallRefused
<1>3. CASE /\ CodeMatches(codes[id], client, redirect, v)
           /\ Exchange(c, "code", client, id, redirect, S256(v), codes[id].subject)
  <2>1. /\ id \in Issued /\ ledger[id].kind = "code" /\ id # 0
        /\ CodeFaithful(id) /\ EntrySound(id)
    BY DEF IInv, StoresSound, IssuedOf, Issued, Provenance, RecordsFaithful
  <2>2. /\ client = ledger[id].client /\ redirect = ledger[id].redirect
        /\ S256(v) = ledger[id].challenge /\ codes[id].subject = ledger[id].subject
    BY <1>3, <2>1 DEF CodeMatches, CodeFaithful
  <2>3. client \in UrlClients => ledger[id].subject \in People
    <3>1. CodeSound(id)
      BY <2>1 DEF EntrySound
    <3> QED BY <3>1, ServedUrlClients, ApprovedArePeople DEF CodeSound, IInv
  <2>4. /\ call'[c].token = id /\ call'[c].client = client
        /\ call'[c].redirect = redirect /\ call'[c].challenge = S256(v)
        /\ call'[c].subject = codes[id].subject
        /\ \A d \in Calls \ {c} : call'[d] = call[d]
    BY <1>3, ExchangeBecomes DEF IInv, TypeOK
  <2>5. CallFaithful(c)'
    BY <1>1, <2>1, <2>2, <2>3, <2>4 DEF CallFaithful, MayPresent
  <2> QED BY <1>1, <2>4, <2>5, CallStep
<1> QED BY <1>2, <1>3 DEF RedeemCode

LEMMA CallRotates ==
    ASSUME IInv, Provenance, NEW c \in Calls, UNCHANGED authorizeVars,
           NEW id \in DOMAIN refresh, NEW client \in ServedClients, RotateRefresh(c, id, client)
    PROVE  Provenance'
<1>1. /\ UNCHANGED <<ledger, pending, access, login, signIns>>
      /\ Drops(codes, codes') /\ Drops(refresh, refresh')
  BY DEF RotateRefresh, authorizeVars, Drops
<1>2. CASE UNCHANGED call
  BY <1>1, <1>2, CallRefused
<1>3. CASE /\ RefreshMatches(refresh[id], client)
           /\ Exchange(c, "refresh", client, id, None, None, refresh[id].subject)
  <2>1. /\ id \in Issued /\ ledger[id].kind = "refresh" /\ id # 0
        /\ RefreshFaithful(id) /\ EntrySound(id)
    BY DEF IInv, StoresSound, IssuedOf, Issued, Provenance, RecordsFaithful
  <2>2. /\ refresh[id].client = ledger[id].client /\ refresh[id].subject = ledger[id].subject
        /\ client = ledger[id].client \/ (ledger[id].client = None /\ client = StaticClient)
    BY <1>3, <2>1 DEF RefreshMatches, RefreshFaithful
  <2>3. client \in UrlClients => ledger[id].subject \in People
    BY <2>1, <2>2, StaticIsNoUrl DEF EntrySound, TokenSound
  <2>4. /\ call'[c].token = id /\ call'[c].client = client /\ call'[c].redirect = None
        /\ call'[c].subject = refresh[id].subject
        /\ \A d \in Calls \ {c} : call'[d] = call[d]
    BY <1>3, ExchangeBecomes DEF IInv, TypeOK
  <2>5. CallFaithful(c)'
    BY <1>1, <2>1, <2>2, <2>3, <2>4 DEF CallFaithful, MayPresent
  <2> QED BY <1>1, <2>4, <2>5, CallStep
<1> QED BY <1>2, <1>3 DEF RotateRefresh

LEMMA CallBegins ==
    ASSUME IInv, Provenance, NEW c \in Calls, UNCHANGED authorizeVars,
           ClientCredentials(c) \/ CallCrashes(c)
    PROVE  Provenance'
<1>1. /\ UNCHANGED <<ledger, pending, access, login, signIns>>
      /\ Drops(codes, codes') /\ Drops(refresh, refresh')
  BY DEF ClientCredentials, CallCrashes, stateVars, authorizeVars, Drops
<1>2. CASE ClientCredentials(c)
  <2>1. /\ call'[c].token = 0 /\ call'[c].client = StaticClient
        /\ call'[c].redirect = None /\ call'[c].subject = None
        /\ \A d \in Calls \ {c} : call'[d] = call[d]
    BY <1>2, ExchangeBecomes DEF ClientCredentials, IInv, TypeOK
  <2>2. CallFaithful(c)'
    BY <2>1, StaticIsNoUrl DEF CallFaithful
  <2> QED BY <1>1, <2>1, <2>2, CallStep
<1>3. CASE CallCrashes(c)
  <2>1. call'[c].pc = "idle" /\ \A d \in Calls \ {c} : call'[d] = call[d]
    BY <1>3, CallBecomes DEF CallCrashes, IInv, TypeOK
  <2>2. CallFaithful(c)'
    BY <2>1 DEF CallFaithful
  <2> QED BY <1>1, <2>1, <2>2, CallStep
<1> QED BY <1>2, <1>3

\* The identifier that an exchange mints, and what the handler goes on with.
LEMMA CallMintsEntry ==
    ASSUME IInv, Provenance, NEW c \in Calls, UNCHANGED signIns,
           NEW kind \in {"access", "refresh"}, call[c].pc # "idle",
           kind = "refresh" => call[c].token # 0,
           Mint(kind, call[c].token, call[c].client, call[c].redirect,
                call[c].challenge, call[c].subject)
    PROVE  /\ Extends(kind, call[c].token) /\ HistoryKept
           /\ ledger'[NextId].client = call[c].client
           /\ ledger'[NextId].subject = call[c].subject
           /\ \A i \in Issued' \ Issued : i = NextId /\ EntrySound(i)'
<1> DEFINE token == call[c].token
<1>1. /\ call[c] \in CallHandler /\ CallSound(c) /\ CallFaithful(c)
      /\ ledger \in Seq(LedgerEntry)
  BY DEF IInv, TypeOK, HandlersSound, Provenance, HandlersFaithful
<1>2. /\ token \in Issued \cup {0} /\ 0 \notin Issued
      /\ call[c].client \in Clients \cup {None}
      /\ call[c].redirect \in RedirectUris \cup {None}
      /\ call[c].challenge \in Challenges \cup {None}
      /\ call[c].subject \in People \cup {None}
  BY <1>1 DEF CallSound, CallHandler, IssuedOf, Issued
<1>3. /\ Extends(kind, token)
      /\ ledger'[NextId].client = call[c].client /\ ledger'[NextId].subject = call[c].subject
      /\ ledger'[NextId].redirect = call[c].redirect
      /\ ledger'[NextId].challenge = call[c].challenge
  <2>1. kind \in {"pending", "code", "access", "refresh"}
    OBVIOUS
  <2>2. Mint(kind, token, call[c].client, call[c].redirect, call[c].challenge, call[c].subject)
    OBVIOUS
  <2> HIDE DEF token
  <2> QED BY <1>1, <1>2, <2>1, <2>2, MintFacts
<1>4. HistoryKept
  BY <1>3, HistoryGrows
<1>5. ASSUME NEW i, i = NextId PROVE EntrySound(i)'
  <2>1. CASE token = 0
    <3>1. call[c].client \notin UrlClients /\ call[c].subject = None /\ kind = "access"
      BY <1>1, <2>1, StaticIsNoUrl DEF CallFaithful
    <3> QED BY <1>3, <1>5, <2>1, <3>1, FirstEntry
  <2>2. CASE token # 0
    <3>1. /\ MayPresent(call[c].client, token) /\ call[c].subject = ledger[token].subject
          /\ call[c].redirect # None =>
                 call[c].redirect = ledger[token].redirect /\ call[c].challenge = ledger[token].challenge
          /\ call[c].client \in UrlClients => call[c].subject \in People
      BY <1>1, <2>2 DEF CallFaithful
    <3>2. /\ token \in Issued /\ kind \in {"code", "access", "refresh"} /\ kind # "code"
          /\ ledger[token].kind # "access"
      BY <1>1, <1>2, <2>2 DEF CallSound, IssuedOf
    <3> HIDE DEF token
    <3> QED BY <1>3, <1>4, <1>5, <3>1, <3>2, NextEntry
  <2> QED BY <2>1, <2>2
<1> QED BY <1>3, <1>4, <1>5 DEF Extends

LEMMA CallIssuesAccess ==
    ASSUME IInv, Provenance, NEW c \in Calls, UNCHANGED authorizeVars, IssueAccess(c)
    PROVE  Provenance'
<1> DEFINE record == [subject |-> call[c].subject]
<1>1. /\ UNCHANGED <<pending, codes, refresh, login, signIns>> /\ call[c].pc = "issue_access"
      /\ access' = Put(access, NextId, record)
      /\ Mint("access", call[c].token, call[c].client, call[c].redirect,
              call[c].challenge, call[c].subject)
      /\ Finish(c) \/ call' = [call EXCEPT ![c].pc = "issue_refresh"]
  BY DEF IssueAccess, authorizeVars
<1>2. /\ HistoryKept /\ ledger'[NextId].subject = call[c].subject
      /\ \A i \in Issued' \ Issued : EntrySound(i)'
  BY <1>1, CallMintsEntry
<1>3. record.subject = call[c].subject
  OBVIOUS
<1> HIDE DEF record
<1>4. \A i \in DOMAIN access' :
          (i \in DOMAIN access /\ access'[i] = access[i]) \/ AccessFaithful(i)'
  BY <1>1, <1>2, <1>3, PutStep DEF AccessFaithful
<1>5. \A d \in Calls : call'[d] = call[d] \/ CallFaithful(d)'
  <2>1. /\ call \in [Calls -> CallHandler] /\ CallFaithful(c)
        /\ call[c].token # 0 => call[c].token \in Issued
    BY DEF IInv, TypeOK, Provenance, HandlersFaithful, HandlersSound, CallSound, IssuedOf
  <2>2. CASE Finish(c)
    <3>1. call'[c].pc = "idle" /\ \A d \in Calls \ {c} : call'[d] = call[d]
      BY <2>1, <2>2, CallBecomes
    <3>2. CallFaithful(c)'
      BY <3>1 DEF CallFaithful
    <3> QED BY <3>1, <3>2
  <2>3. CASE call' = [call EXCEPT ![c].pc = "issue_refresh"]
    <3>1. /\ \A d \in Calls \ {c} : call'[d] = call[d]
          /\ call'[c].token = call[c].token /\ call'[c].client = call[c].client
          /\ call'[c].redirect = call[c].redirect /\ call'[c].challenge = call[c].challenge
          /\ call'[c].subject = call[c].subject
      BY <2>1, <2>3 DEF CallHandler
    <3>2. CallFaithful(c)'
      BY <1>1, <1>2, <2>1, <3>1 DEF CallFaithful, MayPresent, HistoryKept
    <3> QED BY <3>1, <3>2
  <2> QED BY <1>1, <2>2, <2>3
<1> QED BY <1>1, <1>2, <1>4, <1>5, ProvenanceStep

LEMMA CallIssuesRefresh ==
    ASSUME IInv, Provenance, NEW c \in Calls, UNCHANGED authorizeVars, IssueRefresh(c)
    PROVE  Provenance'
<1> DEFINE record == [client |-> call[c].client, subject |-> call[c].subject]
<1>1. /\ UNCHANGED <<pending, codes, access, login, signIns>> /\ call[c].pc = "issue_refresh"
      /\ refresh' = Put(refresh, NextId, record)
      /\ Mint("refresh", call[c].token, call[c].client, call[c].redirect,
              call[c].challenge, call[c].subject)
      /\ Finish(c)
  BY DEF IssueRefresh, authorizeVars
<1>2. call \in [Calls -> CallHandler] /\ call[c].token # 0
  BY <1>1 DEF IInv, TypeOK, HandlersSound, CallSound
<1>3. /\ HistoryKept /\ ledger'[NextId].subject = call[c].subject
      /\ ledger'[NextId].client = call[c].client
      /\ \A i \in Issued' \ Issued : EntrySound(i)'
  BY <1>1, <1>2, CallMintsEntry
<1>4. record.subject = call[c].subject /\ record.client = call[c].client
  OBVIOUS
<1> HIDE DEF record
<1>5. \A i \in DOMAIN refresh' :
          (i \in DOMAIN refresh /\ refresh'[i] = refresh[i]) \/ RefreshFaithful(i)'
  BY <1>1, <1>3, <1>4, PutStep DEF RefreshFaithful
<1>6. \A d \in Calls : call'[d] = call[d] \/ CallFaithful(d)'
  BY <1>1, <1>2, CallBecomes DEF CallFaithful
<1> QED BY <1>1, <1>3, <1>5, <1>6, ProvenanceStep

(***************************************************************************)
(* The steps of Next, and the initial states.                              *)
(***************************************************************************)

\* Steps at the edge of the server: a person signs in, a window ends, a record
\* expires.
LEMMA OutsideStep ==
    ASSUME IInv, Provenance,
           UNCHANGED <<ledger, access, login, call>>, signIns \subseteq signIns',
           Drops(pending, pending'), Drops(codes, codes'), Drops(refresh, refresh')
    PROVE  Provenance'
<1>1. HistoryKept /\ Issued' = Issued
  BY HistoryGrows DEF Issued
<1>2. /\ \A i \in DOMAIN pending' : i \in DOMAIN pending /\ pending'[i] = pending[i]
      /\ \A i \in DOMAIN codes' : i \in DOMAIN codes /\ codes'[i] = codes[i]
      /\ \A i \in DOMAIN refresh' : i \in DOMAIN refresh /\ refresh'[i] = refresh[i]
  BY DropsFacts
<1> QED BY <1>1, <1>2, ProvenanceStep

LEMMA AuthorizeKeepsProvenance ==
    ASSUME IInv, Provenance, AuthorizeNext, UNCHANGED call
    PROVE  Provenance'
<1>1. CASE \E client \in ServedClients, redirect \in RedirectUris, v \in Verifiers :
               AuthorizeLogin(client, redirect, v) \/ AuthorizeAuto(client, redirect, v)
  BY <1>1, AuthorizeMints
<1>2. CASE \E s \in Logins, id \in IssuedOf("pending") \cup {0}, ip \in ClientIps :
               LoginRead(s, id, ip)
  BY <1>2, LoginMoves
<1>3. ASSUME NEW id \in DOMAIN pending, NEW person \in People, EntraSignIn(id, person)
      PROVE  Provenance'
  <2>1. UNCHANGED stateVars /\ UNCHANGED login /\ signIns \subseteq signIns'
    BY <1>3 DEF EntraSignIn
  <2> QED BY <2>1, OutsideStep DEF stateVars, Drops
<1>4. CASE \E s \in Logins, id \in DOMAIN pending, result \in signIns \cup {None} :
               CallbackConsume(s, id, result)
  BY <1>4, CallbackConsumes
<1>5. ASSUME NEW s \in Logins, LoginSteps(s) \/ LoginCrashes(s)
      PROVE  Provenance'
  BY <1>5, LoginMoves, LoginConsumes, CallbackVets, LoginMints DEF LoginSteps
<1>6. ASSUME NEW ip \in ClientIps, WindowEnds(ip)
      PROVE  Provenance'
  <2>1. UNCHANGED stateVars /\ UNCHANGED <<login, signIns>>
    BY <1>6 DEF WindowEnds
  <2> QED BY <2>1, OutsideStep DEF stateVars, Drops
<1> QED BY <1>1, <1>2, <1>3, <1>4, <1>5, <1>6 DEF AuthorizeNext

LEMMA TokenKeepsProvenance ==
    ASSUME IInv, Provenance, TokenNext, UNCHANGED authorizeVars
    PROVE  Provenance'
BY CallRedeems, CallRotates, CallBegins, CallIssuesAccess, CallIssuesRefresh
   DEF TokenNext, CallSteps

LEMMA StepProvenance ==
    ASSUME IInv, Provenance, [Next]_vars
    PROVE  Provenance'
<1>1. CASE Expire /\ UNCHANGED <<authorizeVars, call>>
  BY <1>1, OutsideStep DEF Expire, authorizeVars, Drops
<1>2. CASE UNCHANGED vars
  BY <1>2, OutsideStep DEF vars, stateVars, authorizeVars, Drops
<1> QED BY <1>1, <1>2, AuthorizeKeepsProvenance, TokenKeepsProvenance DEF Next

\* What an earlier deployment left is the origin of its grant.
LEMMA InitProvenance == Init => Provenance
<1> SUFFICES ASSUME Init PROVE Provenance
  OBVIOUS
<1>1. HandlersFaithful
  <2>1. /\ \A s \in Logins : login[s].pc = "idle" /\ login[s].record = None
        /\ \A c \in Calls : call[c].pc = "idle"
    BY DEF Init, AuthorizeInit, TokenInit, IdleLogin, IdleCall
  <2> QED BY <2>1 DEF HandlersFaithful, LoginFaithful, CallFaithful
<1>2. codes = EmptyStore /\ access = EmptyStore /\ DOMAIN EmptyStore = {}
  BY DEF Init, StateInit, EmptyStore
<1>3. CASE NothingLeft
  <2>1. Issued = {} /\ pending = EmptyStore /\ refresh = EmptyStore
    BY <1>3 DEF NothingLeft, Issued
  <2> QED BY <1>1, <1>2, <2>1 DEF Provenance, RecordsFaithful
<1>4. ASSUME NEW subject \in People \cup {None}, LegacyRefresh(subject)
      PROVE  Provenance
  <2>1. /\ Issued = {1} /\ ledger[1].kind = "refresh" /\ ledger[1].parent = 0 /\ ledger[1].root = 1
        /\ ledger[1].client = None /\ ledger[1].subject = subject /\ ledger[1].redirect = None
    BY <1>4 DEF LegacyRefresh, Issued
  <2>2. /\ pending = EmptyStore /\ DOMAIN refresh = {1}
        /\ refresh[1].client = None /\ refresh[1].subject = subject
    BY <1>4 DEF LegacyRefresh
  <2>3. RecordsFaithful
    BY <1>2, <2>1, <2>2 DEF RecordsFaithful, RefreshFaithful
  <2>4. EntrySound(1)
    BY <2>1, StaticIsNoUrl DEF EntrySound, MayPresent, RootOf, Origin, Vouched, TokenSound
  <2> QED BY <1>1, <2>1, <2>3, <2>4 DEF Provenance
<1>5. ASSUME NEW client \in Clients, NEW redirect \in RedirectUris, NEW v \in Verifiers,
             NEW nonce \in {0, 1}, LeftPending(client, redirect, v, nonce)
      PROVE  Provenance
  <2>1. /\ Issued = {1} /\ ledger[1].kind = "pending" /\ ledger[1].parent = 0 /\ ledger[1].root = 1
        /\ ledger[1].client = client /\ ledger[1].subject = None
        /\ ledger[1].redirect = redirect /\ ledger[1].challenge = S256(v)
    BY <1>5 DEF LeftPending, Issued
  <2>2. /\ refresh = EmptyStore /\ DOMAIN pending = {1}
        /\ pending[1].client = client /\ pending[1].redirect = redirect
        /\ pending[1].challenge = S256(v) /\ pending[1].nonce \in {0, 1}
    BY <1>5 DEF LeftPending
  <2>3. RecordsFaithful
    BY <1>2, <2>1, <2>2 DEF RecordsFaithful, PendingFaithful
  <2>4. EntrySound(1)
    BY <2>1 DEF EntrySound, MayPresent, RootOf, Origin
  <2> QED BY <1>1, <2>1, <2>3, <2>4 DEF Provenance
<1> QED BY <1>3, <1>4, <1>5 DEF Init, StateInit

(***************************************************************************)
(* Guesses: only a hit that was counted admits one.                        *)
(***************************************************************************)

LEMMA InitGuesses == Init => GuessesCounted
BY AuthorizeAssumption DEF Init, AuthorizeInit, GuessesCounted

LEMMA HitGuesses ==
    ASSUME TypeOK, GuessesCounted, NEW s \in Logins, LoginHit(s)
    PROVE  GuessesCounted'
<1> SUFFICES ASSUME NEW ip \in ClientIps
             PROVE  guesses'[ip] <= MaxAttempts /\ guesses'[ip] <= attempts'[ip]
  BY DEF GuessesCounted
<1>1. /\ attempts[ip] \in 0 .. MaxAttempts + 1 /\ guesses[ip] \in Nat
      /\ guesses[ip] <= MaxAttempts /\ guesses[ip] <= attempts[ip] /\ MaxAttempts \in Nat
  BY AuthorizeAssumption DEF TypeOK, GuessesCounted
<1>2. CASE ip = login[s].ip
  <2>1. attempts'[ip] = IF attempts[ip] > MaxAttempts THEN attempts[ip] ELSE attempts[ip] + 1
    BY <1>2 DEF LoginHit, TypeOK
  <2>2. \/ guesses'[ip] = guesses[ip]
        \/ guesses'[ip] = guesses[ip] + 1 /\ attempts[ip] < MaxAttempts
    BY <1>2 DEF LoginHit, TypeOK, Admitted
  <2> QED BY <1>1, <2>1, <2>2
<1>3. CASE ip # login[s].ip
  <2>1. attempts'[ip] = attempts[ip] /\ guesses'[ip] = guesses[ip]
    BY <1>3 DEF LoginHit, TypeOK
  <2> QED BY <1>1, <2>1
<1> QED BY <1>2, <1>3

LEMMA StepGuesses ==
    ASSUME TypeOK, GuessesCounted, [Next]_vars
    PROVE  GuessesCounted'
<1>1. CASE UNCHANGED <<attempts, guesses>>
  BY <1>1 DEF GuessesCounted
<1>2. ASSUME NEW ip \in ClientIps, WindowEnds(ip) PROVE GuessesCounted'
  BY <1>2, AuthorizeAssumption DEF WindowEnds, TypeOK, GuessesCounted
<1>3. CASE AuthorizeNext
  <2>1. ASSUME NEW s \in Logins, LoginSteps(s) \/ LoginCrashes(s), ~ LoginHit(s)
        PROVE  UNCHANGED <<attempts, guesses>>
    BY <2>1 DEF LoginSteps, LoginVerified, LoginConsume, CallbackExchange, CallbackVet,
                IssueCode, LoginRefused, LoginCrashes
  <2>2. ASSUME \/ \E client \in ServedClients, redirect \in RedirectUris, v \in Verifiers :
                      AuthorizeLogin(client, redirect, v) \/ AuthorizeAuto(client, redirect, v)
               \/ \E s \in Logins, id \in IssuedOf("pending") \cup {0}, ip \in ClientIps :
                      LoginRead(s, id, ip)
               \/ \E id \in DOMAIN pending, person \in People : EntraSignIn(id, person)
               \/ \E s \in Logins, id \in DOMAIN pending, result \in signIns \cup {None} :
                      CallbackConsume(s, id, result)
        PROVE  UNCHANGED <<attempts, guesses>>
    BY <2>2 DEF AuthorizeLogin, AuthorizeAuto, LoginRead, EntraSignIn, CallbackConsume,
                authorizeVars
  <2> QED BY <1>1, <1>2, <1>3, <2>1, <2>2, HitGuesses DEF AuthorizeNext
<1>4. Next \/ UNCHANGED vars
  OBVIOUS
<1> QED BY <1>1, <1>3, <1>4 DEF Next, vars, authorizeVars

(***************************************************************************)
(* What provenance says of tokens.                                         *)
(***************************************************************************)

LEMMA EntriesTellOrigins ==
    ASSUME IInv, Provenance
    PROVE  TokensBelongToRequester /\ ExchangesProveRequest
BY DEF Provenance, EntrySound, MayPresent, Origin, TokensBelongToRequester, ExchangesProveRequest

LEMMA EntriesTellSubjects ==
    ASSUME Provenance
    PROVE  SubjectSurvivesExchange /\ UrlClientsAreDelegated
BY DEF Provenance, EntrySound, TokenSound, IssuedOf, SubjectSurvivesExchange,
       UrlClientsAreDelegated

LEMMA CodesTellLogins ==
    ASSUME IInv, Provenance
    PROVE  CodesFollowLogin
<1> SUFFICES ASSUME NEW i \in IssuedOf("code")
             PROVE  CASE LoginMode = "entra" ->
                             /\ [nonce |-> ledger[i].parent, person |-> ledger[i].subject] \in signIns
                             /\ UpnAllowed(ledger[i].subject)
                      [] LoginMode = "password" ->
                             ledger[i].parent # 0 /\ ledger[i].subject = LoginUser
                      [] LoginMode = "none" ->
                             ledger[i].parent = 0 /\ ledger[i].subject = None
  BY DEF CodesFollowLogin
<1>1. CodeSound(i)
  BY DEF Provenance, EntrySound, IssuedOf
<1> QED BY <1>1, ConstantsAssumption DEF CodeSound, Approved, LoginModes

(***************************************************************************)
(* The theorems.                                                           *)
(***************************************************************************)

\* Every record, every handler's locals and every identifier ever minted tell
\* the truth about the request and the login that its grant began with.
THEOREM ProvenanceHolds == Spec => []Provenance
<1>1. Init => Provenance
  BY InitProvenance
<1>2. IInv /\ Provenance /\ [Next]_vars => Provenance'
  BY StepProvenance
<1> QED BY <1>1, <1>2, Invariance, PTL DEF Spec

\* A code or token is only ever minted for the client that began its grant; a
\* refresh token from before 0.4.0, bound to no client, only for the static one.
THEOREM TokensBelong == Spec => []TokensBelongToRequester
<1>1. IInv /\ Provenance => TokensBelongToRequester
  BY EntriesTellOrigins
<1> QED BY <1>1, Invariance, ProvenanceHolds, PTL

\* No code is exchanged but with the redirect URI of the original request and
\* the verifier of its challenge.
THEOREM ExchangesProve == Spec => []ExchangesProveRequest
<1>1. IInv /\ Provenance => ExchangesProveRequest
  BY EntriesTellOrigins
<1> QED BY <1>1, Invariance, ProvenanceHolds, PTL

\* No code is minted but after the login that is configured: under Entra, the
\* sign-in of that very person for that very request.
THEOREM CodesFollow == Spec => []CodesFollowLogin
<1>1. IInv /\ Provenance => CodesFollowLogin
  BY CodesTellLogins
<1> QED BY <1>1, Invariance, ProvenanceHolds, PTL

\* Who approved a grant is whom its tokens speak for, however often they are
\* rotated.
THEOREM SubjectsSurvive == Spec => []SubjectSurvivesExchange
<1>1. Provenance => SubjectSurvivesExchange
  BY EntriesTellSubjects
<1> QED BY <1>1, ProvenanceHolds, PTL

\* No access token of a metadata-document client is without a person.
THEOREM UrlDelegated == Spec => []UrlClientsAreDelegated
<1>1. Provenance => UrlClientsAreDelegated
  BY EntriesTellSubjects
<1> QED BY <1>1, ProvenanceHolds, PTL

\* Whatever the number of submissions in flight, a window of an address admits
\* at most MaxAttempts of them to the credential check.
THEOREM GuessesBounded == Spec => []GuessesLimited
<1>1. Init => GuessesCounted
  BY InitGuesses
<1>2. TypeOK /\ GuessesCounted /\ [Next]_vars => GuessesCounted'
  BY StepGuesses
<1>3. GuessesCounted => GuessesLimited
  BY DEF GuessesCounted, GuessesLimited
<1> QED BY <1>1, <1>2, <1>3, TypeCorrect, PTL DEF Spec

-----------------------------------------------------------------------------
(***************************************************************************)
(* Part 3: OAuthServer implements GrantLifecycle.                          *)
(***************************************************************************)

(***************************************************************************)
(* Where a grant is: with the one that holds it.                           *)
(***************************************************************************)

NoHolder(g) == \A i \in Spendable \cup HeldIds : RootOf(i) # g

HeldStates ==
    /\ \A i \in DOMAIN pending :
           GrantState(RootOf(i)) = HeldAs("pending", pending[i].client, None)
    /\ \A i \in DOMAIN codes :
           GrantState(RootOf(i)) = HeldAs("code", codes[i].client, codes[i].subject)
    /\ \A i \in DOMAIN refresh :
           GrantState(RootOf(i)) = HeldAs("refresh", refresh[i].client, refresh[i].subject)
    /\ \A s \in HoldingLogins :
           GrantState(RootOf(login[s].request)) =
               HeldAs("login", login[s].record.client, login[s].subject)
    /\ \A c \in HoldingCalls :
           GrantState(RootOf(call[c].token)) =
               HeldAs("exchange", call[c].client, call[c].subject)
    /\ \A g : NoHolder(g) =>
           GrantState(g) = IF Begun(g) THEN HeldAs("gone", None, None)
                                       ELSE HeldAs("absent", None, None)

LEMMA HolderIsUnique ==
    ASSUME IInv, NEW g, NEW h \in Holders(g)
    PROVE  Holders(g) = {h}
<1>1. /\ DOMAIN pending \subseteq IssuedOf("pending") /\ DOMAIN codes \subseteq IssuedOf("code")
      /\ DOMAIN refresh \subseteq IssuedOf("refresh")
      /\ \A s \in HoldingLogins : login[s].request \in IssuedOf("pending")
      /\ \A c \in HoldingCalls : call[c].token \in IssuedOf("code") \cup IssuedOf("refresh")
  BY HoldersAreIssued DEF IInv, StoresSound
<1>2. /\ \A i, j \in Spendable \cup HeldIds : RootOf(i) = RootOf(j) => i = j
      /\ Spendable \cap HeldIds = {}
      /\ \A s, t \in HoldingLogins : login[s].request = login[t].request => s = t
      /\ \A c, d \in HoldingCalls : call[c].token = call[d].token => c = d
  BY DEF IInv, OneHolderPerGrant
<1>3. /\ Spendable = DOMAIN pending \cup DOMAIN codes \cup DOMAIN refresh
      /\ \A s \in HoldingLogins : login[s].request \in HeldIds
      /\ \A c \in HoldingCalls : call[c].token \in HeldIds
  BY DEF Spendable, HeldIds
<1>4. \A i : /\ i \in IssuedOf("pending") => i \notin IssuedOf("code") /\ i \notin IssuedOf("refresh")
             /\ i \in IssuedOf("code") => i \notin IssuedOf("refresh")
  BY DEF IssuedOf
<1>5. ASSUME NEW x \in Holders(g), NEW y \in Holders(g) PROVE x = y
  <2>1. ASSUME NEW i \in DOMAIN pending, RootOf(i) = g,
               x = <<i, HeldAs("pending", pending[i].client, None)>>
        PROVE  x = y
    BY <1>1, <1>2, <1>3, <1>4, <2>1 DEF Holders
  <2>2. ASSUME NEW i \in DOMAIN codes, RootOf(i) = g,
               x = <<i, HeldAs("code", codes[i].client, codes[i].subject)>>
        PROVE  x = y
    BY <1>1, <1>2, <1>3, <1>4, <2>2 DEF Holders
  <2>3. ASSUME NEW i \in DOMAIN refresh, RootOf(i) = g,
               x = <<i, HeldAs("refresh", refresh[i].client, refresh[i].subject)>>
        PROVE  x = y
    BY <1>1, <1>2, <1>3, <1>4, <2>3 DEF Holders
  <2>4. ASSUME NEW s \in HoldingLogins, RootOf(login[s].request) = g,
               x = <<s, HeldAs("login", login[s].record.client, login[s].subject)>>
        PROVE  x = y
    BY <1>1, <1>2, <1>3, <1>4, <2>4 DEF Holders
  <2>5. ASSUME NEW c \in HoldingCalls, RootOf(call[c].token) = g,
               x = <<c, HeldAs("exchange", call[c].client, call[c].subject)>>
        PROVE  x = y
    BY <1>1, <1>2, <1>3, <1>4, <2>5 DEF Holders
  <2> QED BY <2>1, <2>2, <2>3, <2>4, <2>5 DEF Holders
<1> QED BY <1>5

LEMMA StateOfHolder ==
    ASSUME NEW g, NEW h, Holders(g) = {h}
    PROVE  GrantState(g) = h[2]
BY DEF GrantState

LEMMA WhereGrantsAre == IInv => HeldStates
<1> SUFFICES ASSUME IInv PROVE HeldStates
  OBVIOUS
<1>1. \A i \in DOMAIN pending :
          <<i, HeldAs("pending", pending[i].client, None)>> \in Holders(RootOf(i))
  BY DEF Holders
<1>2. \A i \in DOMAIN codes :
          <<i, HeldAs("code", codes[i].client, codes[i].subject)>> \in Holders(RootOf(i))
  BY DEF Holders
<1>3. \A i \in DOMAIN refresh :
          <<i, HeldAs("refresh", refresh[i].client, refresh[i].subject)>> \in Holders(RootOf(i))
  BY DEF Holders
<1>4. \A s \in HoldingLogins :
          <<s, HeldAs("login", login[s].record.client, login[s].subject)>>
              \in Holders(RootOf(login[s].request))
  BY DEF Holders
<1>5. \A c \in HoldingCalls :
          <<c, HeldAs("exchange", call[c].client, call[c].subject)>>
              \in Holders(RootOf(call[c].token))
  BY DEF Holders
<1>6. ASSUME NEW g, NoHolder(g)
      PROVE  GrantState(g) = IF Begun(g) THEN HeldAs("gone", None, None)
                                         ELSE HeldAs("absent", None, None)
  <2>1. Holders(g) = {}
    BY <1>6 DEF NoHolder, Holders, Spendable, HeldIds
  <2> QED BY <2>1 DEF GrantState
<1>7. \A g : \A x, held : <<x, held>> \in Holders(g) => GrantState(g) = held
  BY HolderIsUnique, StateOfHolder
<1> QED BY <1>1, <1>2, <1>3, <1>4, <1>5, <1>6, <1>7 DEF HeldStates

\* A step from one state that satisfies the invariants to another.
GoodStep == /\ IInv /\ Provenance /\ HeldStates /\ HistoryKept
            /\ IInv' /\ Provenance' /\ HeldStates'

\* Every grant that is held has begun.
LEMMA HoldersHaveBegun ==
    ASSUME IInv, Provenance, NEW i \in Issued, ledger[i].kind # "access"
    PROVE  Begun(RootOf(i))
<1>1. ledger[i].root \in Issued /\ EntrySound(i)
  <2>1. ledger[i] \in LedgerEntry /\ i \in Nat /\ i <= Len(ledger) /\ Len(ledger) \in Nat
    BY DEF IInv, TypeOK, Issued
  <2>2. ledger[i].root \in 1 .. i
    BY DEF IInv, LedgerSound
  <2> QED BY <2>1, <2>2 DEF Provenance, Issued
<1>2. ledger[RootOf(i)].parent = 0 /\ ledger[RootOf(i)].kind # "access"
  BY <1>1 DEF EntrySound, Origin
<1>3. RootOf(RootOf(i)) = RootOf(i)
  BY <1>1, <1>2 DEF IInv, LedgerSound, RootOf
<1> QED BY <1>1, <1>2, <1>3 DEF Begun, RootOf

\* No grant but g changes, for all that its holders are concerned.
OthersKeep(g) ==
    /\ \A i \in DOMAIN pending \cup DOMAIN pending' :
           RootOf(i)' = g \/ (i \in DOMAIN pending \cap DOMAIN pending' /\ pending'[i] = pending[i])
    /\ \A i \in DOMAIN codes \cup DOMAIN codes' :
           RootOf(i)' = g \/ (i \in DOMAIN codes \cap DOMAIN codes' /\ codes'[i] = codes[i])
    /\ \A i \in DOMAIN refresh \cup DOMAIN refresh' :
           RootOf(i)' = g \/ (i \in DOMAIN refresh \cap DOMAIN refresh' /\ refresh'[i] = refresh[i])
    /\ \A s \in HoldingLogins \cup HoldingLogins' :
           \/ /\ s \in HoldingLogins => RootOf(login[s].request) = g
              /\ s \in HoldingLogins' => RootOf(login[s].request)' = g
           \/ /\ s \in HoldingLogins \cap HoldingLogins'
              /\ login'[s].request = login[s].request
              /\ login'[s].record = login[s].record /\ login'[s].subject = login[s].subject
    /\ \A c \in HoldingCalls \cup HoldingCalls' :
           \/ /\ c \in HoldingCalls => RootOf(call[c].token) = g
              /\ c \in HoldingCalls' => RootOf(call[c].token)' = g
           \/ /\ c \in HoldingCalls \cap HoldingCalls'
              /\ call'[c].token = call[c].token
              /\ call'[c].client = call[c].client /\ call'[c].subject = call[c].subject

\* A grant begins only with its first identifier.
LEMMA BegunStays ==
    ASSUME IInv, HistoryKept, UNCHANGED ledger \/ \E kind, parent : Extends(kind, parent),
           NEW g, UNCHANGED ledger \/ g # NextId \/ ~ Begun(g)'
    PROVE  Begun(g)' = Begun(g)
<1>1. CASE g \in Issued
  BY <1>1 DEF Begun, RootOf, HistoryKept
<1>2. CASE UNCHANGED ledger
  BY <1>2 DEF Begun, RootOf, Issued
<1>3. CASE g \notin Issued /\ \E kind, parent : Extends(kind, parent)
  <2>1. Issued' = Issued \cup {NextId} /\ NextId \notin Issued
    BY <1>3 DEF Extends
  <2>2. UNCHANGED ledger => Issued' = Issued
    BY DEF Issued
  <2> QED BY <1>3, <2>1, <2>2 DEF Begun
<1> QED BY <1>1, <1>2, <1>3

LEMMA OthersStay ==
    ASSUME GoodStep, NEW g, OthersKeep(g), NEW h, h # g,
           UNCHANGED ledger \/ \E kind, parent : Extends(kind, parent),
           UNCHANGED ledger \/ h # NextId \/ ~ Begun(h)'
    PROVE  GrantState(h)' = GrantState(h)
<1>1. /\ DOMAIN pending \subseteq Issued /\ DOMAIN codes \subseteq Issued
      /\ DOMAIN refresh \subseteq Issued
      /\ \A s \in HoldingLogins : login[s].request \in Issued
      /\ \A c \in HoldingCalls : call[c].token \in Issued
  BY HoldersAreIssued DEF GoodStep, IInv, StoresSound, IssuedOf
<1>2. \A i \in Issued : RootOf(i)' = RootOf(i)
  BY DEF GoodStep, HistoryKept, RootOf
<1>3. ASSUME NEW i \in DOMAIN pending, RootOf(i) = h PROVE GrantState(h)' = GrantState(h)
  <2>1. i \in DOMAIN pending' /\ pending'[i] = pending[i] /\ RootOf(i)' = h
    BY <1>1, <1>2, <1>3 DEF OthersKeep
  <2> QED BY <1>3, <2>1 DEF GoodStep, HeldStates, HeldAs
<1>4. ASSUME NEW i \in DOMAIN codes, RootOf(i) = h PROVE GrantState(h)' = GrantState(h)
  <2>1. i \in DOMAIN codes' /\ codes'[i] = codes[i] /\ RootOf(i)' = h
    BY <1>1, <1>2, <1>4 DEF OthersKeep
  <2> QED BY <1>4, <2>1 DEF GoodStep, HeldStates, HeldAs
<1>5. ASSUME NEW i \in DOMAIN refresh, RootOf(i) = h PROVE GrantState(h)' = GrantState(h)
  <2>1. i \in DOMAIN refresh' /\ refresh'[i] = refresh[i] /\ RootOf(i)' = h
    BY <1>1, <1>2, <1>5 DEF OthersKeep
  <2> QED BY <1>5, <2>1 DEF GoodStep, HeldStates, HeldAs
<1>6. ASSUME NEW s \in HoldingLogins, RootOf(login[s].request) = h
      PROVE  GrantState(h)' = GrantState(h)
  <2>1. /\ s \in HoldingLogins' /\ login'[s].record = login[s].record
        /\ login'[s].subject = login[s].subject /\ login'[s].request = login[s].request
    BY <1>6 DEF OthersKeep
  <2>2. RootOf(login[s].request)' = h
    BY <1>1, <1>2, <1>6, <2>1 DEF RootOf
  <2> QED BY <1>6, <2>1, <2>2 DEF GoodStep, HeldStates, HeldAs
<1>7. ASSUME NEW c \in HoldingCalls, RootOf(call[c].token) = h
      PROVE  GrantState(h)' = GrantState(h)
  <2>1. /\ c \in HoldingCalls' /\ call'[c].client = call[c].client
        /\ call'[c].subject = call[c].subject /\ call'[c].token = call[c].token
    BY <1>7 DEF OthersKeep
  <2>2. RootOf(call[c].token)' = h
    BY <1>1, <1>2, <1>7, <2>1 DEF RootOf
  <2> QED BY <1>7, <2>1, <2>2 DEF GoodStep, HeldStates, HeldAs
<1>8. CASE NoHolder(h)
  <2>1. NoHolder(h)'
    <3>1. \A i \in DOMAIN pending' \cup DOMAIN codes' \cup DOMAIN refresh' : RootOf(i)' # h
      BY <1>1, <1>2, <1>8 DEF OthersKeep, NoHolder, Spendable
    <3>2. \A s \in HoldingLogins' : RootOf(login[s].request)' # h
      BY <1>1, <1>2, <1>8 DEF OthersKeep, NoHolder, HeldIds, RootOf
    <3>3. \A c \in HoldingCalls' : RootOf(call[c].token)' # h
      BY <1>1, <1>2, <1>8 DEF OthersKeep, NoHolder, HeldIds, RootOf
    <3> QED BY <3>1, <3>2, <3>3 DEF NoHolder, Spendable, HeldIds
  <2>2. Begun(h)' = Begun(h)
    BY BegunStays DEF GoodStep
  <2> QED BY <1>8, <2>1, <2>2 DEF GoodStep, HeldStates, HeldAs
<1> QED BY <1>3, <1>4, <1>5, <1>6, <1>7, <1>8 DEF NoHolder, Spendable, HeldIds

(***************************************************************************)
(* A step that moves one grant is a step of GrantLifecycle.                *)
(***************************************************************************)

State == [g \in Grants |-> GrantState(g)]

\* The step mints nothing, or an identifier that begins no grant but g.
MintsFor(g) ==
    \/ UNCHANGED ledger
    \/ /\ \E kind, parent : Extends(kind, parent)
       /\ \A n : n = NextId => g = n \/ ~ Begun(n)'

LEMMA OneGrantMoves ==
    ASSUME GoodStep, NEW g, MintsFor(g), OthersKeep(g),
           g \in Grants => \/ Lifecycle!Moves(GrantState(g), GrantState(g)')
                           \/ GrantState(g)' = GrantState(g)
    PROVE  [Lifecycle!Next]_State
<1>1. \A h \in Grants \ {g} : GrantState(h)' = GrantState(h)
  <2> SUFFICES ASSUME NEW h \in Grants \ {g} PROVE GrantState(h)' = GrantState(h)
    OBVIOUS
  <2>1. UNCHANGED ledger \/ h # NextId \/ ~ Begun(h)'
    BY DEF MintsFor
  <2>2. UNCHANGED ledger \/ \E kind, parent : Extends(kind, parent)
    BY DEF MintsFor
  <2> QED BY <2>1, <2>2, OthersStay
<1>2. State' = [h \in Grants |-> GrantState(h)']
  BY DEF State
<1>3. CASE g \in Grants /\ Lifecycle!Moves(GrantState(g), GrantState(g)')
  <2>1. State[g] = GrantState(g) /\ State'[g] = GrantState(g)'
    BY <1>2, <1>3 DEF State
  <2>2. State' = [State EXCEPT ![g] = State'[g]]
    BY <1>1, <1>2, <2>1 DEF State
  <2> QED BY <1>3, <2>1, <2>2 DEF Lifecycle!Next, State
<1>4. CASE g \notin Grants \/ GrantState(g)' = GrantState(g)
  BY <1>1, <1>2, <1>4 DEF State
<1> QED BY <1>3, <1>4

LEMMA GrantsFromOne == 0 \notin Grants
BY DEF Grants

\* A step that every holder sleeps through.
LEMMA NobodyMoves ==
    ASSUME GoodStep, MintsFor(0), OthersKeep(0)
    PROVE  [Lifecycle!Next]_State
BY OneGrantMoves, GrantsFromOne

\* Whoever holds an identifier, its grant is in one of the places.
LEMMA HeldSomewhere ==
    ASSUME IInv, HeldStates, NEW i \in Spendable \cup HeldIds
    PROVE  GrantState(RootOf(i)).place \in Lifecycle!Places
<1>1. \A client, subject : \A place \in Lifecycle!Places :
          HeldAs(place, client, subject).place \in Lifecycle!Places
  BY DEF HeldAs
<1>2. /\ "pending" \in Lifecycle!Places /\ "code" \in Lifecycle!Places
      /\ "refresh" \in Lifecycle!Places /\ "login" \in Lifecycle!Places
      /\ "exchange" \in Lifecycle!Places
  BY DEF Lifecycle!Places
<1>3. CASE i \in Spendable
  BY <1>1, <1>2, <1>3 DEF HeldStates, Spendable
<1>4. CASE i \in HeldIds
  BY <1>1, <1>2, <1>4 DEF HeldStates, HeldIds
<1> QED BY <1>3, <1>4

\* The holder lets go, and nobody takes over.
LEMMA GrantIsLost ==
    ASSUME GoodStep, UNCHANGED ledger, NEW id \in Spendable \cup HeldIds,
           Spendable' \cup HeldIds' \subseteq (Spendable \cup HeldIds) \ {id},
           NEW g, g = RootOf(id), OthersKeep(g)
    PROVE  [Lifecycle!Next]_State
<1>1. id \in Issued /\ ledger[id].kind # "access"
  BY HoldersAreIssued DEF GoodStep, IInv, StoresSound, Spendable, HeldIds, IssuedOf
<1>2. Begun(g)'
  <2>1. Begun(g)
    BY <1>1, HoldersHaveBegun DEF GoodStep
  <2> QED BY <2>1 DEF Begun, Issued, RootOf
<1>3. NoHolder(g)'
  BY DEF NoHolder, GoodStep, IInv, OneHolderPerGrant, RootOf
<1>4. GrantState(g)' = HeldAs("gone", None, None)
  BY <1>2, <1>3 DEF GoodStep, HeldStates
<1>5. Lifecycle!Lost(GrantState(g), GrantState(g)')
  BY <1>4, HeldSomewhere DEF GoodStep, Lifecycle!Lost, Lifecycle!Gone, HeldAs
<1> QED BY <1>5, OneGrantMoves DEF Lifecycle!Moves, MintsFor

(***************************************************************************)
(* What is lost.                                                           *)
(***************************************************************************)

\* A store that loses an identifier keeps the others.
LEMMA PopKeeps ==
    ASSUME NEW store, NEW after, NEW id, after = Pop(store, id) \/ after = store
    PROVE  \A i \in DOMAIN store \cup DOMAIN after :
               i = id \/ (i \in DOMAIN store \cap DOMAIN after /\ after[i] = store[i])
<1>1. CASE after = store
  BY <1>1
<1>2. CASE after = Pop(store, id)
  <2>1. DOMAIN after = DOMAIN store \ {id} /\ \A i \in DOMAIN after : after[i] = store[i]
    BY <1>2, PopFacts
  <2> QED BY <2>1
<1> QED BY <1>1, <1>2

\* An identifier expires, or is spent by a request that is then refused.
LEMMA StoreLoses ==
    ASSUME GoodStep, UNCHANGED <<ledger, login, call>>, NEW id,
           \/ /\ id \in DOMAIN pending /\ pending' = Pop(pending, id)
              /\ UNCHANGED <<codes, refresh>>
           \/ /\ id \in DOMAIN codes /\ codes' = Pop(codes, id)
              /\ UNCHANGED <<pending, refresh>>
           \/ /\ id \in DOMAIN refresh /\ refresh' = Pop(refresh, id)
              /\ UNCHANGED <<pending, codes>>
    PROVE  [Lifecycle!Next]_State
<1>1. id \in Spendable /\ id \notin HeldIds
  BY DEF Spendable, GoodStep, IInv, OneHolderPerGrant
<1>2. Spendable' \subseteq Spendable \ {id}
  <2>1. /\ DOMAIN pending' \subseteq DOMAIN pending /\ DOMAIN codes' \subseteq DOMAIN codes
        /\ DOMAIN refresh' \subseteq DOMAIN refresh
        /\ id \notin DOMAIN pending' \cup DOMAIN codes' \cup DOMAIN refresh'
    <3>1. StoresSound
      BY DEF GoodStep, IInv
    <3>2. /\ DOMAIN Pop(pending, id) = DOMAIN pending \ {id}
          /\ DOMAIN Pop(codes, id) = DOMAIN codes \ {id}
          /\ DOMAIN Pop(refresh, id) = DOMAIN refresh \ {id}
      BY PopFacts
    <3> QED BY <3>1, <3>2, StoreIsOwn
  <2> QED BY <2>1 DEF Spendable
<1>3. HoldingLogins' = HoldingLogins /\ HoldingCalls' = HoldingCalls /\ HeldIds' = HeldIds
  BY DEF HoldingLogins, HoldingCalls, HeldIds
<1>4. PICK g : g = RootOf(id)
  OBVIOUS
<1>5. OthersKeep(g)
  <2>1. RootOf(id)' = g
    BY <1>4 DEF RootOf
  <2>2. /\ pending' = Pop(pending, id) \/ pending' = pending
        /\ codes' = Pop(codes, id) \/ codes' = codes
        /\ refresh' = Pop(refresh, id) \/ refresh' = refresh
    OBVIOUS
  <2> QED BY <1>3, <2>1, <2>2, PopKeeps DEF OthersKeep
<1> QED BY <1>1, <1>2, <1>3, <1>4, <1>5, GrantIsLost

\* A login that holds a request is refused, or stops with its replica.
LEMMA LoginLetsGo ==
    ASSUME GoodStep, UNCHANGED <<stateVars, call>>, NEW s \in HoldingLogins, Return(s)
    PROVE  [Lifecycle!Next]_State
<1> DEFINE id == login[s].request
<1>1. s \notin HoldingLogins' /\ \A t \in Logins \ {s} : login'[t] = login[t]
  BY LoginBecomes DEF GoodStep, IInv, TypeOK, HoldingLogins
<1>2. id \in HeldIds /\ id \notin Spendable
  BY DEF HeldIds, GoodStep, IInv, OneHolderPerGrant
<1>3. UNCHANGED <<ledger, pending, codes, refresh>> /\ Spendable' = Spendable
  BY DEF stateVars, Spendable
<1>4. HoldingLogins' = HoldingLogins \ {s} /\ HoldingCalls' = HoldingCalls
  BY <1>1 DEF HoldingLogins, HoldingCalls
<1>5. HeldIds' \subseteq HeldIds \ {id}
  BY <1>1, <1>4, HoldersAreIssued
     DEF HeldIds, HoldingLogins, GoodStep, IInv, OneHolderPerGrant
<1>6. PICK g : g = RootOf(id)
  OBVIOUS
<1>7. OthersKeep(g)
  BY <1>1, <1>3, <1>4, <1>6 DEF OthersKeep, RootOf, HoldingLogins
<1> QED BY <1>2, <1>3, <1>5, <1>6, <1>7, GrantIsLost

\* An exchange stops with its replica.
LEMMA CallLetsGo ==
    ASSUME GoodStep, UNCHANGED <<stateVars, login>>, NEW c \in HoldingCalls, Finish(c)
    PROVE  [Lifecycle!Next]_State
<1> DEFINE id == call[c].token
<1>1. c \notin HoldingCalls' /\ \A d \in Calls \ {c} : call'[d] = call[d]
  BY CallBecomes DEF GoodStep, IInv, TypeOK, HoldingCalls
<1>2. id \in HeldIds /\ id \notin Spendable
  BY DEF HeldIds, GoodStep, IInv, OneHolderPerGrant
<1>3. UNCHANGED <<ledger, pending, codes, refresh>> /\ Spendable' = Spendable
  BY DEF stateVars, Spendable
<1>4. HoldingCalls' = HoldingCalls \ {c} /\ HoldingLogins' = HoldingLogins
  BY <1>1 DEF HoldingLogins, HoldingCalls
<1>5. HeldIds' \subseteq HeldIds \ {id}
  BY <1>1, <1>4, HoldersAreIssued
     DEF HeldIds, HoldingCalls, GoodStep, IInv, OneHolderPerGrant
<1>6. PICK g : g = RootOf(id)
  OBVIOUS
<1>7. OthersKeep(g)
  BY <1>1, <1>3, <1>4, <1>6 DEF OthersKeep, RootOf, HoldingCalls
<1> QED BY <1>2, <1>3, <1>5, <1>6, <1>7, GrantIsLost

(***************************************************************************)
(* What is handed on.                                                      *)
(***************************************************************************)

LEMMA HeldOn ==
    ASSUME NEW place, NEW client, NEW subject, NEW held, held = HeldAs(place, client, subject)
    PROVE  /\ held.place = place /\ held.client = client /\ held.subject = subject
           /\ \A next : [held EXCEPT !.place = next] = HeldAs(next, client, subject)
           /\ \A person : [held EXCEPT !.subject = person] = HeldAs(place, client, person)
<1>1. held = [place |-> place, client |-> client, subject |-> subject]
  BY DEF HeldAs
<1>2. held.place = place /\ held.client = client /\ held.subject = subject
  BY <1>1
<1>3. ASSUME NEW next PROVE [held EXCEPT !.place = next] = HeldAs(next, client, subject)
  BY <1>1 DEF HeldAs
<1>4. ASSUME NEW person PROVE [held EXCEPT !.subject = person] = HeldAs(place, client, person)
  BY <1>1 DEF HeldAs
<1> QED BY <1>2, <1>3, <1>4

\* A login takes a request.
LEMMA RequestTaken ==
    ASSUME GoodStep, UNCHANGED <<ledger, codes, refresh, call>>,
           NEW id \in DOMAIN pending, pending' = Pop(pending, id),
           NEW s \in Logins \ HoldingLogins,
           login'[s].request = id, login'[s].record = pending[id],
           \A t \in Logins \ {s} : login'[t] = login[t]
    PROVE  [Lifecycle!Next]_State
<1>1. PICK g : g = RootOf(id)
  OBVIOUS
<1>2. RootOf(id)' = g
  BY <1>1 DEF RootOf
<1>3. pending[id] \in PendingRecord /\ pending[id] # None
  BY AuthorizeAssumption DEF GoodStep, IInv, TypeOK
<1>4. HoldingLogins' = HoldingLogins \cup {s} /\ HoldingCalls' = HoldingCalls
  BY <1>3 DEF HoldingLogins, HoldingCalls
<1>5. OthersKeep(g)
  <2>1. \A i \in DOMAIN pending \cup DOMAIN pending' :
            i = id \/ (i \in DOMAIN pending \cap DOMAIN pending' /\ pending'[i] = pending[i])
    BY PopKeeps
  <2>2. \A t \in HoldingLogins \cup HoldingLogins' :
            t = s \/ (t \in HoldingLogins \cap HoldingLogins' /\ login'[t] = login[t])
    BY <1>4 DEF HoldingLogins
  <2>3. s \notin HoldingLogins /\ RootOf(login[s].request)' = g
    BY <1>2 DEF RootOf
  <2> QED BY <1>2, <1>4, <2>1, <2>2, <2>3 DEF OthersKeep
<1>6. GrantState(g) = HeldAs("pending", pending[id].client, None)
  BY <1>1 DEF GoodStep, HeldStates
<1>7. GrantState(g)' = HeldAs("login", pending[id].client, login'[s].subject)
  <2>1. GrantState(RootOf(login[s].request))' =
            HeldAs("login", login[s].record.client, login[s].subject)'
    BY <1>4 DEF GoodStep, HeldStates
  <2>2. RootOf(login[s].request)' = g
    BY <1>2 DEF RootOf
  <2> QED BY <2>1, <2>2 DEF HeldAs
<1>8. Lifecycle!LogsIn(GrantState(g), GrantState(g)')
  BY <1>6, <1>7 DEF Lifecycle!LogsIn, HeldAs
<1> QED BY <1>5, <1>8, OneGrantMoves DEF Lifecycle!Moves, MintsFor

\* The subject of a login is settled.
LEMMA SubjectSettled ==
    ASSUME GoodStep, UNCHANGED <<ledger, pending, codes, refresh, call>>,
           NEW s \in HoldingLogins, login[s].subject = None,
           login'[s].request = login[s].request, login'[s].record = login[s].record,
           \A t \in Logins \ {s} : login'[t] = login[t]
    PROVE  [Lifecycle!Next]_State
<1>1. PICK g : g = RootOf(login[s].request)
  OBVIOUS
<1>2. RootOf(login[s].request)' = g
  BY <1>1 DEF RootOf
<1>3. HoldingLogins' = HoldingLogins /\ HoldingCalls' = HoldingCalls
  BY DEF HoldingLogins, HoldingCalls
<1>4. OthersKeep(g)
  BY <1>1, <1>2, <1>3 DEF OthersKeep, RootOf, HoldingLogins
<1>5. GrantState(g) = HeldAs("login", login[s].record.client, None)
  BY <1>1 DEF GoodStep, HeldStates
<1>6. GrantState(g)' = HeldAs("login", login[s].record.client, login'[s].subject)
  <2>1. GrantState(RootOf(login[s].request))' =
            HeldAs("login", login[s].record.client, login[s].subject)'
    BY <1>3 DEF GoodStep, HeldStates
  <2> QED BY <1>2, <2>1 DEF HeldAs
<1>7. Lifecycle!Approved(GrantState(g), GrantState(g)')
  <2>1. GrantState(g)'.subject = login'[s].subject
    BY <1>6, HeldOn
  <2>2. [GrantState(g) EXCEPT !.subject = login'[s].subject] = GrantState(g)'
    BY <1>5, <1>6, HeldOn
  <2>3. GrantState(g).place = "login" /\ GrantState(g).subject = None
    BY <1>5, HeldOn
  <2> QED BY <2>1, <2>2, <2>3 DEF Lifecycle!Approved
<1> QED BY <1>4, <1>7, OneGrantMoves DEF Lifecycle!Moves, MintsFor

\* An exchange takes a code or a refresh token.
LEMMA CredentialTaken ==
    ASSUME GoodStep, UNCHANGED <<ledger, pending, login>>,
           NEW id, NEW place, NEW held, NEW client, NEW subject,
           \/ /\ id \in DOMAIN codes /\ codes' = Pop(codes, id) /\ UNCHANGED refresh
              /\ held = codes[id].client /\ subject = codes[id].subject /\ place = "code"
           \/ /\ id \in DOMAIN refresh /\ refresh' = Pop(refresh, id) /\ UNCHANGED codes
              /\ held = refresh[id].client /\ subject = refresh[id].subject /\ place = "refresh",
           client = IF held = None THEN StaticClient ELSE held,
           NEW c \in Calls \ HoldingCalls,
           call'[c].token = id, call'[c].client = client, call'[c].subject = subject,
           \A d \in Calls \ {c} : call'[d] = call[d]
    PROVE  [Lifecycle!Next]_State
<1>1. PICK g : g = RootOf(id)
  OBVIOUS
<1>2. RootOf(id)' = g
  BY <1>1 DEF RootOf
<1>3. id # 0
  BY HoldersAreIssued DEF Spendable, GoodStep, IInv
<1>4. HoldingCalls' = HoldingCalls \cup {c} /\ HoldingLogins' = HoldingLogins
  BY <1>3 DEF HoldingLogins, HoldingCalls
<1>5. OthersKeep(g)
  <2>1. /\ \A i \in DOMAIN codes \cup DOMAIN codes' :
               i = id \/ (i \in DOMAIN codes \cap DOMAIN codes' /\ codes'[i] = codes[i])
        /\ \A i \in DOMAIN refresh \cup DOMAIN refresh' :
               i = id \/ (i \in DOMAIN refresh \cap DOMAIN refresh' /\ refresh'[i] = refresh[i])
    BY PopKeeps
  <2>2. \A d \in HoldingCalls \cup HoldingCalls' :
            d = c \/ (d \in HoldingCalls \cap HoldingCalls' /\ call'[d] = call[d])
    BY <1>4 DEF HoldingCalls
  <2>3. c \notin HoldingCalls /\ RootOf(call[c].token)' = g
    BY <1>2 DEF RootOf
  <2> QED BY <1>2, <1>4, <2>1, <2>2, <2>3 DEF OthersKeep
<1>6. GrantState(g) = HeldAs(place, held, subject)
  BY <1>1 DEF GoodStep, HeldStates
<1>7. GrantState(g)' = HeldAs("exchange", client, subject)
  <2>1. GrantState(RootOf(call[c].token))' =
            HeldAs("exchange", call[c].client, call[c].subject)'
    BY <1>4 DEF GoodStep, HeldStates
  <2>2. RootOf(call[c].token)' = g
    BY <1>2 DEF RootOf
  <2> QED BY <2>1, <2>2 DEF HeldAs
<1>8. Lifecycle!Taken(GrantState(g), GrantState(g)')
  BY <1>6, <1>7 DEF Lifecycle!Taken, HeldAs
<1> QED BY <1>5, <1>8, OneGrantMoves DEF Lifecycle!Moves, MintsFor

LEMMA PutKeeps ==
    ASSUME NEW store, NEW after, NEW id, NEW record, after = Put(store, id, record)
    PROVE  /\ id \in DOMAIN after /\ after[id] = record
           /\ \A i \in DOMAIN store \cup DOMAIN after :
                  i = id \/ (i \in DOMAIN store \cap DOMAIN after /\ after[i] = store[i])
<1>1. /\ DOMAIN after = DOMAIN store \cup {id} /\ after[id] = record
      /\ \A i \in DOMAIN store \ {id} : after[i] = store[i]
  BY DEF Put
<1> QED BY <1>1

\* What is minted for a grant's identifier begins no grant, and is of the same.
LEMMA MintedForGrant ==
    ASSUME IInv, Provenance, NEW kind, NEW id \in Spendable \cup HeldIds, Extends(kind, id),
           NEW g, g = RootOf(id), NEW n, n = NextId
    PROVE  RootOf(n)' = g /\ MintsFor(g)
<1>1. id \in Issued /\ ledger[id].kind # "access" /\ id # 0
  BY HoldersAreIssued DEF IInv, StoresSound, Spendable, HeldIds, IssuedOf
<1>2. g \in Issued
  BY <1>1, HoldersHaveBegun DEF Begun
<1>3. RootOf(n)' = g /\ n \notin Issued
  BY <1>1 DEF Extends, RootOf
<1>4. ~ Begun(n)'
  BY <1>2, <1>3 DEF Begun
<1> QED BY <1>3, <1>4 DEF MintsFor

\* A login gives back a code.
LEMMA CodeGiven ==
    ASSUME GoodStep, UNCHANGED <<pending, refresh, call>>,
           NEW s \in HoldingLogins, Return(s), Extends("code", login[s].request),
           NEW record, codes' = Put(codes, NextId, record),
           record.client = login[s].record.client, record.subject = login[s].subject
    PROVE  [Lifecycle!Next]_State
<1>1. PICK g, n : g = RootOf(login[s].request) /\ n = NextId
  OBVIOUS
<1>2. RootOf(n)' = g /\ MintsFor(g)
  BY <1>1, MintedForGrant DEF GoodStep, HeldIds
<1>3. /\ n \in DOMAIN codes' /\ codes'[n] = record
      /\ \A i \in DOMAIN codes \cup DOMAIN codes' :
             i = n \/ (i \in DOMAIN codes \cap DOMAIN codes' /\ codes'[i] = codes[i])
  BY <1>1, PutKeeps
<1>4. s \notin HoldingLogins' /\ \A t \in Logins \ {s} : login'[t] = login[t]
  BY LoginBecomes DEF GoodStep, IInv, TypeOK, HoldingLogins
<1>5. HoldingLogins' = HoldingLogins \ {s} /\ HoldingCalls' = HoldingCalls
  BY <1>4 DEF HoldingLogins, HoldingCalls
<1>6. OthersKeep(g)
  BY <1>1, <1>2, <1>3, <1>4, <1>5 DEF OthersKeep, HoldingLogins
<1>7. GrantState(g) = HeldAs("login", record.client, record.subject)
  BY <1>1 DEF GoodStep, HeldStates
<1>8. GrantState(g)' = HeldAs("code", record.client, record.subject)
  BY <1>2, <1>3 DEF GoodStep, HeldStates, HeldAs
<1>9. Lifecycle!GivesCode(GrantState(g), GrantState(g)')
  BY <1>7, <1>8, HeldOn DEF Lifecycle!GivesCode
<1> QED BY <1>2, <1>6, <1>9, OneGrantMoves DEF Lifecycle!Moves

\* An exchange gives back a refresh token.
LEMMA RefreshGiven ==
    ASSUME GoodStep, UNCHANGED <<pending, codes, login>>,
           NEW c \in HoldingCalls, Finish(c), Extends("refresh", call[c].token),
           NEW record, refresh' = Put(refresh, NextId, record),
           record.client = call[c].client, record.subject = call[c].subject
    PROVE  [Lifecycle!Next]_State
<1>1. PICK g, n : g = RootOf(call[c].token) /\ n = NextId
  OBVIOUS
<1>2. RootOf(n)' = g /\ MintsFor(g)
  BY <1>1, MintedForGrant DEF GoodStep, HeldIds
<1>3. /\ n \in DOMAIN refresh' /\ refresh'[n] = record
      /\ \A i \in DOMAIN refresh \cup DOMAIN refresh' :
             i = n \/ (i \in DOMAIN refresh \cap DOMAIN refresh' /\ refresh'[i] = refresh[i])
  BY <1>1, PutKeeps
<1>4. c \notin HoldingCalls' /\ \A d \in Calls \ {c} : call'[d] = call[d]
  BY CallBecomes DEF GoodStep, IInv, TypeOK, HoldingCalls
<1>5. HoldingCalls' = HoldingCalls \ {c} /\ HoldingLogins' = HoldingLogins
  BY <1>4 DEF HoldingLogins, HoldingCalls
<1>6. OthersKeep(g)
  BY <1>1, <1>2, <1>3, <1>4, <1>5 DEF OthersKeep, HoldingCalls
<1>7. GrantState(g) = HeldAs("exchange", record.client, record.subject)
  BY <1>1 DEF GoodStep, HeldStates
<1>8. GrantState(g)' = HeldAs("refresh", record.client, record.subject)
  BY <1>2, <1>3 DEF GoodStep, HeldStates, HeldAs
<1>9. Lifecycle!GivesRefresh(GrantState(g), GrantState(g)')
  BY <1>7, <1>8, HeldOn DEF Lifecycle!GivesRefresh
<1> QED BY <1>2, <1>6, <1>9, OneGrantMoves DEF Lifecycle!Moves

\* A grant is requested: its identifier is fresh, so it was absent.
LEMMA GrantRequested ==
    ASSUME GoodStep, UNCHANGED <<refresh, login, call>>,
           NEW kind \in {"pending", "code"}, Extends(kind, 0),
           NEW record, record.client \in Clients,
           \/ /\ kind = "pending" /\ pending' = Put(pending, NextId, record)
              /\ UNCHANGED codes
           \/ /\ kind = "code" /\ codes' = Put(codes, NextId, record)
              /\ record.subject = None /\ UNCHANGED pending
    PROVE  [Lifecycle!Next]_State
<1>1. PICK g : g = NextId
  OBVIOUS
<1>2. RootOf(g)' = g /\ MintsFor(g) /\ g \notin Issued
  BY <1>1 DEF Extends, RootOf, MintsFor
<1>3. HoldingLogins' = HoldingLogins /\ HoldingCalls' = HoldingCalls
  BY DEF HoldingLogins, HoldingCalls
<1>4. OthersKeep(g)
  <2>1. /\ \A i \in DOMAIN pending \cup DOMAIN pending' :
               i = g \/ (i \in DOMAIN pending \cap DOMAIN pending' /\ pending'[i] = pending[i])
        /\ \A i \in DOMAIN codes \cup DOMAIN codes' :
               i = g \/ (i \in DOMAIN codes \cap DOMAIN codes' /\ codes'[i] = codes[i])
    BY <1>1, PutKeeps
  <2> QED BY <1>2, <1>3, <2>1 DEF OthersKeep
<1>5. GrantState(g) = HeldAs("absent", None, None)
  <2>1. NoHolder(g)
    <3> SUFFICES ASSUME NEW i \in Spendable \cup HeldIds PROVE RootOf(i) # g
      BY DEF NoHolder
    <3>1. i \in Issued /\ ledger[i].kind # "access"
      BY HoldersAreIssued DEF GoodStep, IInv, StoresSound, Spendable, HeldIds, IssuedOf
    <3> QED BY <1>2, <3>1, HoldersHaveBegun DEF GoodStep, Begun
  <2> QED BY <1>2, <2>1 DEF GoodStep, HeldStates, Begun
<1>6. GrantState(g)' = HeldAs(kind, record.client, None)
  <2>1. CASE kind = "pending" /\ pending' = Put(pending, NextId, record)
    <3>1. g \in DOMAIN pending' /\ pending'[g] = record
      BY <1>1, <2>1, PutKeeps
    <3> QED BY <1>2, <2>1, <3>1 DEF GoodStep, HeldStates, HeldAs
  <2>2. CASE kind = "code" /\ codes' = Put(codes, NextId, record) /\ record.subject = None
    <3>1. g \in DOMAIN codes' /\ codes'[g] = record
      BY <1>1, <2>2, PutKeeps
    <3> QED BY <1>2, <2>2, <3>1 DEF GoodStep, HeldStates, HeldAs
  <2> QED BY <2>1, <2>2
<1>7. Lifecycle!Requested(GrantState(g), GrantState(g)')
  BY <1>5, <1>6, HeldOn DEF Lifecycle!Requested, Lifecycle!Absent, HeldAs
<1> QED BY <1>2, <1>4, <1>7, OneGrantMoves DEF Lifecycle!Moves

(***************************************************************************)
(* Every step.                                                             *)
(***************************************************************************)

\* A step in which no holder takes, gives or lets go.
LEMMA HoldersSleep ==
    ASSUME GoodStep, UNCHANGED <<pending, codes, refresh>>,
           HoldingLogins' = HoldingLogins, HoldingCalls' = HoldingCalls,
           \A s \in HoldingLogins :
               /\ login'[s].request = login[s].request
               /\ login'[s].record = login[s].record /\ login'[s].subject = login[s].subject,
           \A c \in HoldingCalls :
               /\ call'[c].token = call[c].token
               /\ call'[c].client = call[c].client /\ call'[c].subject = call[c].subject,
           MintsFor(0)
    PROVE  [Lifecycle!Next]_State
BY NobodyMoves DEF OthersKeep

\* A handler with empty hands does something that leaves them empty.
LEMMA EmptyHanded ==
    ASSUME GoodStep, UNCHANGED <<ledger, pending, codes, refresh, call>>, NEW s \in Logins,
           login[s].record = None, login'[s].record = None,
           \A t \in Logins \ {s} : login'[t] = login[t]
    PROVE  [Lifecycle!Next]_State
<1>1. HoldingLogins' = HoldingLogins /\ s \notin HoldingLogins
  BY DEF HoldingLogins
<1>2. HoldingCalls' = HoldingCalls
  BY DEF HoldingCalls
<1>3. \A t \in HoldingLogins : login'[t] = login[t]
  BY <1>1 DEF HoldingLogins
<1> QED BY <1>1, <1>2, <1>3, HoldersSleep DEF MintsFor

LEMMA LoginMovesGrant ==
    ASSUME GoodStep, UNCHANGED call, NEW s \in Logins, LoginSteps(s) \/ LoginCrashes(s)
    PROVE  [Lifecycle!Next]_State
<1>1. login \in [Logins -> LoginHandler] /\ LoginSound(s) /\ LoginFaithful(s)
  BY DEF GoodStep, IInv, TypeOK, HandlersSound, Provenance, HandlersFaithful
<1>2. ASSUME Return(s), UNCHANGED stateVars PROVE [Lifecycle!Next]_State
  <2>1. login'[s].record = None /\ \A t \in Logins \ {s} : login'[t] = login[t]
    BY <1>1, <1>2, LoginBecomes
  <2>2. CASE s \in HoldingLogins
    BY <1>2, <2>2, LoginLetsGo
  <2>3. CASE login[s].record = None
    BY <1>2, <2>1, <2>3, EmptyHanded DEF stateVars
  <2> QED BY <2>2, <2>3 DEF HoldingLogins
<1>3. ASSUME NEW pc, Goto(s, pc), UNCHANGED stateVars PROVE [Lifecycle!Next]_State
  <2>1. /\ login'[s].record = login[s].record /\ login'[s].request = login[s].request
        /\ login'[s].subject = login[s].subject
        /\ \A t \in Logins \ {s} : login'[t] = login[t]
    BY <1>1, <1>3, LoginBecomes
  <2>2. HoldingLogins' = HoldingLogins /\ HoldingCalls' = HoldingCalls
    BY <2>1 DEF HoldingLogins, HoldingCalls
  <2>3. \A t \in HoldingLogins :
            /\ login'[t].request = login[t].request
            /\ login'[t].record = login[t].record /\ login'[t].subject = login[t].subject
    BY <2>1 DEF HoldingLogins
  <2> QED BY <1>3, <2>2, <2>3, HoldersSleep DEF stateVars, MintsFor
<1>4. CASE LoginConsume(s)
  <2> DEFINE id == login[s].request
             h == [login[s] EXCEPT !.pc = "issue", !.record = pending[id], !.subject = LoginUser]
  <2>1. login[s].record = None
    BY <1>1, <1>4 DEF LoginSound, LoginConsume
  <2>2. UNCHANGED <<ledger, codes, refresh>> /\ pending' = Pop(pending, id)
    BY <1>4 DEF LoginConsume
  <2>3. CASE id \in DOMAIN pending
    <3>1. login' = [login EXCEPT ![s] = h]
      BY <1>4, <2>3 DEF LoginConsume
    <3>2. h.request = id /\ h.record = pending[id]
      BY <1>1 DEF LoginHandler
    <3> HIDE DEF h
    <3>3. login'[s] = h /\ \A t \in Logins \ {s} : login'[t] = login[t]
      BY <1>1, <3>1, LoginBecomes
    <3> QED BY <2>1, <2>2, <2>3, <3>2, <3>3, RequestTaken DEF HoldingLogins
  <2>4. CASE id \notin DOMAIN pending
    <3>1. pending' = pending
      <4>1. DOMAIN pending \ {id} = DOMAIN pending
        BY <2>4
      <4>2. pending' = [i \in DOMAIN pending |-> pending[i]]
        BY <2>2, <4>1 DEF Pop, Restrict
      <4>3. pending \in [DOMAIN pending -> PendingRecord]
        BY DEF GoodStep, IInv, TypeOK
      <4> QED BY <4>2, <4>3
    <3>2. Return(s)
      BY <1>4, <2>4 DEF LoginConsume
    <3>3. login'[s].record = None /\ \A t \in Logins \ {s} : login'[t] = login[t]
      BY <1>1, <3>2, LoginBecomes
    <3> QED BY <2>1, <2>2, <3>1, <3>3, EmptyHanded
  <2> QED BY <2>3, <2>4
<1>5. CASE CallbackVet(s)
  <2> DEFINE h == [login[s] EXCEPT !.pc = "issue", !.subject = login[s].result.person]
  <2>1. login' = [login EXCEPT ![s] = h] /\ UNCHANGED <<ledger, pending, codes, refresh>>
    BY <1>5 DEF CallbackVet, stateVars
  <2>2. login[s].subject = None /\ s \in HoldingLogins
    BY <1>1, <1>5 DEF LoginFaithful, LoginSound, CallbackVet, HoldingLogins
  <2>3. h.request = login[s].request /\ h.record = login[s].record
    BY <1>1 DEF LoginHandler
  <2> HIDE DEF h
  <2>4. login'[s] = h /\ \A t \in Logins \ {s} : login'[t] = login[t]
    BY <1>1, <2>1, LoginBecomes
  <2> QED BY <2>1, <2>2, <2>3, <2>4, SubjectSettled
<1>6. CASE IssueCode(s)
  <2> DEFINE record == [client |-> login[s].record.client, redirect |-> login[s].record.redirect,
                        challenge |-> login[s].record.challenge, subject |-> login[s].subject]
  <2>1. s \in HoldingLogins /\ Extends("code", login[s].request)
    BY <1>6, IssueCodeStep DEF GoodStep, IInv, LoginGives
  <2>2. /\ codes' = Put(codes, NextId, record) /\ Return(s)
        /\ UNCHANGED <<pending, refresh>>
    BY <1>6 DEF IssueCode
  <2>3. record.client = login[s].record.client /\ record.subject = login[s].subject
    OBVIOUS
  <2> QED BY <2>1, <2>2, <2>3, CodeGiven
<1> QED
  <2>1. LoginHit(s) \/ LoginVerified(s) \/ CallbackExchange(s) =>
            UNCHANGED stateVars /\ (Return(s) \/ \E pc : Goto(s, pc))
    BY DEF LoginHit, LoginVerified, CallbackExchange
  <2>2. LoginRefused(s) \/ LoginCrashes(s) => UNCHANGED stateVars /\ Return(s)
    BY DEF LoginRefused, LoginCrashes
  <2> QED BY <1>2, <1>3, <1>4, <1>5, <1>6, <2>1, <2>2 DEF LoginSteps

LEMMA AuthorizeMovesGrant ==
    ASSUME GoodStep, AuthorizeNext, UNCHANGED call
    PROVE  [Lifecycle!Next]_State
<1>1. ASSUME NEW client \in ServedClients, NEW redirect \in RedirectUris, NEW v \in Verifiers,
             AuthorizeLogin(client, redirect, v) \/ AuthorizeAuto(client, redirect, v)
      PROVE  [Lifecycle!Next]_State
  <2>1. /\ client \in Clients /\ S256(v) \in Challenges /\ ledger \in Seq(LedgerEntry)
        /\ UNCHANGED <<refresh, login>>
    BY <1>1, ServedAreClients, ChallengesOfVerifiers
       DEF GoodStep, IInv, TypeOK, AuthorizeLogin, AuthorizeAuto, authorizeVars
  <2>2. CASE AuthorizeLogin(client, redirect, v)
    <3> DEFINE record == [client |-> client, redirect |-> redirect, challenge |-> S256(v),
                          nonce |-> Nonce]
    <3>1. Extends("pending", 0)
      BY <1>1, <2>1, <2>2, MintFacts DEF AuthorizeLogin
    <3>2. pending' = Put(pending, NextId, record) /\ UNCHANGED codes /\ record.client = client
      BY <2>2 DEF AuthorizeLogin
    <3> HIDE DEF record
    <3> QED BY <2>1, <3>1, <3>2, GrantRequested
  <2>3. CASE AuthorizeAuto(client, redirect, v)
    <3> DEFINE record == [client |-> client, redirect |-> redirect, challenge |-> S256(v),
                          subject |-> None]
    <3>1. Extends("code", 0)
      BY <1>1, <2>1, <2>3, MintFacts DEF AuthorizeAuto
    <3>2. /\ codes' = Put(codes, NextId, record) /\ UNCHANGED pending
          /\ record.client = client /\ record.subject = None
      BY <2>3 DEF AuthorizeAuto
    <3> HIDE DEF record
    <3> QED BY <2>1, <3>1, <3>2, GrantRequested
  <2> QED BY <1>1, <2>2, <2>3
<1>2. ASSUME NEW s \in Logins, NEW id, NEW ip, LoginRead(s, id, ip)
      PROVE  [Lifecycle!Next]_State
  <2> DEFINE h == [IdleLogin EXCEPT !.pc = "hit", !.request = id, !.ip = ip,
                                    !.found = id \in DOMAIN pending]
  <2>1. login[s].record = None /\ login \in [Logins -> LoginHandler]
    BY <1>2 DEF LoginRead, GoodStep, IInv, TypeOK, HandlersSound, LoginSound
  <2>2. login' = [login EXCEPT ![s] = h] /\ UNCHANGED <<ledger, pending, codes, refresh>>
    BY <1>2 DEF LoginRead, stateVars
  <2>3. h.record = None
    BY DEF IdleLogin
  <2> HIDE DEF h
  <2>4. login'[s] = h /\ \A t \in Logins \ {s} : login'[t] = login[t]
    BY <2>1, <2>2, LoginBecomes
  <2> QED BY <2>1, <2>2, <2>3, <2>4, EmptyHanded
<1>3. ASSUME UNCHANGED <<stateVars, login>> PROVE [Lifecycle!Next]_State
  <2>1. HoldingLogins' = HoldingLogins /\ HoldingCalls' = HoldingCalls
    BY <1>3 DEF HoldingLogins, HoldingCalls
  <2> QED BY <1>3, <2>1, HoldersSleep DEF stateVars, MintsFor
<1>4. ASSUME NEW s \in Logins, NEW id \in DOMAIN pending, NEW result \in signIns \cup {None},
             CallbackConsume(s, id, result)
      PROVE  [Lifecycle!Next]_State
  <2> DEFINE h == [IdleLogin EXCEPT !.pc = "exchange", !.request = id,
                                    !.record = pending[id], !.result = result]
  <2>1. login[s].record = None /\ login \in [Logins -> LoginHandler]
    BY <1>4 DEF CallbackConsume, GoodStep, IInv, TypeOK, HandlersSound, LoginSound
  <2>2. UNCHANGED <<ledger, codes, refresh>> /\ pending' = Pop(pending, id)
    BY <1>4 DEF CallbackConsume
  <2>3. CASE UNCHANGED login
    BY <2>2, <2>3, StoreLoses
  <2>4. CASE login' = [login EXCEPT ![s] = h]
    <3>1. h.request = id /\ h.record = pending[id]
      BY DEF IdleLogin
    <3> HIDE DEF h
    <3>2. login'[s] = h /\ \A t \in Logins \ {s} : login'[t] = login[t]
      BY <2>1, <2>4, LoginBecomes
    <3> QED BY <2>1, <2>2, <3>1, <3>2, RequestTaken DEF HoldingLogins
  <2> QED BY <1>4, <2>3, <2>4 DEF CallbackConsume
<1>5. ASSUME \/ \E id \in DOMAIN pending, person \in People : EntraSignIn(id, person)
             \/ \E ip \in ClientIps : WindowEnds(ip)
      PROVE  [Lifecycle!Next]_State
  BY <1>3, <1>5 DEF EntraSignIn, WindowEnds
<1> QED BY <1>1, <1>2, <1>4, <1>5, LoginMovesGrant DEF AuthorizeNext

LEMMA TokenMovesGrant ==
    ASSUME GoodStep, TokenNext, UNCHANGED authorizeVars
    PROVE  [Lifecycle!Next]_State
<1>1. call \in [Calls -> CallHandler] /\ UNCHANGED login
  BY DEF GoodStep, IInv, TypeOK, authorizeVars
<1>2. \A c \in Calls : CallSound(c) /\ (call[c].pc = "idle" => c \notin HoldingCalls)
  BY DEF GoodStep, IInv, HandlersSound, CallSound, HoldingCalls
<1>3. ASSUME NEW c \in Calls, NEW id \in DOMAIN codes, NEW client \in ServedClients,
             NEW redirect \in RedirectUris, NEW v \in Verifiers,
             RedeemCode(c, id, client, redirect, v)
      PROVE  [Lifecycle!Next]_State
  <2>1. /\ UNCHANGED <<ledger, pending, refresh>> /\ codes' = Pop(codes, id)
        /\ c \notin HoldingCalls
    BY <1>2, <1>3 DEF RedeemCode
  <2>2. CASE UNCHANGED call
    BY <1>1, <2>1, <2>2, StoreLoses
  <2>3. CASE /\ CodeMatches(codes[id], client, redirect, v)
             /\ Exchange(c, "code", client, id, redirect, S256(v), codes[id].subject)
    <3>1. /\ call'[c].token = id /\ call'[c].client = client
          /\ call'[c].subject = codes[id].subject
          /\ \A d \in Calls \ {c} : call'[d] = call[d]
      BY <1>1, <2>3, ExchangeBecomes
    <3>2. codes[id].client = client /\ client # None
      BY <2>3, ServedAreClients, ConstantsAssumption DEF CodeMatches
    <3>3. client = IF codes[id].client = None THEN StaticClient ELSE codes[id].client
      BY <3>2
    <3> QED BY <1>1, <2>1, <3>1, <3>3, CredentialTaken
  <2> QED BY <1>3, <2>2, <2>3 DEF RedeemCode
<1>4. ASSUME NEW c \in Calls, NEW id \in DOMAIN refresh, NEW client \in ServedClients,
             RotateRefresh(c, id, client)
      PROVE  [Lifecycle!Next]_State
  <2>1. /\ UNCHANGED <<ledger, pending, codes>> /\ refresh' = Pop(refresh, id)
        /\ c \notin HoldingCalls
    BY <1>2, <1>4 DEF RotateRefresh
  <2>2. CASE UNCHANGED call
    BY <1>1, <2>1, <2>2, StoreLoses
  <2>3. CASE /\ RefreshMatches(refresh[id], client)
             /\ Exchange(c, "refresh", client, id, None, None, refresh[id].subject)
    <3>1. /\ call'[c].token = id /\ call'[c].client = client
          /\ call'[c].subject = refresh[id].subject
          /\ \A d \in Calls \ {c} : call'[d] = call[d]
      BY <1>1, <2>3, ExchangeBecomes
    <3>2. client = IF refresh[id].client = None THEN StaticClient ELSE refresh[id].client
      BY <2>3 DEF RefreshMatches
    <3> QED BY <1>1, <2>1, <3>1, <3>2, CredentialTaken
  <2> QED BY <1>4, <2>2, <2>3 DEF RotateRefresh
<1>5. ASSUME NEW c \in Calls, c \notin HoldingCalls, call'[c].token = 0, MintsFor(0),
             UNCHANGED <<pending, codes, refresh>>,
             \A d \in Calls \ {c} : call'[d] = call[d]
      PROVE  [Lifecycle!Next]_State
  <2>1. HoldingLogins' = HoldingLogins /\ HoldingCalls' = HoldingCalls
    BY <1>1, <1>5 DEF HoldingLogins, HoldingCalls
  <2>2. \A d \in HoldingCalls : call'[d] = call[d]
    BY <1>5 DEF HoldingCalls
  <2> QED BY <1>1, <1>5, <2>1, <2>2, HoldersSleep
<1>6. ASSUME NEW c \in Calls, ClientCredentials(c)
      PROVE  [Lifecycle!Next]_State
  <2>1. call'[c].token = 0 /\ \A d \in Calls \ {c} : call'[d] = call[d]
    BY <1>1, <1>6, ExchangeBecomes DEF ClientCredentials
  <2> QED BY <1>2, <1>5, <1>6, <2>1 DEF ClientCredentials, stateVars, MintsFor
<1>7. ASSUME NEW c \in Calls, CallCrashes(c)
      PROVE  [Lifecycle!Next]_State
  <2>1. call'[c].token = 0 /\ \A d \in Calls \ {c} : call'[d] = call[d]
    BY <1>1, <1>7, CallBecomes DEF CallCrashes
  <2>2. CASE c \in HoldingCalls
    BY <1>1, <1>7, <2>2, CallLetsGo DEF CallCrashes
  <2>3. CASE c \notin HoldingCalls
    BY <1>5, <1>7, <2>1, <2>3 DEF CallCrashes, stateVars, MintsFor
  <2> QED BY <2>2, <2>3
<1>8. ASSUME NEW c \in Calls, IssueAccess(c)
      PROVE  [Lifecycle!Next]_State
  <2>1. /\ UNCHANGED <<pending, codes, refresh>>
        /\ Mint("access", call[c].token, call[c].client, call[c].redirect,
                call[c].challenge, call[c].subject)
        /\ call[c].pc = "issue_access"
    BY <1>8 DEF IssueAccess
  <2>2. Extends("access", call[c].token)
    BY <2>1, CallMintsEntry DEF GoodStep, authorizeVars
  <2>3. MintsFor(0)
    BY <2>2 DEF MintsFor, Begun, Extends
  <2>4. CASE call[c].grant = "client_credentials"
    <3>1. call'[c].token = 0 /\ \A d \in Calls \ {c} : call'[d] = call[d]
      BY <1>1, <1>8, <2>4, CallBecomes DEF IssueAccess
    <3>2. c \notin HoldingCalls
      BY <1>2, <2>1, <2>4 DEF CallSound, HoldingCalls
    <3> QED BY <1>5, <2>1, <2>3, <3>1, <3>2
  <2>5. CASE call' = [call EXCEPT ![c].pc = "issue_refresh"]
    <3>1. /\ call'[c].token = call[c].token /\ call'[c].client = call[c].client
          /\ call'[c].subject = call[c].subject
          /\ \A d \in Calls \ {c} : call'[d] = call[d]
      BY <1>1, <2>5 DEF CallHandler
    <3>2. HoldingLogins' = HoldingLogins /\ HoldingCalls' = HoldingCalls
      BY <1>1, <3>1 DEF HoldingLogins, HoldingCalls
    <3>3. \A d \in HoldingCalls :
              /\ call'[d].token = call[d].token /\ call'[d].client = call[d].client
              /\ call'[d].subject = call[d].subject
      BY <3>1 DEF HoldingCalls
    <3> QED BY <1>1, <2>1, <2>3, <3>2, <3>3, HoldersSleep
  <2> QED BY <1>8, <2>4, <2>5 DEF IssueAccess
<1>9. ASSUME NEW c \in Calls, IssueRefresh(c)
      PROVE  [Lifecycle!Next]_State
  <2> DEFINE record == [client |-> call[c].client, subject |-> call[c].subject]
  <2>1. c \in HoldingCalls /\ Extends("refresh", call[c].token)
    BY <1>9, IssueRefreshStep DEF GoodStep, IInv, CallGives
  <2>2. refresh' = Put(refresh, NextId, record) /\ Finish(c) /\ UNCHANGED <<pending, codes>>
    BY <1>9 DEF IssueRefresh
  <2>3. record.client = call[c].client /\ record.subject = call[c].subject
    OBVIOUS
  <2> QED BY <1>1, <2>1, <2>2, <2>3, RefreshGiven
<1> QED BY <1>3, <1>4, <1>6, <1>7, <1>8, <1>9 DEF TokenNext, CallSteps

LEMMA ExpiryMovesGrant ==
    ASSUME GoodStep, Expire, UNCHANGED <<authorizeVars, call>>
    PROVE  [Lifecycle!Next]_State
<1>1. UNCHANGED <<ledger, login, call>>
  BY DEF Expire, authorizeVars
<1>2. PICK id : \/ /\ id \in DOMAIN pending /\ pending' = Pop(pending, id)
                   /\ UNCHANGED <<codes, refresh>>
                \/ /\ id \in DOMAIN codes /\ codes' = Pop(codes, id)
                   /\ UNCHANGED <<pending, refresh>>
                \/ /\ id \in DOMAIN refresh /\ refresh' = Pop(refresh, id)
                   /\ UNCHANGED <<pending, codes>>
  BY DEF Expire
<1> QED BY <1>1, <1>2, StoreLoses

\* The history is kept by every step.
LEMMA StepKeepsHistory ==
    ASSUME IInv, [Next]_vars
    PROVE  HistoryKept
<1>1. CASE Next
  <2>1. UNCHANGED ledger \/ \E kind, parent : Extends(kind, parent)
    <3>1. StepKind
      BY <1>1, StepSound DEF IInv
    <3> QED BY <3>1 DEF StepKind, LetsGo, LoginTakes, CallTakes, Begins, LoginGives,
                        CallMints, CallGives
  <2>2. signIns \subseteq signIns'
    <3>1. ASSUME AuthorizeNext PROVE signIns \subseteq signIns'
      BY <3>1 DEF AuthorizeNext, LoginSteps, AuthorizeLogin, AuthorizeAuto, LoginRead, LoginHit,
         LoginVerified, LoginConsume, WindowEnds, EntraSignIn, CallbackConsume,
         CallbackExchange, CallbackVet, IssueCode, LoginRefused, LoginCrashes, authorizeVars
    <3> QED BY <1>1, <3>1 DEF Next, authorizeVars
  <2> QED BY <2>1, <2>2, HistoryGrows
<1>2. CASE UNCHANGED vars
  BY <1>2, HistoryGrows DEF vars, stateVars, authorizeVars
<1> QED BY <1>1, <1>2

LEMMA StepLivesOn ==
    ASSUME IInv, Provenance, HeldStates, [Next]_vars, IInv', Provenance', HeldStates'
    PROVE  [Lifecycle!Next]_State
<1>1. GoodStep
  BY StepKeepsHistory DEF GoodStep
<1>2. CASE UNCHANGED vars
  <2>1. UNCHANGED <<stateVars, login, call>>
    BY <1>2 DEF vars, authorizeVars
  <2>2. HoldingLogins' = HoldingLogins /\ HoldingCalls' = HoldingCalls
    BY <2>1 DEF HoldingLogins, HoldingCalls
  <2> QED BY <1>1, <2>1, <2>2, HoldersSleep DEF stateVars, MintsFor
<1> QED BY <1>1, <1>2, AuthorizeMovesGrant, TokenMovesGrant, ExpiryMovesGrant DEF Next

\* At first every grant is absent, but for what an earlier deployment left.
LEMMA InitLives == Init => Lifecycle!Init
<1> SUFFICES ASSUME Init PROVE Lifecycle!Init
  OBVIOUS
<1>1. IInv /\ Provenance
  BY InitIInv, InitProvenance
<1>2. HeldStates
  BY <1>1, WhereGrantsAre
<1>3. HoldingLogins = {} /\ HoldingCalls = {} /\ HeldIds = {} /\ DOMAIN codes = {}
  BY DEF Init, StateInit, AuthorizeInit, TokenInit, IdleLogin, IdleCall, EmptyStore,
         HoldingLogins, HoldingCalls, HeldIds
<1>4. \A g : NoHolder(g) /\ ~ Begun(g) => GrantState(g) = Lifecycle!Absent
  BY <1>2 DEF HeldStates, HeldAs, Lifecycle!Absent
<1>5. CASE NothingLeft
  <2>1. Issued = {} /\ Spendable = {}
    BY <1>3, <1>5 DEF NothingLeft, Issued, EmptyStore, Spendable
  <2>2. \A g : NoHolder(g) /\ ~ Begun(g)
    BY <1>3, <2>1 DEF NoHolder, Begun
  <2> QED BY <1>4, <2>2 DEF Lifecycle!Init
\* One grant is held from the start, under identifier 1.
<1>6. ASSUME NEW held \in Lifecycle!Legacy \cup Lifecycle!LeftOver, GrantState(1) = held,
             Issued = {1}, ledger[1].root = 1, Spendable = {1}
      PROVE  Lifecycle!Init
  <2>1. \A g \in Grants \ {1} : GrantState(g) = Lifecycle!Absent
    BY <1>3, <1>4, <1>6 DEF NoHolder, Begun, RootOf
  <2>2. CASE 1 \in Grants
    <3>1. [g \in Grants |-> GrantState(g)] =
              [g \in Grants |-> IF g = 1 THEN held ELSE Lifecycle!Absent]
      BY <1>6, <2>1
    <3> QED BY <2>2, <3>1 DEF Lifecycle!Init
  <2>3. CASE 1 \notin Grants
    BY <2>1, <2>3 DEF Lifecycle!Init
  <2> QED BY <2>2, <2>3
<1>7. ASSUME NEW subject \in People \cup {None}, LegacyRefresh(subject)
      PROVE  Lifecycle!Init
  <2>1. /\ Issued = {1} /\ ledger[1].root = 1
        /\ pending = EmptyStore /\ DOMAIN refresh = {1}
        /\ refresh[1].client = None /\ refresh[1].subject = subject
    BY <1>7 DEF LegacyRefresh, Issued
  <2>2. Spendable = {1} /\ RootOf(1) = 1
    BY <1>3, <2>1 DEF Spendable, EmptyStore, RootOf
  <2>3. GrantState(1) = HeldAs("refresh", None, subject)
    BY <1>2, <2>1, <2>2 DEF HeldStates
  <2>4. HeldAs("refresh", None, subject) \in Lifecycle!Legacy
    BY DEF HeldAs, Lifecycle!Legacy
  <2> QED BY <1>6, <2>1, <2>2, <2>3, <2>4
<1>8. ASSUME NEW client \in Clients, NEW redirect \in RedirectUris, NEW v \in Verifiers,
             NEW nonce \in {0, 1}, LeftPending(client, redirect, v, nonce)
      PROVE  Lifecycle!Init
  <2>1. /\ Issued = {1} /\ ledger[1].root = 1
        /\ refresh = EmptyStore /\ DOMAIN pending = {1} /\ pending[1].client = client
    BY <1>8 DEF LeftPending, Issued
  <2>2. Spendable = {1} /\ RootOf(1) = 1
    BY <1>3, <2>1 DEF Spendable, EmptyStore, RootOf
  <2>3. GrantState(1) = HeldAs("pending", client, None)
    BY <1>2, <2>1, <2>2 DEF HeldStates
  <2>4. HeldAs("pending", client, None) \in Lifecycle!LeftOver
    BY DEF HeldAs, Lifecycle!LeftOver
  <2> QED BY <1>6, <2>1, <2>2, <2>3, <2>4
<1> QED BY <1>5, <1>7, <1>8 DEF Init, StateInit

(***************************************************************************)
(* Each grant lives the life that GrantLifecycle describes: it is never in *)
(* two places, never back from gone, and its client and subject are never  *)
(* exchanged for another's -- however the handlers of the endpoints        *)
(* interleave, crash and lose races, and whatever expires under them.      *)
(***************************************************************************)
THEOREM GrantsLive == Spec => GrantsLiveOnce
<1>1. IInv /\ [Next]_vars => IInv'
  BY StepIInv
<1>2. IInv /\ Provenance /\ [Next]_vars => Provenance'
  BY StepProvenance
<1>3. IInv => HeldStates
  BY WhereGrantsAre
<1>4. IInv /\ Provenance /\ HeldStates /\ [Next]_vars /\ IInv' /\ Provenance' /\ HeldStates'
          => [Lifecycle!Next]_([g \in Grants |-> GrantState(g)])
  BY StepLivesOn DEF State
<1> QED BY <1>1, <1>2, <1>3, <1>4, InitIInv, InitProvenance, InitLives, PTL
        DEF Spec, GrantsLiveOnce, Lifecycle!Spec

-----------------------------------------------------------------------------
(***************************************************************************)
(* Part 4: McpServer.  Whom a call to the application speaks for, from the *)
(* login to the call.                                                      *)
(***************************************************************************)

LEMMA InitServer == ServerInit => ServerIInv
<1> SUFFICES ASSUME ServerInit PROVE ServerIInv
  OBVIOUS
<1>1. GateTypeOK /\ GateFaithful
  BY DEF ServerInit, GateInit, GateTypeOK, GateCall, NoGateCall, GateFaithful
<1> QED BY <1>1, InitIInv, InitProvenance DEF ServerInit, ServerIInv

\* A step of the endpoints leaves the ledger entries the gate has read.
LEMMA EndpointsLeaveGate ==
    ASSUME ServerIInv, Next, UNCHANGED gate
    PROVE  ServerIInv'
<1>1. IInv' /\ Provenance'
  BY StepIInv, StepProvenance DEF ServerIInv
<1>2. UNCHANGED ledger \/ \E kind, parent : Extends(kind, parent)
  <2>1. StepKind
    BY StepSound DEF ServerIInv, IInv
  <2> QED BY <2>1 DEF StepKind, LetsGo, LoginTakes, CallTakes, Begins, LoginGives,
                      CallMints, CallGives
<1>3. \A i \in IssuedOf("access") : i \in IssuedOf("access")' /\ ledger'[i] = ledger[i]
  BY <1>2 DEF Extends, IssuedOf, Issued
<1>4. GateTypeOK' /\ GateFaithful'
  BY <1>3 DEF ServerIInv, GateTypeOK, GateFaithful
<1> QED BY <1>1, <1>4 DEF ServerIInv

\* An access token is gone; no invariant counts on one being live.
LEMMA AccessEndsStep ==
    ASSUME ServerIInv, NEW id \in DOMAIN access, AccessEnds(id),
           UNCHANGED <<authorizeVars, call>>
    PROVE  ServerIInv'
<1>1. /\ UNCHANGED <<ledger, pending, codes, refresh, authorizeVars, call, gate>>
      /\ access' = Pop(access, id)
  BY DEF AccessEnds
<1>2. DOMAIN access' = DOMAIN access \ {id} /\ \A i \in DOMAIN access' : access'[i] = access[i]
  BY <1>1, PopFacts
<1>3. TypeOK'
  <2>1. access' \in [DOMAIN access' -> AccessRecord]
    BY <1>1, PopType DEF ServerIInv, IInv, TypeOK
  <2> QED BY <1>1, <2>1 DEF ServerIInv, IInv, TypeOK, authorizeVars
<1>4. StoresSound'
  BY <1>1, <1>2 DEF ServerIInv, IInv, StoresSound, IssuedOf, Issued
<1>5. LedgerSound' /\ HandlersSound' /\ Unspent' /\ OneHolderPerGrant' /\ SpentOnce'
  BY <1>1 DEF ServerIInv, IInv, authorizeVars, LedgerSound, HandlersSound, LoginSound,
     CallSound, Unspent, OneHolderPerGrant, SpentOnce, Issued, IssuedOf, RootOf, Spendable,
     HeldIds, HoldingLogins, HoldingCalls
<1>6. Provenance'
  <2>1. HistoryKept /\ Issued' = Issued
    BY <1>1, HistoryGrows DEF authorizeVars, Issued
  <2> QED BY <1>1, <1>2, <2>1, ProvenanceStep DEF ServerIInv, authorizeVars
<1>7. GateTypeOK' /\ GateFaithful'
  BY <1>1 DEF ServerIInv, GateTypeOK, GateFaithful, IssuedOf, Issued
<1> QED BY <1>3, <1>4, <1>5, <1>6, <1>7 DEF ServerIInv, IInv

\* A step of the middleware changes nothing but what the gate knows.
LEMMA GateStep ==
    ASSUME ServerIInv, UNCHANGED vars, GateTypeOK', GateFaithful'
    PROVE  ServerIInv'
BY StepIInv, StepProvenance DEF ServerIInv

LEMMA GateBecomes ==
    ASSUME GateTypeOK, GateFaithful, UNCHANGED ledger, NEW g \in GateCalls, NEW now \in GateCall,
           gate' = [gate EXCEPT ![g] = now],
           now.token # 0 => /\ now.token \in IssuedOf("access")
                            /\ now.subject \in {None, ledger[now.token].subject}
    PROVE  GateTypeOK' /\ GateFaithful'
<1>1. GateTypeOK' /\ gate'[g] = now /\ \A h \in GateCalls \ {g} : gate'[h] = gate[h]
  BY DEF GateTypeOK
<1>2. IssuedOf("access")' = IssuedOf("access")
  BY DEF IssuedOf, Issued
<1> QED BY <1>1, <1>2 DEF GateFaithful

LEMMA GateMoves ==
    ASSUME ServerIInv, UNCHANGED <<authorizeVars, call>>, NEW g \in GateCalls,
           \/ \E subject \in StaticSubjects : AdmitStatic(g, subject)
           \/ \E id \in DOMAIN access : CheckValid(g, id)
           \/ ReadSubject(g)
           \/ Leave(g)
    PROVE  ServerIInv'
<1>1. UNCHANGED stateVars /\ UNCHANGED vars /\ UNCHANGED ledger
  BY DEF AdmitStatic, CheckValid, ReadSubject, Leave, vars, stateVars
<1>2. /\ GateTypeOK /\ GateFaithful /\ gate[g] \in GateCall /\ NoGateCall \in GateCall
      /\ NoGateCall.token = 0 /\ NoGateCall.subject = None
  BY DEF ServerIInv, GateTypeOK, GateCall, NoGateCall
<1>3. ASSUME NEW subject \in StaticSubjects, AdmitStatic(g, subject) PROVE ServerIInv'
  <2> DEFINE now == [pc |-> "app", token |-> 0, subject |-> subject]
  <2>1. gate' = [gate EXCEPT ![g] = now]
    BY <1>3 DEF AdmitStatic, Admit
  <2>2. now \in GateCall /\ now.token = 0
    BY GateAssumption DEF GateCall
  <2> HIDE DEF now
  <2> QED BY <1>1, <1>2, <2>1, <2>2, GateBecomes, GateStep
<1>4. ASSUME NEW id \in DOMAIN access, CheckValid(g, id) PROVE ServerIInv'
  <2> DEFINE now == [NoGateCall EXCEPT !.pc = "subject", !.token = id]
  <2>1. gate' = [gate EXCEPT ![g] = now]
    BY <1>4 DEF CheckValid
  <2>2. id \in IssuedOf("access") /\ id \in Nat
    BY DEF ServerIInv, IInv, StoresSound, IssuedOf, Issued
  <2>3. now \in GateCall /\ now.token = id /\ now.subject = None
    BY <2>2 DEF GateCall, NoGateCall
  <2> HIDE DEF now
  <2> QED BY <1>1, <1>2, <2>1, <2>2, <2>3, GateBecomes, GateStep
<1>5. CASE ReadSubject(g)
  <2> DEFINE token == gate[g].token
             now == [pc |-> "app", token |-> token, subject |-> SubjectOf(token)]
  <2>1. gate' = [gate EXCEPT ![g] = now]
    BY <1>5 DEF ReadSubject, Admit
  <2>2. token \in Nat /\ (token # 0 => token \in IssuedOf("access"))
    BY <1>2 DEF GateCall, GateFaithful
  <2>3. /\ SubjectOf(token) \in People \cup {None}
        /\ SubjectOf(token) \in {None, ledger[token].subject}
    <3>1. token \in DOMAIN access => /\ access[token] \in AccessRecord
                                     /\ access[token].subject = ledger[token].subject
      BY DEF ServerIInv, IInv, TypeOK, Provenance, RecordsFaithful, AccessFaithful
    <3> QED BY <3>1 DEF SubjectOf, AccessRecord
  <2>4. now \in GateCall /\ now.token = token /\ now.subject = SubjectOf(token)
    BY <2>2, <2>3 DEF GateCall
  <2> HIDE DEF now, token
  <2> QED BY <1>1, <1>2, <2>1, <2>2, <2>3, <2>4, GateBecomes, GateStep
<1>6. CASE Leave(g)
  BY <1>1, <1>2, <1>6, GateBecomes, GateStep DEF Leave
<1> QED BY <1>3, <1>4, <1>5, <1>6

LEMMA StepServer == ServerIInv /\ [ServerNext]_serverVars => ServerIInv'
<1> SUFFICES ASSUME ServerIInv, [ServerNext]_serverVars PROVE ServerIInv'
  OBVIOUS
<1>1. CASE UNCHANGED serverVars
  <2>1. UNCHANGED vars /\ UNCHANGED <<gate, ledger>>
    BY <1>1 DEF serverVars, vars, stateVars
  <2>2. GateTypeOK' /\ GateFaithful'
    BY <2>1 DEF ServerIInv, GateTypeOK, GateFaithful, IssuedOf, Issued
  <2> QED BY <2>1, <2>2, GateStep
<1> QED BY <1>1, EndpointsLeaveGate, GateMoves, AccessEndsStep DEF ServerNext, GateNext

\* The endpoints, the gate, and the revocation and expiry of access tokens keep
\* the inductive invariants of both, together.
THEOREM ServerInvariance == ServerSpec => []ServerIInv
BY InitServer, StepServer, PTL DEF ServerSpec

\* Whoever the application is told is calling has logged in, as the
\* configuration asks, for the very request that the caller's token goes back
\* to, whatever expired, was revoked or crashed on the way.
THEOREM CallersHaveLoggedIn == ServerSpec => []CallersLoggedIn
<1>1. ServerIInv => CallersLoggedIn
  <2> SUFFICES ASSUME ServerIInv, NEW g \in OAuthCalls, gate[g].subject # None
               PROVE  LET token == gate[g].token
                          subject == gate[g].subject
                      IN  \/ /\ Origin(token).kind = "refresh"
                             /\ subject = Origin(token).subject
                          \/ /\ LoginMode = "entra" /\ Origin(token).kind = "pending"
                             /\ [nonce |-> RootOf(token), person |-> subject] \in signIns
                             /\ UpnAllowed(subject)
                          \/ /\ LoginMode = "password" /\ Origin(token).kind = "pending"
                             /\ subject = LoginUser
    BY DEF CallersLoggedIn
  <2>1. gate[g].token \in Issued /\ gate[g].subject = ledger[gate[g].token].subject
    BY DEF OAuthCalls, ServerIInv, GateFaithful, IssuedOf
  <2>2. Vouched(gate[g].token, gate[g].subject)
    BY <2>1 DEF ServerIInv, Provenance, EntrySound
  <2> QED BY <2>2 DEF Vouched, Approved
<1> QED BY <1>1, ServerInvariance, PTL

\* With the gate beside the endpoints and access tokens that end, a grant is
\* still in one hand at a time, and nothing is spent twice.
THEOREM ServerSpendsOnce == ServerSpec => [](OneHolderPerGrant /\ SpentOnce)
<1>1. ServerIInv => OneHolderPerGrant /\ SpentOnce
  BY DEF ServerIInv, IInv
<1> QED BY <1>1, ServerInvariance, PTL

\* What tokens stand for, in the server as it is assembled.
THEOREM ServerTokensBelong == ServerSpec => []TokensBelongToRequester
<1>1. ServerIInv => TokensBelongToRequester
  BY EntriesTellOrigins DEF ServerIInv
<1> QED BY <1>1, ServerInvariance, PTL

THEOREM ServerCodesFollow == ServerSpec => []CodesFollowLogin
<1>1. ServerIInv => CodesFollowLogin
  BY CodesTellLogins DEF ServerIInv
<1> QED BY <1>1, ServerInvariance, PTL

THEOREM ServerSubjectsSurvive == ServerSpec => []SubjectSurvivesExchange
<1>1. ServerIInv => SubjectSurvivesExchange
  BY EntriesTellSubjects DEF ServerIInv
<1> QED BY <1>1, ServerInvariance, PTL

\* Whatever tokens a client that is a URL comes by, its own are a person's.
THEOREM ServerUrlDelegated == ServerSpec => []UrlClientsAreDelegated
<1>1. ServerIInv => UrlClientsAreDelegated
  BY EntriesTellSubjects DEF ServerIInv
<1> QED BY <1>1, ServerInvariance, PTL

\* The gate and the end of an access token move no grant.
LEMMA GateMovesNoGrant ==
    ASSUME ServerIInv, ServerIInv', HeldStates, HeldStates', GateNext,
           UNCHANGED <<authorizeVars, call>>
    PROVE  [Lifecycle!Next]_State
<1>1. UNCHANGED <<ledger, pending, codes, refresh, login, call, signIns>>
  BY DEF GateNext, AdmitStatic, CheckValid, ReadSubject, Leave, AccessEnds, stateVars, authorizeVars
<1>2. HistoryKept
  BY <1>1, HistoryGrows
<1>3. GoodStep
  BY <1>2 DEF GoodStep, ServerIInv
<1>4. HoldingLogins' = HoldingLogins /\ HoldingCalls' = HoldingCalls
  BY <1>1 DEF HoldingLogins, HoldingCalls
<1> QED BY <1>1, <1>3, <1>4, HoldersSleep DEF MintsFor

\* With the gate beside the endpoints, each grant lives the same life.
THEOREM ServerGrantsLive == ServerSpec => GrantsLiveOnce
<1>1. ServerInit => Lifecycle!Init
  BY InitLives DEF ServerInit
<1>2. ServerIInv => HeldStates
  BY WhereGrantsAre DEF ServerIInv
<1>3. ServerIInv /\ ServerIInv' /\ HeldStates /\ HeldStates' /\ [ServerNext]_serverVars
          => [Lifecycle!Next]_([g \in Grants |-> GrantState(g)])
  <2> SUFFICES ASSUME ServerIInv, ServerIInv', HeldStates, HeldStates', [ServerNext]_serverVars
               PROVE  [Lifecycle!Next]_State
    BY DEF State
  <2>1. CASE [Next]_vars
    BY <2>1, StepLivesOn DEF ServerIInv
  <2>2. CASE GateNext /\ UNCHANGED <<authorizeVars, call>>
    BY <2>2, GateMovesNoGrant
  <2>3. CASE UNCHANGED serverVars
    BY <2>1, <2>3 DEF serverVars
  <2> QED BY <2>1, <2>2, <2>3 DEF ServerNext
<1> QED BY <1>1, <1>2, <1>3, ServerInvariance, PTL
        DEF ServerSpec, GrantsLiveOnce, Lifecycle!Spec

\* A call of a store takes a record away, or puts one under the next identifier.
StoreMoves(store, after) ==
    \/ after = store
    \/ \E id : after = Pop(store, id)
    \/ \E record : after = Put(store, NextId, record)

LEMMA StoreMovesKeep ==
    ASSUME TypeOK, NEW store, NEW after, StoreMoves(store, after)
    PROVE  Kept(store, after)
<1>1. NextId \notin Issued
  BY DEF TypeOK, Issued, NextId
<1>2. ASSUME NEW id, after = Pop(store, id) PROVE Kept(store, after)
  BY <1>2, PopFacts DEF Kept
<1>3. ASSUME NEW record, after = Put(store, NextId, record) PROVE Kept(store, after)
  <2>1. \A i \in DOMAIN after \ {NextId} : i \in DOMAIN store /\ after[i] = store[i]
    BY <1>3 DEF Put
  <2> QED BY <1>1, <2>1 DEF Kept
<1>4. CASE after = store
  BY <1>4 DEF Kept
<1> QED BY <1>2, <1>3, <1>4 DEF StoreMoves

LEMMA StepMovesStores ==
    ASSUME [ServerNext]_serverVars
    PROVE  /\ StoreMoves(pending, pending') /\ StoreMoves(codes, codes')
           /\ StoreMoves(refresh, refresh') /\ StoreMoves(access, access')
<1> USE DEF StoreMoves
<1>1. CASE UNCHANGED stateVars
  BY <1>1 DEF stateVars
<1>2. CASE AuthorizeNext
  <2>1. ASSUME NEW client \in ServedClients, NEW redirect \in RedirectUris, NEW v \in Verifiers,
               AuthorizeLogin(client, redirect, v) \/ AuthorizeAuto(client, redirect, v)
        PROVE  /\ StoreMoves(pending, pending') /\ StoreMoves(codes, codes')
               /\ StoreMoves(refresh, refresh') /\ StoreMoves(access, access')
    BY <2>1 DEF AuthorizeLogin, AuthorizeAuto
  <2>2. ASSUME NEW s \in Logins, LoginConsume(s) \/ IssueCode(s)
        PROVE  /\ StoreMoves(pending, pending') /\ StoreMoves(codes, codes')
               /\ StoreMoves(refresh, refresh') /\ StoreMoves(access, access')
    BY <2>2 DEF LoginConsume, IssueCode, stateVars
  <2>3. ASSUME NEW s \in Logins, NEW id, NEW result, CallbackConsume(s, id, result)
        PROVE  /\ StoreMoves(pending, pending') /\ StoreMoves(codes, codes')
               /\ StoreMoves(refresh, refresh') /\ StoreMoves(access, access')
    BY <2>3 DEF CallbackConsume
  <2>4. ASSUME NEW s \in Logins,
               \/ \E id, ip : LoginRead(s, id, ip)
               \/ LoginHit(s) \/ LoginVerified(s) \/ CallbackExchange(s) \/ CallbackVet(s)
               \/ LoginRefused(s) \/ LoginCrashes(s)
        PROVE  UNCHANGED stateVars
    BY <2>4 DEF LoginRead, LoginHit, LoginVerified, CallbackExchange, CallbackVet,
                LoginRefused, LoginCrashes
  <2>5. ASSUME \/ \E id, person : EntraSignIn(id, person)
               \/ \E ip : WindowEnds(ip)
        PROVE  UNCHANGED stateVars
    BY <2>5 DEF EntraSignIn, WindowEnds
  <2> QED BY <1>1, <1>2, <2>1, <2>2, <2>3, <2>4, <2>5 DEF AuthorizeNext, LoginSteps
<1>3. CASE TokenNext
  <2>1. ASSUME NEW c, NEW id, NEW client, NEW redirect, NEW v,
               \/ RedeemCode(c, id, client, redirect, v) \/ RotateRefresh(c, id, client)
               \/ ClientCredentials(c) \/ CallSteps(c) \/ CallCrashes(c)
        PROVE  /\ StoreMoves(pending, pending') /\ StoreMoves(codes, codes')
               /\ StoreMoves(refresh, refresh') /\ StoreMoves(access, access')
    BY <2>1 DEF RedeemCode, RotateRefresh, ClientCredentials, CallSteps, IssueAccess,
                IssueRefresh, CallCrashes, stateVars
  <2> QED BY <1>3, <2>1 DEF TokenNext
<1>4. CASE Expire
  BY <1>4 DEF Expire
<1>5. CASE GateNext
  BY <1>1, <1>5 DEF GateNext, AdmitStatic, CheckValid, ReadSubject, Leave, AccessEnds
<1> QED BY <1>1, <1>2, <1>3, <1>4, <1>5 DEF ServerNext, Next, serverVars, vars

\* No call of a store rewrites a record or brings one back: a token keeps its
\* client and subject for as long as it lives, and what is spent, expired or
\* revoked is gone for good.
THEOREM RecordsFinal == ServerSpec => RecordsAreFinal
<1>1. ServerIInv /\ [ServerNext]_serverVars =>
          [/\ Kept(pending, pending') /\ Kept(codes, codes')
           /\ Kept(refresh, refresh') /\ Kept(access, access')]_serverVars
  BY StepMovesStores, StoreMovesKeep DEF ServerIInv, IInv
<1> QED BY <1>1, ServerInvariance, PTL DEF ServerSpec, RecordsAreFinal

=============================================================================
