----------------------------- MODULE OAuthServer -----------------------------
(***************************************************************************)
(* The authorization server: the authorize and token endpoints over one    *)
(* set of stores, as build_oauth_endpoints mounts them.                    *)
(***************************************************************************)
EXTENDS AuthorizeEndpoint, TokenEndpoint

vars == <<stateVars, authorizeVars, call>>

Init == StateInit /\ AuthorizeInit /\ TokenInit

Next ==
    \/ AuthorizeNext /\ UNCHANGED call
    \/ TokenNext /\ UNCHANGED authorizeVars
    \/ Expire /\ UNCHANGED <<authorizeVars, call>>

Spec == Init /\ [][Next]_vars

\* A running handler goes on: Starlette resumes it when its await is done,
\* and every await in it is bounded by an HTTP timeout or by scrypt itself.
Fairness ==
    /\ \A s \in Logins : WF_vars(LoginSteps(s) /\ UNCHANGED call)
    /\ \A c \in Calls : WF_vars(CallSteps(c) /\ UNCHANGED authorizeVars)

FairSpec == Spec /\ Fairness

-----------------------------------------------------------------------------
(* Types *)

\* Every variable has the shape its Python counterpart is declared with, and
\* only identifiers that were minted are live.
TypeOK ==
    /\ ledger \in Seq(LedgerEntry)
    /\ pending \in [DOMAIN pending -> PendingRecord]
    /\ codes \in [DOMAIN codes -> CodeRecord]
    /\ refresh \in [DOMAIN refresh -> RefreshRecord]
    /\ access \in [DOMAIN access -> AccessRecord]
    /\ login \in [Logins -> LoginHandler]
    /\ attempts \in [ClientIps -> 0 .. MaxAttempts + 1]
    /\ guesses \in [ClientIps -> Nat]
    /\ signIns \subseteq SignIn
    /\ call \in [Calls -> CallHandler]

-----------------------------------------------------------------------------
(* Who holds a grant *)

RootOf(id) == ledger[id].root

\* A login handler holds a request once it has consumed it, a token handler
\* the credential it was called with.
HoldingLogins == {s \in Logins : login[s].record # None}
HoldingCalls == {c \in Calls : call[c].token # 0}

Spendable == DOMAIN pending \cup DOMAIN codes \cup DOMAIN refresh
HeldIds == {login[s].request : s \in HoldingLogins} \cup {call[c].token : c \in HoldingCalls}

\* A grant is in one place at a time: two live credentials never descend
\* from the same request, nor does one live beside a handler that consumed
\* its like, and no two handlers hold the same grant.  It is what GETDEL in
\* place of GET-then-DEL buys when two submissions of one form, two
\* deliveries of one callback or two uses of one token race.
OneHolderPerGrant ==
    /\ \A i, j \in Spendable \cup HeldIds : RootOf(i) = RootOf(j) => i = j
    /\ Spendable \cap HeldIds = {}
    /\ \A s, t \in HoldingLogins : login[s].request = login[t].request => s = t
    /\ \A c, d \in HoldingCalls : call[c].token = call[d].token => c = d

\* No identifier is ever exchanged twice: a request yields one code, a code
\* or refresh token yields one access token and one refresh token, whatever
\* crashed or expired since.
SpentOnce ==
    \A i, j \in Issued :
        /\ ledger[i].kind = ledger[j].kind
        /\ ledger[i].parent = ledger[j].parent
        /\ ledger[i].parent # 0
        => i = j

-----------------------------------------------------------------------------
(* What a token stands for *)

Origin(id) == ledger[RootOf(id)]

\* A code or token belongs to the client whose GET /authorize began the
\* grant; what descends from a legacy refresh token is the static client's.
TokensBelongToRequester ==
    \A i \in Issued :
        \/ ledger[i].client = Origin(i).client
        \/ Origin(i).client = None /\ ledger[i].client = StaticClient

\* Whoever exchanged a code named the redirect URI of the original request
\* and knew the verifier of its challenge.
ExchangesProveRequest ==
    \A i \in Issued :
        ledger[i].redirect # None =>
            /\ ledger[i].redirect = Origin(i).redirect
            /\ ledger[i].challenge = Origin(i).challenge

\* Behind every code that carries a subject is a login: under Entra, that
\* very person signed in for this very request, and is on the allowlist;
\* under the password login it is the configured user.
CodesFollowLogin ==
    \A i \in IssuedOf("code") :
        CASE LoginMode = "entra" ->
                 /\ [nonce |-> ledger[i].parent, person |-> ledger[i].subject] \in signIns
                 /\ UpnAllowed(ledger[i].subject)
          [] LoginMode = "password" ->
                 ledger[i].parent # 0 /\ ledger[i].subject = LoginUser
          [] LoginMode = "none" ->
                 ledger[i].parent = 0 /\ ledger[i].subject = None

\* A subject survives every exchange and rotation: an access token speaks
\* for the person who approved the grant, to the last refresh.
SubjectSurvivesExchange ==
    \A i \in IssuedOf("access") \cup IssuedOf("refresh") :
        ledger[i].parent # 0 => ledger[i].subject = ledger[ledger[i].parent].subject

\* Metadata-document clients are user-delegated: whatever tokens of others they
\* come by, the ones without a person that earlier versions left included, each
\* access token that is minted for them speaks for a person.
UrlClientsAreDelegated ==
    \A i \in IssuedOf("access") :
        ledger[i].client \in UrlClients => ledger[i].subject \in People

\* Within one window of an address at most MaxAttempts of its submissions
\* reach the credential check, however many are in flight.
GuessesLimited == \A ip \in ClientIps : guesses[ip] <= MaxAttempts

-----------------------------------------------------------------------------
(* The life of a grant, as GrantLifecycle has it *)

Grants == 1 .. MaxIssued

HeldAs(place, client, subject) == [place |-> place, client |-> client, subject |-> subject]

\* Who holds grant g, and for which client and subject according to the
\* record or the local variables that a handler would go on with.
Holders(g) ==
    {<<i, HeldAs("pending", pending[i].client, None)>> :
        i \in {i \in DOMAIN pending : RootOf(i) = g}}
    \cup {<<i, HeldAs("code", codes[i].client, codes[i].subject)>> :
        i \in {i \in DOMAIN codes : RootOf(i) = g}}
    \cup {<<i, HeldAs("refresh", refresh[i].client, refresh[i].subject)>> :
        i \in {i \in DOMAIN refresh : RootOf(i) = g}}
    \cup {<<s, HeldAs("login", login[s].record.client, login[s].subject)>> :
        s \in {s \in HoldingLogins : RootOf(login[s].request) = g}}
    \cup {<<c, HeldAs("exchange", call[c].client, call[c].subject)>> :
        c \in {c \in HoldingCalls : RootOf(call[c].token) = g}}

\* Client credentials begin no grant.
Begun(g) == g \in Issued /\ RootOf(g) = g /\ ledger[g].kind # "access"

GrantState(g) ==
    LET holders == Holders(g)
    IN  CASE holders = {} /\ ~ Begun(g) -> HeldAs("absent", None, None)
          [] holders = {} /\ Begun(g) -> HeldAs("gone", None, None)
          [] \E h \in holders : holders = {h} -> (CHOOSE h \in holders : TRUE)[2]
          [] OTHER -> HeldAs("duplicated", None, None)

Lifecycle == INSTANCE GrantLifecycle WITH
    Subjects <- People \cup {None},
    grant <- [g \in Grants |-> GrantState(g)]

\* Through the stores and handlers, each grant lives the life that
\* GrantLifecycle describes: never in two places, never back from gone,
\* its client and its subject never exchanged for another's.
GrantsLiveOnce == Lifecycle!Spec

-----------------------------------------------------------------------------
(* Why it holds: the inductive invariant behind the properties above. *)

\* Identifiers descend from earlier ones, and share the root of their parent.
LedgerSound ==
    \A i \in Issued :
        /\ ledger[i].parent < i
        /\ ledger[i].root \in 1 .. i
        /\ ledger[i].parent = 0 => ledger[i].root = i
        /\ ledger[i].parent # 0 => ledger[i].root = RootOf(ledger[i].parent)

\* Each store holds identifiers of its own kind.
StoresSound ==
    /\ DOMAIN pending \subseteq IssuedOf("pending")
    /\ DOMAIN codes \subseteq IssuedOf("code")
    /\ DOMAIN refresh \subseteq IssuedOf("refresh")
    /\ DOMAIN access \subseteq IssuedOf("access")

\* A handler holds what it consumed, for as long as it may exchange it.
LoginSound(s) ==
    /\ login[s].pc \in {"exchange", "vet", "issue"} <=> login[s].record # None
    /\ login[s].record # None => login[s].request \in IssuedOf("pending")
    /\ login[s].pc \in {"hit", "verify", "consume"} => login[s].ip # None
    /\ login[s].pc \in {"exchange", "vet"} => login[s].result # None

CallSound(c) ==
    /\ call[c].token # 0 => call[c].token \in IssuedOf("code") \cup IssuedOf("refresh")
    /\ call[c].pc = "idle" => call[c].token = 0
    /\ call[c].pc = "issue_refresh" => call[c].token # 0
    /\ call[c].pc = "issue_access" =>
          (call[c].token = 0 <=> call[c].grant = "client_credentials")

HandlersSound == (\A s \in Logins : LoginSound(s)) /\ (\A c \in Calls : CallSound(c))

\* What can still be exchanged has not been: it has no descendants yet, but
\* for the access token of an exchange that is half done.
Unspent ==
    \A i \in Issued :
        /\ ledger[i].parent \notin Spendable
        /\ \A s \in HoldingLogins : ledger[i].parent # login[s].request
        /\ \A c \in HoldingCalls :
            ledger[i].parent = call[c].token =>
                call[c].pc = "issue_refresh" /\ ledger[i].kind = "access"

IInv ==
    /\ TypeOK
    /\ LedgerSound
    /\ StoresSound
    /\ HandlersSound
    /\ Unspent
    /\ OneHolderPerGrant
    /\ SpentOnce

-----------------------------------------------------------------------------
(* Why tokens stand for what they do: the same for the properties of what a *)
(* token stands for.                                                        *)

\* A live record says what its identifier was minted for.
PendingFaithful(i) ==
    /\ ledger[i].parent = 0
    /\ pending[i].client = ledger[i].client
    /\ pending[i].redirect = ledger[i].redirect
    /\ pending[i].challenge = ledger[i].challenge
    /\ pending[i].nonce \in {0, i}

CodeFaithful(i) ==
    /\ codes[i].client = ledger[i].client
    /\ codes[i].redirect = ledger[i].redirect
    /\ codes[i].challenge = ledger[i].challenge
    /\ codes[i].subject = ledger[i].subject

RefreshFaithful(i) ==
    refresh[i].client = ledger[i].client /\ refresh[i].subject = ledger[i].subject

AccessFaithful(i) == access[i].subject = ledger[i].subject

RecordsFaithful ==
    /\ \A i \in DOMAIN pending : PendingFaithful(i)
    /\ \A i \in DOMAIN codes : CodeFaithful(i)
    /\ \A i \in DOMAIN refresh : RefreshFaithful(i)
    /\ \A i \in DOMAIN access : AccessFaithful(i)

\* The person has logged in for request id, in the way that is configured.
Approved(id, person) ==
    \/ /\ LoginMode = "entra"
       /\ [nonce |-> id, person |-> person] \in signIns
       /\ UpnAllowed(person)
    \/ LoginMode = "password" /\ person = LoginUser

\* A login goes on with the record of its request, and issues a code for whom
\* has approved it.
LoginFaithful(s) ==
    LET id == login[s].request
        record == login[s].record
    IN  /\ login[s].pc \in {"hit", "verify", "consume"} => LoginMode = "password"
        /\ login[s].pc \in {"exchange", "vet"} =>
               /\ LoginMode = "entra" /\ login[s].result \in signIns
               /\ record.nonce = id /\ login[s].subject = None
        /\ login[s].pc = "issue" => Approved(id, login[s].subject)
        /\ record # None =>
               /\ ledger[id].parent = 0
               /\ record.client = ledger[id].client
               /\ record.redirect = ledger[id].redirect
               /\ record.challenge = ledger[id].challenge

\* A client may present what was minted for it, and the static client also what
\* was minted for none.
MayPresent(client, id) ==
    client = ledger[id].client \/ (ledger[id].client = None /\ client = StaticClient)

\* An exchange goes on with the subject of the credential, for a client that may
\* present it.
CallFaithful(c) ==
    LET id == call[c].token
    IN  call[c].pc # "idle" =>
            /\ id = 0 => /\ call[c].client = StaticClient
                         /\ call[c].subject = None /\ call[c].redirect = None
            /\ id # 0 => /\ MayPresent(call[c].client, id)
                         /\ call[c].subject = ledger[id].subject
            /\ call[c].redirect # None =>
                   /\ call[c].redirect = ledger[id].redirect
                   /\ call[c].challenge = ledger[id].challenge
            /\ call[c].client \in UrlClients => call[c].subject \in People

HandlersFaithful ==
    (\A s \in Logins : LoginFaithful(s)) /\ (\A c \in Calls : CallFaithful(c))

\* The subject has approved the request that the grant of id began with; or it
\* comes from before this deployment.
Vouched(id, subject) ==
    \/ Origin(id).kind = "refresh" /\ subject = Origin(id).subject
    \/ Origin(id).kind = "pending" /\ Approved(RootOf(id), subject)

\* What is minted for a code, and then for the tokens.
CodeSound(i) ==
    IF ledger[i].parent = 0 THEN LoginMode = "none" /\ ledger[i].subject = None
    ELSE Approved(ledger[i].parent, ledger[i].subject)

TokenSound(i) ==
    /\ ledger[i].parent # 0 => ledger[i].subject = ledger[ledger[i].parent].subject
    /\ ledger[i].client \in UrlClients => ledger[i].subject \in People

EntrySound(i) ==
    /\ Origin(i).parent = 0
    /\ Origin(i).kind = "access" => ledger[i].kind = "access"
    /\ MayPresent(ledger[i].client, RootOf(i))
    /\ ledger[i].redirect # None =>
           /\ ledger[i].redirect = Origin(i).redirect
           /\ ledger[i].challenge = Origin(i).challenge
    /\ ledger[i].subject # None => Vouched(i, ledger[i].subject)
    /\ ledger[i].kind = "code" => CodeSound(i)
    /\ ledger[i].kind \in {"access", "refresh"} => TokenSound(i)

\* With IInv, an inductive invariant.
Provenance ==
    /\ RecordsFaithful
    /\ HandlersFaithful
    /\ \A i \in Issued : EntrySound(i)

\* No more guesses than hits were counted.
GuessesCounted ==
    \A ip \in ClientIps : guesses[ip] <= MaxAttempts /\ guesses[ip] <= attempts[ip]

-----------------------------------------------------------------------------
(* Liveness *)

\* Every submission, callback and token request is answered.
RequestsAnswered ==
    /\ \A s \in Logins : login[s].pc # "idle" ~> login[s].pc = "idle"
    /\ \A c \in Calls : call[c].pc # "idle" ~> call[c].pc = "idle"

=============================================================================
