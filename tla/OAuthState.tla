------------------------------ MODULE OAuthState ------------------------------
(***************************************************************************)
(* The state the OAuth endpoints share: the pending-authorization, code,   *)
(* refresh-token and access-token stores of an OAuthStores bundle.         *)
(*                                                                         *)
(* A store is a function from the identifiers that are live in it to their *)
(* records.  One store call (a Redis command, or one method of a memory    *)
(* store) is one atomic step, so that handlers of several replicas over    *)
(* one Redis interleave between any two calls; a single process over the   *)
(* memory stores has a subset of these behaviours.                         *)
(*                                                                         *)
(* A TTL is a choice: a live identifier may expire at any moment.  Every   *)
(* ordering of expirations and handler steps is thereby included, whatever *)
(* the TTLs are.                                                           *)
(*                                                                         *)
(* An identifier (secrets.token_urlsafe) is its position in the ledger, a  *)
(* history variable that records what each identifier was minted for and   *)
(* which no handler reads.                                                 *)
(***************************************************************************)
EXTENDS Naturals, Sequences, FiniteSets, Functions

CONSTANTS
    StaticClient,   \* settings.client_id
    UrlClients,     \* client identifiers that are metadata-document URLs
    RedirectUris,
    Verifiers,      \* PKCE code verifiers
    People,         \* subjects a login can establish
    None,           \* Python's None, and the empty string where it means absent
    LoginMode,      \* settings.login_mode
    CimdEnabled,    \* settings.cimd_enabled, with a non-empty allowed_hosts
    MaxGrants,      \* bound: no grant is begun once this many were
    MaxIssued       \* bound: no request is accepted once this many ids were minted

Clients == {StaticClient} \cup UrlClients
LoginModes == {"none", "password", "entra"}

ASSUME ConstantsAssumption ==
    /\ StaticClient \notin UrlClients
    /\ None \notin Clients \cup People \cup RedirectUris
    /\ LoginMode \in LoginModes
    /\ CimdEnabled \in BOOLEAN
    /\ MaxGrants \in Nat
    /\ MaxIssued \in Nat

VARIABLES
    ledger,     \* history: what every identifier was minted for
    pending,    \* live pending authorization requests
    codes,      \* live authorization codes
    refresh,    \* live refresh tokens
    access      \* access tokens minted

stateVars == <<ledger, pending, codes, refresh, access>>

\* settings.cimd_active: URL clients are served only on top of a login.
CimdActive == CimdEnabled /\ LoginMode # "none"

ServedClients == IF CimdActive THEN Clients ELSE {StaticClient}

\* The code_challenge of a verifier; only the S256 method is ever stored.
S256(v) == <<"S256", v>>
Challenges == {S256(v) : v \in Verifiers}

-----------------------------------------------------------------------------
(* Records of the stores, and of the ledger. *)

\* nonce 0 stands for the empty nonce of the password mode.
PendingRecord == [client : Clients, redirect : RedirectUris,
                  challenge : Challenges, nonce : Nat]
CodeRecord == [client : Clients, redirect : RedirectUris,
               challenge : Challenges, subject : People \cup {None}]
RefreshRecord == [client : Clients \cup {None}, subject : People \cup {None}]
AccessRecord == [subject : People \cup {None}]

(* parent is the identifier consumed to mint this one (0 if none) and root *)
(* the first identifier of the same grant.  client, redirect and challenge *)
(* are what the request that minted it presented.                          *)
LedgerEntry == [kind : {"pending", "code", "access", "refresh"},
                parent : Nat, root : Nat,
                client : Clients \cup {None},
                redirect : RedirectUris \cup {None},
                challenge : Challenges \cup {None},
                subject : People \cup {None}]

Issued == 1 .. Len(ledger)
NextId == Len(ledger) + 1
Open == Len(ledger) < MaxIssued
OpenToGrants == Open /\ Cardinality({i \in Issued : ledger[i].parent = 0}) < MaxGrants
IssuedOf(kind) == {i \in Issued : ledger[i].kind = kind}

-----------------------------------------------------------------------------
(* Store calls. *)

\* SET key value EX ttl, or an assignment to the dictionary.
Put(store, id, record) ==
    [i \in DOMAIN store \cup {id} |-> IF i = id THEN record ELSE store[i]]

\* Faulty: GET, with a DEL that comes too late for a concurrent reader.
PopByGet(store, id) == store

\* GETDEL, or dict.pop after the purge: read and removed in one step.
Pop(store, id) == Restrict(store, DOMAIN store \ {id})

\* The identifier NextId is minted with the given parent.
Mint(kind, parent, client, redirect, challenge, subject) ==
    ledger' = Append(ledger,
        [kind |-> kind, parent |-> parent,
         root |-> IF parent = 0 THEN NextId ELSE ledger[parent].root,
         client |-> client, redirect |-> redirect,
         challenge |-> challenge, subject |-> subject])

-----------------------------------------------------------------------------
(* The stores start empty, or hold what an earlier deployment left in      *)
(* Redis: a refresh token minted before 0.4.0, bound to no client, or a    *)
(* request left pending under the other login mode (nonce 0: the password  *)
(* page, which sends none).                                                *)

EmptyStore == [i \in {} |-> None]

NothingLeft ==
    /\ ledger = <<>>
    /\ pending = EmptyStore
    /\ refresh = EmptyStore

LegacyRefresh(subject) ==
    /\ ledger = <<[kind |-> "refresh", parent |-> 0, root |-> 1,
                   client |-> None, redirect |-> None, challenge |-> None,
                   subject |-> subject]>>
    /\ pending = EmptyStore
    /\ refresh = [i \in {1} |-> [client |-> None, subject |-> subject]]

LeftPending(client, redirect, v, nonce) ==
    /\ ledger = <<[kind |-> "pending", parent |-> 0, root |-> 1,
                   client |-> client, redirect |-> redirect,
                   challenge |-> S256(v), subject |-> None]>>
    /\ pending = [i \in {1} |-> [client |-> client, redirect |-> redirect,
                                 challenge |-> S256(v), nonce |-> nonce]]
    /\ refresh = EmptyStore

StateInit ==
    /\ codes = EmptyStore
    /\ access = EmptyStore
    /\ \/ NothingLeft
       \/ \E subject \in People \cup {None} : LegacyRefresh(subject)
       \/ \E client \in Clients, redirect \in RedirectUris, v \in Verifiers, nonce \in {0, 1} :
              LeftPending(client, redirect, v, nonce)

\* A TTL lapses.  The memory stores purge lazily, before every read.  The
\* endpoints only ever add to the access store: BearerGate is its reader,
\* and models its expiry.
Expire ==
    /\ \/ \E id \in DOMAIN pending :
              pending' = Pop(pending, id) /\ UNCHANGED <<codes, refresh>>
       \/ \E id \in DOMAIN codes :
              codes' = Pop(codes, id) /\ UNCHANGED <<pending, refresh>>
       \/ \E id \in DOMAIN refresh :
              refresh' = Pop(refresh, id) /\ UNCHANGED <<pending, codes>>
    /\ UNCHANGED <<ledger, access>>

=============================================================================
