------------------------------ MODULE McpServer ------------------------------
(***************************************************************************)
(* The server as an application assembles it: the OAuth endpoints, and the *)
(* bearer gate in front of its own paths, over one access-token store.     *)
(***************************************************************************)
EXTENDS OAuthServer, BearerGate

serverVars == <<vars, gate>>

ServerInit == Init /\ GateInit

ServerNext ==
    \/ Next /\ UNCHANGED gate
    \/ GateNext /\ UNCHANGED <<authorizeVars, call>>

ServerSpec == ServerInit /\ [][ServerNext]_serverVars

\* Calls that the gate has let through on an access token of this server.
OAuthCalls == {g \in GateCalls : gate[g].pc = "app" /\ gate[g].token # 0}

\* Whoever the application believes is calling has logged in for the very
\* request that the caller's token goes back to, through code, exchange and
\* every rotation since: under Entra that person signed in for it and is
\* allowed, under the password login it is the configured user.  A token of
\* client_credentials, or of a server without a login, speaks for no one.
CallersLoggedIn ==
    \A g \in OAuthCalls :
        LET token == gate[g].token
            subject == gate[g].subject
        IN  subject # None =>
                \/ /\ Origin(token).kind = "refresh"
                   /\ subject = Origin(token).subject
                \/ /\ LoginMode = "entra" /\ Origin(token).kind = "pending"
                   /\ [nonce |-> RootOf(token), person |-> subject] \in signIns
                   /\ UpnAllowed(subject)
                \/ /\ LoginMode = "password" /\ Origin(token).kind = "pending"
                   /\ subject = LoginUser

\* What a step leaves in a store was there before, as it is, or is new: no
\* handler writes back what it read, and what is gone (spent, expired or
\* revoked) does not return.
Kept(store, after) ==
    \A i \in DOMAIN after : i \in Issued => i \in DOMAIN store /\ after[i] = store[i]

RecordsAreFinal ==
    [][/\ Kept(pending, pending') /\ Kept(codes, codes')
       /\ Kept(refresh, refresh') /\ Kept(access, access')]_serverVars

\* README.md:144-146: "o BearerAuthMiddleware a expoe por
\* get_subject(request) em toda chamada ao MCP": the identity bound to a
\* token is exposed in every call that the token admits.
IdentityExposed ==
    \A g \in OAuthCalls :
        gate[g].subject = ledger[gate[g].token].subject

\* What the gate knows of a token is what the token was minted with, or, of
\* one that lapsed between the two questions, nothing.
GateFaithful ==
    \A g \in GateCalls :
        gate[g].token # 0 =>
            /\ gate[g].token \in IssuedOf("access")
            /\ gate[g].subject \in {None, ledger[gate[g].token].subject}

\* Why CallersLoggedIn holds: an inductive invariant.
ServerIInv == IInv /\ Provenance /\ GateTypeOK /\ GateFaithful

=============================================================================
