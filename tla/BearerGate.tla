----------------------------- MODULE BearerGate -----------------------------
(***************************************************************************)
(* auth.py: BearerAuthMiddleware, which admits calls to the protected      *)
(* paths and tells the application who calls.                              *)
(*                                                                         *)
(* It asks the access-token store twice, is_valid and then subject_of, and *)
(* the token may lapse in between: over Redis these are two commands, and  *)
(* each call of a memory store reads the clock anew.                       *)
(***************************************************************************)
EXTENDS OAuthState

CONSTANTS
    StaticSubjects,     \* the subjects of the static tokens; None: a token of no one
    GateCalls           \* calls to protected paths that run at once

ASSUME GateAssumption == StaticSubjects \subseteq People \cup {None}

VARIABLE gate   \* gate[g]: the local variables of the middleware for call g

\* token 0 is a static token, or none; subject is what get_subject returns
\* to the application.
GateCall == [pc : {"idle", "subject", "app"}, token : Nat, subject : People \cup {None}]

NoGateCall == [pc |-> "idle", token |-> 0, subject |-> None]

GateTypeOK == gate \in [GateCalls -> GateCall]

Admit(g, token, subject) ==
    gate' = [gate EXCEPT ![g] = [pc |-> "app", token |-> token, subject |-> subject]]

-----------------------------------------------------------------------------

\* The call carries a static token; the store is not asked.
AdmitStatic(g, subject) ==
    /\ gate[g].pc = "idle"
    /\ Admit(g, 0, subject)
    /\ UNCHANGED stateVars

\* oauth_store.is_valid; a call whose token is not valid is answered 401.
CheckValid(g, id) ==
    /\ gate[g].pc = "idle"
    /\ id \in DOMAIN access
    /\ gate' = [gate EXCEPT ![g] = [NoGateCall EXCEPT !.pc = "subject", !.token = id]]
    /\ UNCHANGED stateVars

\* oauth_store.subject_of; a token that is gone has no subject.
SubjectOf(id) == IF id \in DOMAIN access THEN access[id].subject ELSE None

ReadSubject(g) ==
    /\ gate[g].pc = "subject"
    /\ Admit(g, gate[g].token, SubjectOf(gate[g].token))
    /\ UNCHANGED stateVars

\* The application answers, a store raises, or the replica stops.
Leave(g) ==
    /\ gate[g].pc # "idle"
    /\ gate' = [gate EXCEPT ![g] = NoGateCall]
    /\ UNCHANGED stateVars

\* An access token expires, or the application revokes it.
AccessEnds(id) ==
    /\ access' = Pop(access, id)
    /\ UNCHANGED <<ledger, pending, codes, refresh, gate>>

-----------------------------------------------------------------------------

GateInit == gate = [g \in GateCalls |-> NoGateCall]

GateNext ==
    \/ \E g \in GateCalls :
           \/ \E subject \in StaticSubjects : AdmitStatic(g, subject)
           \/ \E id \in DOMAIN access : CheckValid(g, id)
           \/ ReadSubject(g)
           \/ Leave(g)
    \/ \E id \in DOMAIN access : AccessEnds(id)

=============================================================================
