----------------------------- MODULE OneTimeStore -----------------------------
(***************************************************************************)
(* What the endpoints and the gate take for granted of a store: a record   *)
(* put under a fresh identifier is found under it until its deadline, and  *)
(* no longer; it is found unaltered; and a caller who takes it is the last *)
(* to get it.  The deadline is the end of its time to live; a store may    *)
(* count the moment of the deadline itself in or out.                      *)
(*                                                                         *)
(* The stores promise no more: one that loses everything at once (the end  *)
(* of the process it lives in) has kept its promise.                       *)
(***************************************************************************)
EXTENDS Naturals, Functions

CONSTANTS
    Ids,
    Records,
    None,
    Ttl

VARIABLES
    clock,
    live,           \* what can be found, and when it is gone
    issued,         \* identifiers that are not fresh any more
    answer          \* what the latest call has returned

storeVars == <<clock, live, issued, answer>>

Nothing == [call |-> "none", id |-> None, record |-> None]
Answered(call, id, record) == answer' = [call |-> call, id |-> id, record |-> record]
Without(store, id) == Restrict(store, DOMAIN store \ {id})

Init ==
    /\ clock = 0
    /\ live = [id \in {} |-> None]
    /\ issued = {}
    /\ answer = Nothing

Issue(id, record) ==
    /\ id \notin issued
    /\ issued' = issued \cup {id}
    /\ \E until \in {clock + Ttl, clock + Ttl + 1} :
           live' = [i \in DOMAIN live \cup {id} |->
                       IF i = id THEN [record |-> record, until |-> until] ELSE live[i]]
    /\ Answered("issue", id, record)
    /\ UNCHANGED clock

Look(id) ==
    /\ id \in DOMAIN live
    /\ Answered("look", id, live[id].record)
    /\ UNCHANGED <<clock, live, issued>>

Take(id) ==
    /\ id \in DOMAIN live
    /\ live' = Without(live, id)
    /\ Answered("take", id, live[id].record)
    /\ UNCHANGED <<clock, issued>>

Miss(call, id) ==
    /\ id \notin DOMAIN live
    /\ Answered(call, id, None)
    /\ UNCHANGED <<clock, live, issued>>

Revoke(id) ==
    /\ live' = Without(live, id)
    /\ Answered("revoke", id, None)
    /\ UNCHANGED <<clock, issued>>

Forget ==
    /\ live' = [id \in {} |-> None]
    /\ answer' = Nothing
    /\ UNCHANGED <<clock, issued>>

Tick ==
    /\ clock' = clock + 1
    /\ live' = Restrict(live, {id \in DOMAIN live : clock' < live[id].until})
    /\ UNCHANGED <<issued, answer>>

Next ==
    \/ \E id \in Ids, record \in Records : Issue(id, record)
    \/ \E id \in Ids :
           Look(id) \/ Take(id) \/ Miss("look", id) \/ Miss("take", id) \/ Revoke(id)
    \/ Forget
    \/ Tick

Spec == Init /\ [][Next]_storeVars

=============================================================================
