---------------------------- MODULE GrantLifecycle ----------------------------
(***************************************************************************)
(* What the OAuth endpoints promise of one grant: the permission that one  *)
(* person (or, without a login, nobody) gives one client.                  *)
(*                                                                         *)
(* At every moment a grant is in one place.  It begins as a request that   *)
(* waits for a login, as a code when there is no login, or as a refresh    *)
(* token of an earlier deployment; it passes from hand to hand, never      *)
(* copied; and once gone it never returns.  The client it was requested    *)
(* for never changes, and neither does its subject once a login has set it.*)
(***************************************************************************)
CONSTANTS
    Grants,         \* identifiers of grants
    Clients,
    StaticClient,
    Subjects,       \* what a login establishes, and None
    None

VARIABLE grant      \* grant[g]: Absent, Gone, or who holds it for whom

Places == {"pending", "login", "code", "exchange", "refresh"}

Held == [place : Places, client : Clients \cup {None}, subject : Subjects]
Absent == [place |-> "absent", client |-> None, subject |-> None]
Gone == [place |-> "gone", client |-> None, subject |-> None]

GrantType == grant \in [Grants -> Held \cup {Absent, Gone}]

\* What an earlier deployment may have left: a refresh token held for no
\* client in particular, or a request that waits for its login.
Legacy == {[place |-> "refresh", client |-> None, subject |-> s] : s \in Subjects}
LeftOver == {[place |-> "pending", client |-> c, subject |-> None] : c \in Clients}

Init == \/ grant = [g \in Grants |-> Absent]
        \/ \E first \in Grants, held \in Legacy \cup LeftOver :
               grant = [g \in Grants |-> IF g = first THEN held ELSE Absent]

-----------------------------------------------------------------------------
(* How one grant may move on, from old to new. *)

Requested(old, new) ==
    /\ old = Absent
    /\ new.place \in {"pending", "code"}
    /\ new.client \in Clients
    /\ new.subject = None

\* A login takes the request, settles its subject and gives back a code.
LogsIn(old, new) ==
    /\ old.place = "pending"
    /\ new = [place |-> "login", client |-> old.client, subject |-> new.subject]

Approved(old, new) ==
    /\ old.place = "login"
    /\ old.subject = None
    /\ new = [old EXCEPT !.subject = new.subject]

GivesCode(old, new) ==
    /\ old.place = "login"
    /\ new = [old EXCEPT !.place = "code"]

\* An exchange takes the code or the refresh token, for its own client.
Taken(old, new) ==
    /\ old.place \in {"code", "refresh"}
    /\ new.place = "exchange"
    /\ new.client = IF old.client = None THEN StaticClient ELSE old.client
    /\ new.subject = old.subject

GivesRefresh(old, new) ==
    /\ old.place = "exchange"
    /\ new = [old EXCEPT !.place = "refresh"]

\* Expired, denied, refused, spent by the wrong client, or lost in a crash.
Lost(old, new) ==
    /\ old.place \in Places
    /\ new = Gone

Moves(old, new) ==
    \/ Requested(old, new)
    \/ LogsIn(old, new) \/ Approved(old, new) \/ GivesCode(old, new)
    \/ Taken(old, new) \/ GivesRefresh(old, new)
    \/ Lost(old, new)

\* A step moves one grant and leaves the others alone.
Next == \E g \in Grants :
    /\ Moves(grant[g], grant'[g])
    /\ grant' = [grant EXCEPT ![g] = grant'[g]]

Spec == Init /\ [][Next]_grant

=============================================================================
