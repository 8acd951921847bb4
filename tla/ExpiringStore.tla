----------------------------- MODULE ExpiringStore -----------------------------
(***************************************************************************)
(* The stores of storage/memory.py and storage/redis.py: access tokens,    *)
(* refresh tokens, codes and pending requests, in the dictionary of one    *)
(* process or in a Redis that several replicas call.                       *)
(*                                                                         *)
(* A Redis command is one step, and Redis drops a key by itself right      *)
(* after its deadline.  An entry of the dictionary stays there until some  *)
(* call purges it; no other coroutine runs within a call, but time goes    *)
(* on, so that a call that reads the clock twice is two steps.             *)
(***************************************************************************)
EXTENDS Naturals, Functions

CONSTANTS
    Ids,            \* what secrets.token_urlsafe gives
    People, Clients,
    None,
    Ttl,            \* ttl_seconds
    MaxTime         \* bound on the clock

ASSUME StoreAssumption ==
    /\ Ttl \in Nat \ {0} /\ MaxTime \in Nat
    /\ None \notin Ids \cup People \cup Clients

\* The classes of a store differ in the calls they have, and in what their
\* records say: the subject of a login, and a client.
Classes == {"access", "refresh", "code", "pending"}

RecordsOf(c) ==
    [subject : IF c = "pending" THEN {None} ELSE People \cup {None},
     client : IF c = "access" THEN {None}
              ELSE IF c = "refresh" THEN Clients \cup {None} ELSE Clients]

AllRecords == UNION {RecordsOf(c) : c \in Classes}

VARIABLES
    backend,        \* "memory" or "redis"
    class,          \* which of the stores this is
    clock,          \* self._clock(), or the clock of the Redis server
    entries,        \* what is stored under each identifier, and until when
    busy,           \* the call that has read the clock once
    issued,         \* history: the identifiers drawn so far
    answer          \* what the latest call has returned

storeVars == <<backend, class, clock, entries, busy, issued, answer>>

Idle == [call |-> "none", id |-> None]

\* The value of a Redis key is a JSON object with the fields that are set; the
\* one without any is written "1".
Encode(record) == [f \in {g \in DOMAIN record : record[g] # None} |-> record[f]]

Field(value, f) == IF f \in DOMAIN value THEN value[f] ELSE None
Decode(value) == [subject |-> Field(value, "subject"), client |-> Field(value, "client")]

\* What is written for a record, and read back.
Written(record) == IF backend = "redis" THEN Encode(record) ELSE record
Record(value) == IF backend = "redis" THEN Decode(value) ELSE value

\* Types; only a call of a memory store is ever half done, and Redis keeps
\* nothing past its deadline.
StoreTypeOK ==
    /\ backend \in {"memory", "redis"} /\ class \in Classes
    /\ clock \in 0 .. MaxTime
    /\ DOMAIN entries \subseteq issued
    /\ \A id \in DOMAIN entries :
           /\ Record(entries[id].value) \in RecordsOf(class)
           /\ entries[id].until \in 0 .. clock + Ttl
           /\ backend = "redis" => entries[id].until >= clock
    /\ issued \subseteq Ids
    /\ busy \in {Idle} \cup [call : {"issue", "take"}, id : Ids]
    /\ busy # Idle => backend = "memory"
    /\ busy.call = "take" => class \in {"refresh", "code"}
    /\ answer \in [call : {"none", "issue", "look", "take", "revoke"},
                   id : Ids \cup {None}, record : RecordsOf(class) \cup {None}]

StoreInit ==
    /\ backend \in {"memory", "redis"}
    /\ class \in Classes
    /\ clock = 0
    /\ entries = [id \in {} |-> None]
    /\ busy = Idle
    /\ issued = {}
    /\ answer = [call |-> "none", id |-> None, record |-> None]

Answered(call, id, record) == answer' = [call |-> call, id |-> id, record |-> record]

Without(store, id) == Restrict(store, DOMAIN store \ {id})

\* What is left after _purge_expired; Redis has expired the others itself.
Purged == Restrict(entries, {id \in DOMAIN entries :
    backend = "memory" => entries[id].until > clock})

\* The record found, None if there is none.
Found(id) == IF id \in DOMAIN Purged THEN Record(Purged[id].value) ELSE None

-----------------------------------------------------------------------------

\* Faulty: SET without EX, with the time to live in a command of its own that
\* a failure may cut off.
IssueThenExpire(id, record) ==
    /\ busy = Idle
    /\ id \notin issued
    /\ issued' = issued \cup {id}
    /\ \E until \in {clock + Ttl, clock + 2 * Ttl} :
           entries' = [i \in DOMAIN entries \cup {id} |->
               IF i = id THEN [value |-> Written(record), until |-> until] ELSE entries[i]]
    /\ Answered("issue", id, record)
    /\ UNCHANGED <<backend, class, clock, busy>>

\* issue, create: SET key value EX ttl; or the entry is written ...
Issue(id, record) ==
    /\ busy = Idle
    /\ id \notin issued
    /\ issued' = issued \cup {id}
    /\ entries' = [i \in DOMAIN entries \cup {id} |->
            IF i = id THEN [value |-> Written(record), until |-> clock + Ttl]
                      ELSE entries[i]]
    /\ busy' = IF backend = "memory" THEN [call |-> "issue", id |-> id] ELSE Idle
    /\ Answered("issue", id, record)
    /\ UNCHANGED <<backend, class, clock>>

\* ... and the others are purged.
IssuePurge ==
    /\ busy.call = "issue"
    /\ entries' = Purged
    /\ busy' = Idle
    /\ UNCHANGED <<backend, class, clock, issued, answer>>

\* is_valid, subject_of, get: EXISTS or GET; or purge and look up.
Lookup(id) ==
    /\ class \in {"access", "pending"}
    /\ busy = Idle
    /\ entries' = Purged
    /\ Answered("look", id, Found(id))
    /\ UNCHANGED <<backend, class, clock, busy, issued>>

\* pop, consume: GETDEL; the pending requests of a process are purged and
\* popped with no second look at the clock.
Take(id) ==
    /\ IF backend = "redis" THEN class # "access" ELSE class = "pending"
    /\ busy = Idle
    /\ entries' = Without(Purged, id)
    /\ Answered("take", id, Found(id))
    /\ UNCHANGED <<backend, class, clock, busy, issued>>

\* Its refresh tokens and codes: purge ...
StartPop(id) ==
    /\ backend = "memory" /\ class \in {"refresh", "code"}
    /\ busy = Idle
    /\ entries' = Purged
    /\ busy' = [call |-> "take", id |-> id]
    /\ UNCHANGED <<backend, class, clock, issued, answer>>

\* Faulty: without the second look at the clock.
FinishPopUnchecked ==
    /\ busy.call = "take"
    /\ entries' = Without(entries, busy.id)
    /\ Answered("take", busy.id,
                IF busy.id \in DOMAIN entries THEN Record(entries[busy.id].value) ELSE None)
    /\ busy' = Idle
    /\ UNCHANGED <<backend, class, clock, issued>>

\* ... then pop, and refuse an entry that has expired in the meantime.
FinishPop ==
    /\ busy.call = "take"
    /\ entries' = Without(entries, busy.id)
    /\ Answered("take", busy.id, Found(busy.id))
    /\ busy' = Idle
    /\ UNCHANGED <<backend, class, clock, issued>>

\* revoke purges nothing.
Revoke(id) ==
    /\ class = "access"
    /\ busy = Idle
    /\ entries' = Without(entries, id)
    /\ Answered("revoke", id, None)
    /\ UNCHANGED <<backend, class, clock, busy, issued>>

\* The process ends, and the next one starts with empty dictionaries.
Restart ==
    /\ backend = "memory"
    /\ entries' = [id \in {} |-> None]
    /\ busy' = Idle
    /\ answer' = [call |-> "none", id |-> None, record |-> None]
    /\ UNCHANGED <<backend, class, clock, issued>>

Tick ==
    /\ clock < MaxTime
    /\ clock' = clock + 1
    /\ entries' = Restrict(entries, {id \in DOMAIN entries :
            backend = "redis" => entries[id].until >= clock'})
    /\ UNCHANGED <<backend, class, busy, issued, answer>>

StoreNext ==
    \/ \E id \in Ids, record \in RecordsOf(class) : Issue(id, record)
    \/ \E id \in Ids : Lookup(id) \/ Take(id) \/ StartPop(id) \/ Revoke(id)
    \/ IssuePurge \/ FinishPop
    \/ Restart
    \/ Tick

StoreSpec == StoreInit /\ [][StoreNext]_storeVars

-----------------------------------------------------------------------------

\* What can be found: the records, and when they are gone.
Live == [id \in DOMAIN Purged |->
    [record |-> Record(Purged[id].value),
     until |-> Purged[id].until + (IF backend = "redis" THEN 1 ELSE 0)]]

\* Whatever lingers in a dictionary, however the clock moves within a call and
\* whichever replica calls, each store is a one-time store: a record comes
\* back as it was put, until its deadline, and to one taker only.
OneTime == INSTANCE OneTimeStore WITH Records <- AllRecords, live <- Live
KeepsPromise == OneTime!Spec

\* Nothing is found under an identifier drawn before but what was found there
\* before, until the same moment: no purge, expiry or call of any replica brings
\* a record back, alters it or prolongs its life.
GoneForGood ==
    [][\A id \in issued \cap DOMAIN Live' :
           id \in DOMAIN Live /\ Live'[id] = Live[id]]_storeVars

=============================================================================
