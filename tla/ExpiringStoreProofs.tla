-------------------------- MODULE ExpiringStoreProofs --------------------------
(***************************************************************************)
(* Proofs about ExpiringStore, for all values of its constants: that both  *)
(* backends of each store implement OneTimeStore.                          *)
(***************************************************************************)
EXTENDS ExpiringStore, TLAPS

(***************************************************************************)
(* Functions, records and what becomes of them in Redis.                   *)
(***************************************************************************)

\* What is read back is what was put, over either backend.
LEMMA ReadBack ==
    ASSUME NEW c \in Classes, NEW record \in RecordsOf(c)
    PROVE  Record(Written(record)) = record
<1>1. /\ record = [subject |-> record.subject, client |-> record.client]
      /\ DOMAIN record = {"subject", "client"}
  BY DEF RecordsOf
<1>2. Field(Encode(record), "subject") = record.subject
  BY <1>1 DEF Field, Encode
<1>3. Field(Encode(record), "client") = record.client
  BY <1>1 DEF Field, Encode
<1> QED BY <1>1, <1>2, <1>3 DEF Record, Written, Decode

(***************************************************************************)
(* What can be found.                                                      *)
(***************************************************************************)

Deadline(id) == entries[id].until + (IF backend = "redis" THEN 1 ELSE 0)

LEMMA PurgedFacts ==
    /\ DOMAIN Purged =
           {id \in DOMAIN entries : backend = "memory" => entries[id].until > clock}
    /\ \A id \in DOMAIN Purged : Purged[id] = entries[id]
BY DEF Purged, Restrict

LEMMA LiveFacts ==
    /\ DOMAIN Live =
           {id \in DOMAIN entries : backend = "memory" => entries[id].until > clock}
    /\ \A id \in DOMAIN Live : Live[id].record = Record(entries[id].value)
                               /\ Live[id].until = Deadline(id)
    /\ \A id : Found(id) = IF id \in DOMAIN Live THEN Live[id].record ELSE None
BY PurgedFacts DEF Live, Deadline, Found

(***************************************************************************)
(* Types.                                                                  *)
(***************************************************************************)

\* What an entry is.
EntrySound(id) ==
    /\ Record(entries[id].value) \in RecordsOf(class)
    /\ entries[id].until \in 0 .. clock + Ttl
    /\ backend = "redis" => entries[id].until >= clock

LEMMA FoundType ==
    ASSUME StoreTypeOK, NEW id
    PROVE  Found(id) \in RecordsOf(class) \cup {None}
BY PurgedFacts DEF StoreTypeOK, Found

LEMMA InitTypes == StoreInit => StoreTypeOK
BY StoreAssumption DEF StoreInit, StoreTypeOK, Idle

\* A call that only takes entries away.
LEMMA EntriesGo ==
    ASSUME StoreTypeOK, UNCHANGED <<backend, class, clock, issued>>,
           DOMAIN entries' \subseteq DOMAIN entries,
           \A i \in DOMAIN entries' : entries'[i] = entries[i],
           busy' = Idle \/ UNCHANGED busy
              \/ \E id \in Ids : /\ backend = "memory" /\ class \in {"refresh", "code"}
                                 /\ busy' = [call |-> "take", id |-> id],
           UNCHANGED answer \/ \E call \in {"none", "look", "take", "revoke"}, id \in Ids \cup {None},
                                  record \in RecordsOf(class) \cup {None} :
                                   Answered(call, id, record)
    PROVE  StoreTypeOK'
<1>1. \A i \in DOMAIN entries' : EntrySound(i)'
  BY DEF StoreTypeOK, EntrySound, Record
<1>2. /\ busy' \in {Idle} \cup [call : {"issue", "take"}, id : Ids]
      /\ busy' # Idle => backend = "memory"
      /\ busy'.call = "take" => class \in {"refresh", "code"}
  BY DEF StoreTypeOK, Idle
<1>3. answer' \in [call : {"none", "issue", "look", "take", "revoke"},
                   id : Ids \cup {None}, record : RecordsOf(class) \cup {None}]
  BY DEF StoreTypeOK, Answered
<1> QED BY <1>1, <1>2, <1>3 DEF StoreTypeOK, EntrySound

LEMMA TypesOfIssue ==
    ASSUME StoreTypeOK, NEW id \in Ids, NEW record \in RecordsOf(class), Issue(id, record)
    PROVE  StoreTypeOK'
<1>1. /\ UNCHANGED <<backend, class, clock>> /\ busy = Idle /\ issued' = issued \cup {id}
      /\ entries' = [i \in DOMAIN entries \cup {id} |->
             IF i = id THEN [value |-> Written(record), until |-> clock + Ttl] ELSE entries[i]]
      /\ busy' = IF backend = "memory" THEN [call |-> "issue", id |-> id] ELSE Idle
      /\ answer' = [call |-> "issue", id |-> id, record |-> record]
  BY DEF Issue, Answered
<1>2. EntrySound(id)'
  <2>1. Record(Written(record)) = record
    BY ReadBack DEF StoreTypeOK
  <2>2. entries'[id].value = Written(record) /\ entries'[id].until = clock + Ttl
    BY <1>1
  <2>3. Record(entries[id].value)' = record
    BY <1>1, <2>1, <2>2 DEF Record
  <2> QED BY <1>1, <2>2, <2>3, StoreAssumption DEF EntrySound, StoreTypeOK
<1>3. \A i \in DOMAIN entries' : EntrySound(i)'
  <2>1. \A i \in DOMAIN entries : i # id => entries'[i] = entries[i]
    BY <1>1
  <2>2. \A i \in DOMAIN entries : i # id => EntrySound(i)'
    BY <1>1, <2>1 DEF StoreTypeOK, EntrySound, Record
  <2> QED BY <1>1, <1>2, <2>2
<1>4. /\ busy' \in {Idle} \cup [call : {"issue", "take"}, id : Ids]
      /\ busy' # Idle => backend' = "memory"
      /\ busy'.call # "take"
  BY <1>1 DEF Idle
<1>5. answer' \in [call : {"none", "issue", "look", "take", "revoke"},
                   id : Ids \cup {None}, record : RecordsOf(class) \cup {None}]
  BY <1>1
<1>6. DOMAIN entries' \subseteq issued' /\ issued' \subseteq Ids
  BY <1>1 DEF StoreTypeOK
<1> QED BY <1>1, <1>3, <1>4, <1>5, <1>6 DEF StoreTypeOK, EntrySound

LEMMA TypesOfTick ==
    ASSUME StoreTypeOK, Tick
    PROVE  StoreTypeOK'
<1>1. /\ clock' = clock + 1 /\ clock' \in 0 .. MaxTime
      /\ UNCHANGED <<backend, class, busy, issued, answer>>
  BY StoreAssumption DEF Tick, StoreTypeOK
<1>2. /\ DOMAIN entries' = {i \in DOMAIN entries : backend = "redis" => entries[i].until >= clock'}
      /\ \A i \in DOMAIN entries' : entries'[i] = entries[i]
  BY DEF Tick, Restrict
<1>3. \A i \in DOMAIN entries' : EntrySound(i)'
  <2> SUFFICES ASSUME NEW i \in DOMAIN entries' PROVE EntrySound(i)'
    OBVIOUS
  <2>1. Record(entries[i].value)' = Record(entries[i].value)
    BY <1>1, <1>2 DEF Record
  <2>2. entries[i].until \in 0 .. clock' + Ttl
    BY <1>1, <1>2, StoreAssumption DEF StoreTypeOK
  <2> QED BY <1>1, <1>2, <2>1, <2>2 DEF StoreTypeOK, EntrySound
<1> QED BY <1>1, <1>2, <1>3 DEF StoreTypeOK, EntrySound

LEMMA StepTypes == StoreTypeOK /\ [StoreNext]_storeVars => StoreTypeOK'
<1> SUFFICES ASSUME StoreTypeOK, [StoreNext]_storeVars PROVE StoreTypeOK'
  OBVIOUS
<1>1. ASSUME NEW id \in Ids, Lookup(id) \/ Take(id) PROVE StoreTypeOK'
  <2>1. /\ UNCHANGED <<backend, class, clock, issued, busy>>
        /\ entries' = Purged \/ entries' = Without(Purged, id)
        /\ \E call \in {"look", "take"} : Answered(call, id, Found(id))
    BY <1>1 DEF Lookup, Take
  <2>2. /\ DOMAIN entries' \subseteq DOMAIN entries
        /\ \A i \in DOMAIN entries' : entries'[i] = entries[i]
    BY <2>1, PurgedFacts DEF Without, Restrict
  <2> QED BY <2>1, <2>2, FoundType, EntriesGo
<1>2. ASSUME NEW id \in Ids, StartPop(id) PROVE StoreTypeOK'
  BY <1>2, PurgedFacts, EntriesGo DEF StartPop
<1>3. ASSUME NEW id \in Ids, Revoke(id) PROVE StoreTypeOK'
  <2>1. /\ DOMAIN entries' \subseteq DOMAIN entries
        /\ \A i \in DOMAIN entries' : entries'[i] = entries[i]
    BY <1>3 DEF Revoke, Without, Restrict
  <2> QED BY <1>3, <2>1, EntriesGo DEF Revoke
<1>4. CASE IssuePurge
  BY <1>4, PurgedFacts, EntriesGo DEF IssuePurge
<1>5. CASE FinishPop
  <2>1. /\ DOMAIN entries' \subseteq DOMAIN entries
        /\ \A i \in DOMAIN entries' : entries'[i] = entries[i]
    BY <1>5 DEF FinishPop, Without, Restrict
  <2>2. busy.id \in Ids
    BY <1>5 DEF FinishPop, StoreTypeOK, Idle
  <2> QED BY <1>5, <2>1, <2>2, FoundType, EntriesGo DEF FinishPop
<1>6. CASE Restart
  <2>1. /\ UNCHANGED <<backend, class, clock, issued>> /\ DOMAIN entries' = {} /\ busy' = Idle
        /\ Answered("none", None, None)
    BY <1>6 DEF Restart, Answered
  <2> QED BY <2>1, EntriesGo
<1>7. CASE UNCHANGED storeVars
  BY <1>7, EntriesGo DEF storeVars
<1> QED BY <1>1, <1>2, <1>3, <1>4, <1>5, <1>6, <1>7, TypesOfIssue, TypesOfTick
        DEF StoreNext, StoreTypeOK

(***************************************************************************)
(* Every step is a step of OneTimeStore, or changes nothing it speaks of.  *)
(***************************************************************************)

LEMMA InitPromise == StoreInit => OneTime!Init
<1> SUFFICES ASSUME StoreInit PROVE OneTime!Init
  OBVIOUS
<1>1. DOMAIN Live = {}
  BY LiveFacts DEF StoreInit
<1>2. Live = [id \in {} |-> None]
  BY <1>1 DEF Live
<1> QED BY <1>2 DEF StoreInit, OneTime!Init, OneTime!Nothing

\* The live records are as before, but for those in a set that are gone.
LEMMA LiveLoses ==
    ASSUME UNCHANGED <<backend, clock>>, NEW gone,
           DOMAIN Live' = DOMAIN Live \ gone,
           \A i \in DOMAIN Live' : entries'[i] = entries[i]
    PROVE  Live' = [i \in DOMAIN Live \ gone |-> Live[i]]
<1>1. \A i \in DOMAIN Live' : Live'[i] = Live[i]
  BY DEF Live, Purged, Restrict, Record
<1>2. Live' = [i \in DOMAIN Live' |-> Live'[i]]
  BY DEF Live
<1> QED BY <1>1, <1>2

\* Purging takes away nothing that could be found.
LEMMA PurgeLosesNothing ==
    ASSUME UNCHANGED <<backend, clock>>, entries' = Purged
    PROVE  Live' = Live
<1>1. DOMAIN Live' = DOMAIN Live \ {} /\ \A i \in DOMAIN Live' : entries'[i] = entries[i]
  BY LiveFacts, PurgedFacts DEF Live, Purged, Restrict
<1>2. Live' = [i \in DOMAIN Live \ {} |-> Live[i]]
  BY <1>1, LiveLoses
<1>3. Live = [i \in DOMAIN Live |-> Live[i]]
  BY DEF Live
<1> QED BY <1>2, <1>3

\* What is popped or deleted is what OneTimeStore gives away.
LEMMA WithoutLosesOne ==
    ASSUME UNCHANGED <<backend, clock>>, NEW id,
           entries' = Without(Purged, id) \/ entries' = Without(entries, id)
    PROVE  Live' = OneTime!Without(Live, id)
<1>1. /\ DOMAIN entries' = DOMAIN Purged \ {id} \/ DOMAIN entries' = DOMAIN entries \ {id}
      /\ \A i \in DOMAIN entries' : entries'[i] = entries[i]
  BY PurgedFacts DEF Without, Restrict
<1>2. DOMAIN Live' = {i \in DOMAIN entries' : backend = "memory" => entries'[i].until > clock}
  BY DEF Live, Purged, Restrict
<1>3. DOMAIN Live' = DOMAIN Live \ {id} /\ \A i \in DOMAIN Live' : entries'[i] = entries[i]
  BY <1>1, <1>2, LiveFacts, PurgedFacts
<1>4. Live' = [i \in DOMAIN Live \ {id} |-> Live[i]]
  BY <1>3, LiveLoses
<1> QED BY <1>4 DEF OneTime!Without, OneTime!Restrict

LEMMA IssuePromise ==
    ASSUME StoreTypeOK, NEW id \in Ids, NEW record \in RecordsOf(class), Issue(id, record)
    PROVE  OneTime!Next
<1>1. /\ UNCHANGED <<backend, clock>> /\ record \in AllRecords
      /\ entries' = [i \in DOMAIN entries \cup {id} |->
             IF i = id THEN [value |-> Written(record), until |-> clock + Ttl] ELSE entries[i]]
  BY DEF Issue, StoreTypeOK, AllRecords
<1> DEFINE until == clock + Ttl + (IF backend = "redis" THEN 1 ELSE 0)
           entry == [record |-> record, until |-> until]
<1>2. Record(Written(record)) = record
  BY ReadBack DEF StoreTypeOK
<1>3. DOMAIN Live' = DOMAIN Live \cup {id}
  <2>1. DOMAIN Live' = {i \in DOMAIN entries' : backend = "memory" => entries'[i].until > clock}
    BY <1>1 DEF Live, Purged, Restrict
  <2>2. clock + Ttl > clock
    BY StoreAssumption DEF StoreTypeOK
  <2> QED BY <1>1, <2>1, <2>2, LiveFacts
<1>4. Live'[id] = entry
  <2>1. Live'[id] = [record |-> Record(entries[id].value)',
                     until |-> entries'[id].until + (IF backend = "redis" THEN 1 ELSE 0)]
    BY <1>1, <1>3 DEF Live, Purged, Restrict
  <2>2. Record(entries[id].value)' = record
    BY <1>1, <1>2 DEF Record
  <2> QED BY <1>1, <2>1, <2>2
<1>5. \A i \in DOMAIN Live \ {id} : Live'[i] = Live[i]
  BY <1>1, <1>3 DEF Live, Purged, Restrict, Record
<1>6. Live' = [i \in DOMAIN Live' |-> Live'[i]]
  BY DEF Live
<1> HIDE DEF entry
<1>7. Live' = [i \in DOMAIN Live \cup {id} |-> IF i = id THEN entry ELSE Live[i]]
  BY <1>3, <1>4, <1>5, <1>6
<1>8. until \in {clock + Ttl, clock + Ttl + 1}
  BY StoreAssumption DEF StoreTypeOK
<1>9. OneTime!Issue(id, record)
  BY <1>7, <1>8 DEF Issue, Answered, OneTime!Issue, OneTime!Answered, entry
<1> QED BY <1>1, <1>9 DEF OneTime!Next

LEMMA LookupPromise ==
    ASSUME NEW id \in Ids, Lookup(id)
    PROVE  OneTime!Next
<1>1. Live' = Live /\ UNCHANGED <<clock, issued>> /\ Answered("look", id, Found(id))
  BY PurgeLosesNothing DEF Lookup
<1>2. CASE id \in DOMAIN Live
  <2>1. OneTime!Look(id)
    BY <1>1, <1>2, LiveFacts DEF OneTime!Look, OneTime!Answered, Answered
  <2> QED BY <2>1 DEF OneTime!Next
<1>3. CASE id \notin DOMAIN Live
  <2>1. OneTime!Miss("look", id)
    BY <1>1, <1>3, LiveFacts DEF OneTime!Miss, OneTime!Answered, Answered
  <2> QED BY <2>1 DEF OneTime!Next
<1> QED BY <1>2, <1>3

\* The popped record is the caller's, unless its deadline has passed.
LEMMA TakePromise ==
    ASSUME NEW id \in Ids, UNCHANGED <<backend, clock, issued>>,
           entries' = Without(Purged, id) \/ entries' = Without(entries, id),
           Answered("take", id, Found(id))
    PROVE  OneTime!Next
<1>1. Live' = OneTime!Without(Live, id)
  BY WithoutLosesOne
<1>2. CASE id \in DOMAIN Live
  <2>1. OneTime!Take(id)
    BY <1>1, <1>2, LiveFacts DEF OneTime!Take, OneTime!Answered, Answered
  <2> QED BY <2>1 DEF OneTime!Next
<1>3. CASE id \notin DOMAIN Live
  <2>1. Live = [i \in DOMAIN Live |-> Live[i]]
    BY DEF Live
  <2>2. Live' = Live
    BY <1>1, <1>3, <2>1 DEF OneTime!Without, OneTime!Restrict
  <2>3. OneTime!Miss("take", id)
    BY <1>3, <2>2, LiveFacts DEF OneTime!Miss, OneTime!Answered, Answered
  <2> QED BY <2>3 DEF OneTime!Next
<1> QED BY <1>2, <1>3

LEMMA RevokePromise ==
    ASSUME NEW id \in Ids, Revoke(id)
    PROVE  OneTime!Next
<1>1. Live' = OneTime!Without(Live, id)
  BY WithoutLosesOne DEF Revoke
<1>2. OneTime!Revoke(id)
  BY <1>1 DEF Revoke, Answered, OneTime!Revoke, OneTime!Answered
<1> QED BY <1>2 DEF OneTime!Next

LEMMA RestartPromise ==
    ASSUME Restart
    PROVE  OneTime!Next
<1>1. DOMAIN Live' = {}
  BY DEF Restart, Live, Purged, Restrict
<1>2. Live' = [id \in {} |-> None]
  BY <1>1 DEF Live
<1> QED BY <1>2 DEF Restart, OneTime!Next, OneTime!Forget, OneTime!Nothing

\* The memory counts the deadline itself out, Redis in.
LEMMA TickPromise ==
    ASSUME StoreTypeOK, Tick
    PROVE  OneTime!Next
<1>1. clock' = clock + 1 /\ clock \in Nat /\ UNCHANGED <<backend, issued, answer>>
  BY StoreAssumption DEF Tick, StoreTypeOK
<1>2. /\ DOMAIN entries' = {i \in DOMAIN entries : backend = "redis" => entries[i].until >= clock'}
      /\ \A i \in DOMAIN entries' : entries'[i] = entries[i]
  BY DEF Tick, Restrict
<1>3. \A i \in DOMAIN entries : entries[i].until \in Nat
  BY StoreAssumption DEF StoreTypeOK
<1>4. DOMAIN Live' = {i \in DOMAIN entries' : backend = "memory" => entries'[i].until > clock'}
  BY <1>1 DEF Live, Purged, Restrict
<1>5. DOMAIN Live' = {i \in DOMAIN Live : clock' < Live[i].until}
  <2>1. backend \in {"memory", "redis"}
    BY DEF StoreTypeOK
  <2> QED BY <1>1, <1>2, <1>3, <1>4, <2>1, LiveFacts DEF Deadline
<1>6. \A i \in DOMAIN Live' : Live'[i] = Live[i]
  BY <1>1, <1>2, <1>4, <1>5 DEF Live, Purged, Restrict, Record
<1>7. Live' = [i \in DOMAIN Live' |-> Live'[i]]
  BY DEF Live
<1>8. Live' = [i \in {i \in DOMAIN Live : clock' < Live[i].until} |-> Live[i]]
  BY <1>5, <1>6, <1>7
<1>9. OneTime!Tick
  BY <1>1, <1>8 DEF OneTime!Tick, OneTime!Restrict
<1> QED BY <1>9 DEF OneTime!Next

LEMMA StepPromise ==
    ASSUME StoreTypeOK, [StoreNext]_storeVars
    PROVE  [OneTime!Next]_(OneTime!storeVars)
<1>1. CASE UNCHANGED storeVars
  <2>1. Live' = Live
    BY <1>1 DEF storeVars, Live, Purged, Record
  <2> QED BY <1>1, <2>1 DEF storeVars, OneTime!storeVars
<1>2. CASE IssuePurge \/ \E id \in Ids : StartPop(id)
  <2>1. UNCHANGED <<backend, clock, issued, answer>> /\ entries' = Purged
    BY <1>2 DEF IssuePurge, StartPop
  <2> QED BY <2>1, PurgeLosesNothing DEF OneTime!storeVars
<1>3. CASE FinishPop
  <2>1. busy.id \in Ids
    BY <1>3 DEF FinishPop, StoreTypeOK, Idle
  <2> QED BY <1>3, <2>1, TakePromise DEF FinishPop
<1>4. ASSUME NEW id \in Ids, Take(id) PROVE OneTime!Next
  BY <1>4, TakePromise DEF Take
<1> QED BY <1>1, <1>2, <1>3, <1>4, IssuePromise, LookupPromise, RevokePromise, RestartPromise,
           TickPromise DEF StoreNext

(***************************************************************************)
(* The theorems.                                                           *)
(***************************************************************************)

\* No entry outlives its time to live, over either backend, and what is stored
\* can be read back.
THEOREM StoreTypes == StoreSpec => []StoreTypeOK
<1> QED BY InitTypes, StepTypes, PTL DEF StoreSpec

\* Whatever the time to live, and however many identifiers, clients and people
\* there are, every store of either backend is a one-time store.
THEOREM StoresKeepTheirPromise == StoreSpec => KeepsPromise
<1>1. StoreInit => OneTime!Init
  BY InitPromise
<1>2. StoreTypeOK /\ [StoreNext]_storeVars => [OneTime!Next]_(OneTime!storeVars)
  BY StepPromise
<1> QED BY <1>1, <1>2, StoreTypes, PTL DEF StoreSpec, KeepsPromise, OneTime!Spec

\* It follows for both backends that what is gone does not return, and that what
\* is there is neither altered nor prolonged; which is what the endpoints take
\* for granted of their stores (RecordsAreFinal in McpServer).
THEOREM GoneStaysGone == StoreSpec => GoneForGood
<1>1. ASSUME [OneTime!Next]_(OneTime!storeVars)
      PROVE  \A id \in issued \cap DOMAIN Live' : id \in DOMAIN Live /\ Live'[id] = Live[id]
  <2> SUFFICES ASSUME NEW id \in issued, id \in DOMAIN Live'
               PROVE  id \in DOMAIN Live /\ Live'[id] = Live[id]
    OBVIOUS
  <2>1. CASE \E i \in Ids, record \in AllRecords : OneTime!Issue(i, record)
    <3>1. PICK i \in Ids, record \in AllRecords : OneTime!Issue(i, record)
      BY <2>1
    <3>2. PICK until :
              Live' = [j \in DOMAIN Live \cup {i} |->
                          IF j = i THEN [record |-> record, until |-> until] ELSE Live[j]]
      BY <3>1 DEF OneTime!Issue
    <3>3. id # i
      BY <3>1 DEF OneTime!Issue
    <3> HIDE DEF Live
    <3> QED BY <3>2, <3>3
  <2>2. ASSUME NEW i \in Ids, OneTime!Take(i) \/ OneTime!Revoke(i)
        PROVE  id \in DOMAIN Live /\ Live'[id] = Live[id]
    <3>1. Live' = [j \in DOMAIN Live \ {i} |-> Live[j]]
      BY <2>2 DEF OneTime!Take, OneTime!Revoke, OneTime!Without, OneTime!Restrict
    <3> HIDE DEF Live
    <3> QED BY <3>1
  <2>3. CASE OneTime!Tick
    <3>1. Live' = [j \in {j \in DOMAIN Live : clock' < Live[j].until} |-> Live[j]]
      BY <2>3 DEF OneTime!Tick, OneTime!Restrict
    <3> HIDE DEF Live
    <3> QED BY <3>1
  <2>4. CASE OneTime!Forget
    <3>1. Live' = [j \in {} |-> None]
      BY <2>4 DEF OneTime!Forget
    <3> HIDE DEF Live
    <3> QED BY <3>1
  <2>5. ASSUME NEW i \in Ids, OneTime!Look(i) \/ OneTime!Miss("look", i) \/ OneTime!Miss("take", i)
        PROVE  Live' = Live
    BY <2>5 DEF OneTime!Look, OneTime!Miss
  <2>6. CASE UNCHANGED OneTime!storeVars
    BY <2>6 DEF OneTime!storeVars
  <2> QED BY <1>1, <2>1, <2>2, <2>3, <2>4, <2>5, <2>6 DEF OneTime!Next
<1>2. StoreTypeOK /\ [StoreNext]_storeVars =>
          [\A id \in issued \cap DOMAIN Live' : id \in DOMAIN Live /\ Live'[id] = Live[id]]_storeVars
  BY <1>1, StepPromise
<1> QED BY <1>2, StoreTypes, PTL DEF StoreSpec, GoneForGood

=============================================================================
