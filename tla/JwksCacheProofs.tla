--------------------------- MODULE JwksCacheProofs ---------------------------
(***************************************************************************)
(* Proofs about JwksCache, for all values of its constants.                *)
(***************************************************************************)
EXTENDS JwksCache, TLAPS

LEMMA CallType ==
    ASSUME NEW c \in Callers, JwksTypeOK,
           NEW local \in [pc : {"idle", "fetch", "answered"}, kid : Kids \cup {Never},
                          since : 0 .. MaxTime, keys : SUBSET Kids, at : 0 .. MaxTime],
           call' = [call EXCEPT ![c] = local]
    PROVE  /\ call' \in [Callers -> [pc : {"idle", "fetch", "answered"}, kid : Kids \cup {Never},
                                     since : 0 .. MaxTime, keys : SUBSET Kids, at : 0 .. MaxTime]]
           /\ call'[c] = local
           /\ \A d \in Callers \ {c} : call'[d] = call[d]
BY DEF JwksTypeOK

LEMMA InitInvariant == JwksInit => JwksIInv
<1> SUFFICES ASSUME JwksInit PROVE JwksIInv
  OBVIOUS
<1> USE JwksAssumption DEF JwksInit
<1>1. JwksTypeOK
  <2>1. since \in [Kids -> 0 .. MaxTime \cup {Never}] /\ now \in 0 .. MaxTime /\ fetchedAt \in 0 .. now \cup {Never}
    OBVIOUS
  <2>2. Idle \in [pc : {"idle", "fetch", "answered"}, kid : Kids \cup {Never},
                  since : 0 .. MaxTime, keys : SUBSET Kids, at : 0 .. MaxTime]
    BY DEF Idle
  <2>3. call \in [Callers -> [pc : {"idle", "fetch", "answered"}, kid : Kids \cup {Never},
                              since : 0 .. MaxTime, keys : SUBSET Kids, at : 0 .. MaxTime]]
    BY <2>2
  <2>4. served \in [kid : Kids \cup {Never}, found : BOOLEAN, asOf : 0 .. MaxTime]
    BY DEF NothingServed
  <2> QED BY <2>1, <2>3, <2>4 DEF JwksTypeOK
<1>2. CallsSound /\ CacheSound /\ SinceSound
  BY DEF CallsSound, CacheSound, SinceSound, Idle
<1>3. ServedKeysAreRecent /\ NewKeysAreFound
  BY DEF ServedKeysAreRecent, NewKeysAreFound, NothingServed
<1> QED BY <1>1, <1>2, <1>3 DEF JwksIInv

\* A call that returns what the cache holds.
LEMMA LookupStep ==
    ASSUME JwksIInv, NEW c \in Callers, NEW kid \in Kids, Lookup(c, kid)
    PROVE  JwksIInv'
<1> USE JwksAssumption DEF JwksIInv, Lookup, Serve
<1>1. JwksTypeOK'
  BY DEF JwksTypeOK
<1>2. CallsSound' /\ CacheSound' /\ SinceSound'
  BY DEF CallsSound, CacheSound, SinceSound, MissingSince
<1>3. fetchedAt \in Nat /\ asOf \in Nat /\ now \in Nat /\ keys # {}
  BY DEF JwksTypeOK, NeedsFetch, Stale, CanRefetch, CacheSound
<1>4. ServedKeysAreRecent'
  <2> SUFFICES ASSUME ~ failed, kid \in keys PROVE now - asOf <= Ttl + MaxFetch
    BY <1>3 DEF ServedKeysAreRecent
  <2>1. fetchedAt - asOf <= MaxFetch
    BY <1>3 DEF CacheSound
  <2>2. now - fetchedAt <= Ttl
    BY <1>3 DEF NeedsFetch, Stale, CanRefetch
  <2> QED BY <1>3, <2>1, <2>2
<1>5. NewKeysAreFound'
  <2> SUFFICES ASSUME ~ failed, kid \notin keys, since[kid] # Never
               PROVE  now - since[kid] <= MinInterval + MaxFetch
    BY <1>3 DEF NewKeysAreFound
  <2>1. since[kid] \in Nat /\ since[kid] >= asOf
    BY <1>3 DEF JwksTypeOK, CacheSound, MissingSince
  <2>2. fetchedAt - asOf <= MaxFetch /\ now - fetchedAt < MinInterval
    BY <1>3 DEF CacheSound, NeedsFetch, CanRefetch
  <2> QED BY <1>3, <2>1, <2>2
<1> QED BY <1>1, <1>2, <1>4, <1>5

LEMMA StartFetchStep ==
    ASSUME JwksIInv, NEW c \in Callers, NEW kid \in Kids, StartFetch(c, kid)
    PROVE  JwksIInv'
<1> USE JwksAssumption DEF JwksIInv
<1> DEFINE local == [pc |-> "fetch", kid |-> kid, since |-> now, keys |-> {}, at |-> 0]
<1>1. local \in [pc : {"idle", "fetch", "answered"}, kid : Kids \cup {Never},
                 since : 0 .. MaxTime, keys : SUBSET Kids, at : 0 .. MaxTime]
      /\ local.pc = "fetch" /\ local.kid = kid /\ local.since = now
  BY DEF JwksTypeOK
<1>2. call' = [call EXCEPT ![c] = local]
  BY DEF StartFetch
<1> HIDE DEF local
<1>3. call'[c] = local /\ \A d \in Callers \ {c} : call'[d] = call[d]
  BY <1>1, <1>2, CallType
<1>4. JwksTypeOK'
  BY <1>1, <1>2, CallType DEF StartFetch, JwksTypeOK
<1>5. CallsSound'
  BY <1>1, <1>3 DEF StartFetch, CallsSound, JwksTypeOK
<1>6. CacheSound' /\ SinceSound'
  BY <1>1, <1>3 DEF StartFetch, CacheSound, SinceSound, MissingSince
<1>7. ServedKeysAreRecent' /\ NewKeysAreFound'
  BY DEF StartFetch, ServedKeysAreRecent, NewKeysAreFound
<1> QED BY <1>4, <1>5, <1>6, <1>7

LEMMA AnswerStep ==
    ASSUME JwksIInv, NEW c \in Callers, NEW answer \in {Published(since), {}}, Answer(c, answer)
    PROVE  JwksIInv'
<1> USE JwksAssumption DEF JwksIInv
<1> DEFINE local == [call[c] EXCEPT !.pc = "answered", !.keys = answer, !.at = now]
<1>1. local \in [pc : {"idle", "fetch", "answered"}, kid : Kids \cup {Never},
                 since : 0 .. MaxTime, keys : SUBSET Kids, at : 0 .. MaxTime]
      /\ local.pc = "answered" /\ local.kid = call[c].kid /\ local.since = call[c].since
      /\ local.keys = answer /\ local.at = now
  BY DEF JwksTypeOK, Published
<1>2. call' = [call EXCEPT ![c] = local]
  BY DEF Answer
<1> HIDE DEF local
<1>3. call'[c] = local /\ \A d \in Callers \ {c} : call'[d] = call[d]
  BY <1>1, <1>2, CallType
<1>4. JwksTypeOK'
  BY <1>1, <1>2, CallType DEF Answer, JwksTypeOK
<1>5. CallsSound'
  BY <1>1, <1>3 DEF Answer, CallsSound, JwksTypeOK
<1>6. answer # {} => MissingSince(answer, now)
  BY DEF MissingSince, Published
<1>7. CacheSound' /\ SinceSound'
  BY <1>1, <1>3, <1>6 DEF Answer, CacheSound, SinceSound, MissingSince
<1>8. ServedKeysAreRecent' /\ NewKeysAreFound'
  BY DEF Answer, ServedKeysAreRecent, NewKeysAreFound
<1> QED BY <1>4, <1>5, <1>7, <1>8

\* A call whose fetch has ended, with the locals reset.
LEMMA IdleStep ==
    ASSUME JwksTypeOK, NEW c \in Callers, call' = [call EXCEPT ![c] = Idle]
    PROVE  /\ call' \in [Callers -> [pc : {"idle", "fetch", "answered"}, kid : Kids \cup {Never},
                                     since : 0 .. MaxTime, keys : SUBSET Kids, at : 0 .. MaxTime]]
           /\ call'[c].pc = "idle"
           /\ \A d \in Callers \ {c} : call'[d] = call[d]
<1>1. Idle \in [pc : {"idle", "fetch", "answered"}, kid : Kids \cup {Never},
                since : 0 .. MaxTime, keys : SUBSET Kids, at : 0 .. MaxTime] /\ Idle.pc = "idle"
  BY JwksAssumption DEF Idle
<1> QED BY <1>1, CallType

LEMMA FinishFetchStep ==
    ASSUME JwksIInv, NEW c \in Callers, FinishFetch(c)
    PROVE  JwksIInv'
<1> USE JwksAssumption DEF JwksIInv
<1>1. /\ call[c].kid \in Kids /\ call[c].keys \in SUBSET Kids
      /\ call[c].since \in Nat /\ call[c].at \in 0 .. MaxTime /\ now \in Nat
      /\ now - call[c].at <= MaxFetch /\ call[c].at <= now
      /\ MissingSince(call[c].keys, call[c].at)
  BY DEF FinishFetch, JwksTypeOK, CallsSound, CacheSound
<1>2. /\ call' \in [Callers -> [pc : {"idle", "fetch", "answered"}, kid : Kids \cup {Never},
                                since : 0 .. MaxTime, keys : SUBSET Kids, at : 0 .. MaxTime]]
      /\ call'[c].pc = "idle"
      /\ \A d \in Callers \ {c} : call'[d] = call[d]
  BY IdleStep DEF FinishFetch
<1>3. JwksTypeOK'
  <2>1. served' \in [kid : Kids \cup {Never}, found : BOOLEAN, asOf : 0 .. MaxTime]
    BY <1>1 DEF FinishFetch, Serve
  <2>2. keys' \subseteq Kids /\ fetchedAt' \in 0 .. now' /\ asOf' \in 0 .. MaxTime
    BY <1>1 DEF FinishFetch, JwksTypeOK
  <2>3. failed' \in BOOLEAN
    BY DEF FinishFetch
  <2> QED BY <1>2, <2>1, <2>2, <2>3 DEF FinishFetch, JwksTypeOK
<1>4. CallsSound' /\ SinceSound'
  BY <1>2 DEF FinishFetch, CallsSound, SinceSound
<1>5. CacheSound'
  BY <1>1, <1>2 DEF FinishFetch, CacheSound, MissingSince
<1>6. ServedKeysAreRecent'
  BY <1>1 DEF FinishFetch, ServedKeysAreRecent, Serve
<1>7. NewKeysAreFound'
  <2> SUFFICES ASSUME call[c].kid \notin call[c].keys, since[call[c].kid] # Never
               PROVE  now - since[call[c].kid] <= MinInterval + MaxFetch
    BY DEF FinishFetch, NewKeysAreFound, Serve
  <2>1. since[call[c].kid] \in Nat /\ since[call[c].kid] >= call[c].at
    BY <1>1 DEF JwksTypeOK, MissingSince
  <2> QED BY <1>1, <2>1
<1> QED BY <1>3, <1>4, <1>5, <1>6, <1>7

LEMMA FailFetchStep ==
    ASSUME JwksIInv, NEW c \in Callers, FailFetch(c)
    PROVE  JwksIInv'
<1> USE JwksAssumption DEF JwksIInv
<1>1. call[c].kid \in Kids
  BY DEF FailFetch, CallsSound
<1>2. /\ call' \in [Callers -> [pc : {"idle", "fetch", "answered"}, kid : Kids \cup {Never},
                                since : 0 .. MaxTime, keys : SUBSET Kids, at : 0 .. MaxTime]]
      /\ call'[c].pc = "idle"
      /\ \A d \in Callers \ {c} : call'[d] = call[d]
  BY IdleStep DEF FailFetch
<1>3. JwksTypeOK'
  BY <1>1, <1>2 DEF FailFetch, JwksTypeOK, Serve
<1>4. CallsSound' /\ SinceSound'
  BY <1>2 DEF FailFetch, CallsSound, SinceSound
<1>5. CacheSound'
  BY <1>2 DEF FailFetch, CacheSound, MissingSince, JwksTypeOK
<1>6. ServedKeysAreRecent' /\ NewKeysAreFound'
  BY DEF FailFetch, ServedKeysAreRecent, NewKeysAreFound
<1> QED BY <1>3, <1>4, <1>5, <1>6

LEMMA RotateStep ==
    ASSUME JwksIInv, NEW next \in SUBSET Kids, Rotate(next)
    PROVE  JwksIInv'
<1> USE JwksAssumption DEF JwksIInv
<1>1. now \in Nat /\ now <= MaxTime /\ asOf \in Nat
  BY DEF JwksTypeOK
<1>2. \A k \in Kids : since'[k] = Never \/ since'[k] = since[k] \/ since'[k] = now
  BY DEF Rotate
<1>3. JwksTypeOK'
  BY <1>1 DEF Rotate, JwksTypeOK
<1>4. CallsSound' /\ SinceSound'
  BY <1>1, <1>2 DEF Rotate, CallsSound, SinceSound
<1>5. ASSUME NEW from \in SUBSET Kids, NEW at \in Nat, at <= now, MissingSince(from, at)
      PROVE  \A k \in Kids \ from : since'[k] # Never => since'[k] >= at
  BY <1>1, <1>2, <1>5 DEF MissingSince
<1>6. keys # {} => MissingSince(keys, asOf)'
  BY <1>1, <1>5 DEF JwksTypeOK, CacheSound, MissingSince, Rotate
<1>7. ASSUME NEW c \in Callers, call[c].pc = "answered", call[c].keys # {}
      PROVE  MissingSince(call[c].keys, call[c].at)'
  <2>1. call[c].keys \in SUBSET Kids /\ call[c].at \in Nat /\ call[c].at <= now
        /\ MissingSince(call[c].keys, call[c].at)
    BY <1>7 DEF JwksTypeOK, CallsSound, CacheSound
  <2> QED BY <2>1, <1>5 DEF MissingSince, Rotate
<1>8. CacheSound'
  BY <1>1, <1>6, <1>7 DEF CacheSound, Rotate
<1>9. ServedKeysAreRecent'
  BY DEF Rotate, ServedKeysAreRecent
<1>10. NewKeysAreFound'
  <2>1. ASSUME NEW k \in Kids, since[k] = Never \/ now - since[k] <= MinInterval + MaxFetch
        PROVE  since'[k] = Never \/ now - since'[k] <= MinInterval + MaxFetch
    BY <1>1, <1>2, <2>1
  <2>2. served.kid # Never => served.kid \in Kids
    BY DEF JwksTypeOK
  <2> QED BY <2>1, <2>2 DEF Rotate, NewKeysAreFound
<1> QED BY <1>3, <1>4, <1>8, <1>9, <1>10

LEMMA TickStep == JwksIInv /\ Tick => JwksIInv'
<1> SUFFICES ASSUME JwksIInv, Tick PROVE JwksIInv'
  OBVIOUS
<1> USE JwksAssumption DEF JwksIInv, Tick
<1>1. now \in 0 .. MaxTime /\ now' = now + 1 /\ now' \in 0 .. MaxTime /\ now' \in Nat
  BY DEF JwksTypeOK
<1>2. JwksTypeOK'
  <2>1. served' \in [kid : Kids \cup {Never}, found : BOOLEAN, asOf : 0 .. MaxTime]
    BY DEF NothingServed
  <2>2. fetchedAt' \in 0 .. now' \cup {Never}
    BY <1>1 DEF JwksTypeOK
  <2> QED BY <1>1, <2>1, <2>2 DEF JwksTypeOK
<1>3. CallsSound'
  <2>1. ASSUME NEW c \in Callers, call[c].pc # "idle"
        PROVE  /\ call[c].kid \in Kids
               /\ call[c].since <= now' /\ now' - call[c].since <= MaxFetch
               /\ call[c].pc = "answered" => call[c].since <= call[c].at /\ call[c].at <= now'
    <3>1. call[c].since \in Nat /\ call[c].at \in Nat
      BY DEF JwksTypeOK
    <3>2. now - call[c].since < MaxFetch
      BY <2>1
    <3>3. /\ call[c].kid \in Kids /\ call[c].since <= now
          /\ call[c].pc = "answered" => call[c].since <= call[c].at /\ call[c].at <= now
      BY <2>1 DEF CallsSound
    <3> QED BY <1>1, <3>1, <3>2, <3>3
  <2>2. call' = call
    OBVIOUS
  <2> QED BY <2>1, <2>2 DEF CallsSound
<1>4. CacheSound'
  <2>1. asOf \in Nat /\ asOf <= now + 1
    BY <1>1 DEF JwksTypeOK, CacheSound
  <2> QED BY <1>1, <2>1 DEF CacheSound, MissingSince
<1>5. SinceSound'
  <2>1. \A k \in Kids : since[k] # Never => since[k] \in Nat
    BY DEF JwksTypeOK
  <2> QED BY <1>1, <2>1 DEF SinceSound
<1>6. ServedKeysAreRecent' /\ NewKeysAreFound'
  BY DEF ServedKeysAreRecent, NewKeysAreFound, NothingServed
<1> QED BY <1>2, <1>3, <1>4, <1>5, <1>6

-----------------------------------------------------------------------------

\* The cache (jwks.py:89-124) keeps its inductive invariant: its types, what a
\* fetch under way has seen, and how far the cache is behind the issuer.
THEOREM Invariance == JwksSpec => []JwksIInv
<1>1. ASSUME JwksIInv, [JwksNext]_jwksVars PROVE JwksIInv'
  <2>1. CASE UNCHANGED jwksVars
    BY <1>1, <2>1 DEF jwksVars, JwksIInv, JwksTypeOK, CallsSound, CacheSound, MissingSince,
                      SinceSound, ServedKeysAreRecent, NewKeysAreFound
  <2>2. CASE \E c \in Callers, kid \in Kids : Lookup(c, kid) \/ StartFetch(c, kid)
    BY <1>1, <2>2, LookupStep, StartFetchStep
  <2>3. CASE \E c \in Callers, answer \in {Published(since), {}} : Answer(c, answer)
    BY <1>1, <2>3, AnswerStep
  <2>4. CASE \E c \in Callers : FinishFetch(c) \/ FailFetch(c)
    BY <1>1, <2>4, FinishFetchStep, FailFetchStep
  <2>5. CASE \E next \in SUBSET Kids \ {{}} : Rotate(next)
    BY <1>1, <2>5, RotateStep
  <2>6. CASE Tick
    BY <1>1, <2>6, TickStep
  <2> QED BY <1>1, <2>1, <2>2, <2>3, <2>4, <2>5, <2>6 DEF JwksNext
<1> QED BY <1>1, InitInvariant, PTL DEF JwksSpec

\* While fetches succeed, what signing_key serves was published by the issuer at
\* most Ttl + MaxFetch ago, whatever number of calls fetch at once.
THEOREM Recent == JwksSpec => []ServedKeysAreRecent
<1>1. JwksIInv => ServedKeysAreRecent
  BY DEF JwksIInv
<1> QED BY <1>1, Invariance, PTL

\* While fetches succeed, signing_key raises signing_key_unknown only for a key
\* the issuer withdrew or has not yet published for MinInterval + MaxFetch.
THEOREM Found == JwksSpec => []NewKeysAreFound
<1>1. JwksIInv => NewKeysAreFound
  BY DEF JwksIInv
<1> QED BY <1>1, Invariance, PTL

\* A warm cache stays warm, whatever the issuer answers (jwks.py:71-73).
THEOREM Warm == JwksSpec => WarmStaysWarm
<1>1. ASSUME [JwksNext]_jwksVars PROVE keys # {} => keys' # {}
  BY <1>1 DEF JwksNext, jwksVars, Lookup, StartFetch, Answer, FinishFetch, FailFetch, Rotate, Tick
<1>2. [JwksNext]_jwksVars => [keys # {} => keys' # {}]_jwksVars
  BY <1>1
<1> QED BY <1>2, PTL DEF JwksSpec, WarmStaysWarm

=============================================================================
