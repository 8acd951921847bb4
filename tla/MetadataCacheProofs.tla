------------------------- MODULE MetadataCacheProofs -------------------------
(***************************************************************************)
(* Proofs about MetadataCache, for all values of its constants.            *)
(***************************************************************************)
EXTENDS MetadataCache, TLAPS

\* A document that has not expired may be served: _cache_ttl keeps max-age, but
\* for the two limits.
LEMMA WithinTtl ==
    ASSUME NEW maxAge \in MaxAges \cup {None}, NEW t \in Int, t < CacheTtl(maxAge)
    PROVE  MayServe(maxAge, t)
BY MetadataAssumption DEF CacheTtl, MayServe

LEMMA TtlBound ==
    ASSUME NEW maxAge \in MaxAges \cup {None}
    PROVE  CacheTtl(maxAge) \in Nat /\ CacheTtl(maxAge) <= MaxCache
BY MetadataAssumption DEF CacheTtl

\* The locals of a call, as they are at time now.
Locals(time) == [pc : {"idle", "fetch", "answered"}, url : Urls \cup {None}, since : 0 .. time,
                 response : Response \cup {None}, at : 0 .. time]
Documents(time) == [version : Versions, maxAge : MaxAges \cup {None}, asOf : 0 .. time,
                    until : 0 .. time + MaxCache]
Served(time) == [url : Urls \cup {None}, version : Versions \cup {None},
                 maxAge : MaxAges \cup {None}, asOf : 0 .. time]

LEMMA TypeParts ==
    MetadataTypeOK <=>
        /\ now \in 0 .. MaxTime
        /\ DOMAIN documents \subseteq Urls
        /\ \A u \in DOMAIN documents : documents[u] \in Documents(now)
        /\ keyCaches \subseteq KeyUris
        /\ request \in [Requests -> Locals(now)]
        /\ served \in Served(now)
BY DEF MetadataTypeOK, Locals, Documents, Served

LEMMA InitInvariant == MetadataInit => MetadataIInv
<1> SUFFICES ASSUME MetadataInit PROVE MetadataIInv
  OBVIOUS
<1> USE MetadataAssumption DEF MetadataInit
<1>1. Idle \in Locals(now) /\ NothingServed \in Served(now)
  BY DEF Idle, Locals, NothingServed, Served
<1>2. MetadataTypeOK
  BY <1>1, TypeParts
<1>3. RequestsSound /\ DocumentsSound /\ ServedWithinLifetime /\ KeysOnAllowedHosts
  BY DEF RequestsSound, DocumentsSound, ServedWithinLifetime, KeysOnAllowedHosts, Idle, NothingServed
<1> QED BY <1>2, <1>3 DEF MetadataIInv

\* A call of resolve takes a step: the others are where they were.
LEMMA RequestStep ==
    ASSUME MetadataTypeOK, NEW r \in Requests, NEW local \in Locals(now), now' = now,
           request' = [request EXCEPT ![r] = local]
    PROVE  /\ request' \in [Requests -> Locals(now')]
           /\ request'[r] = local
           /\ \A q \in Requests \ {r} : request'[q] = request[q]
BY TypeParts

\* What is served from the cache has not expired.
LEMMA LookupStep ==
    ASSUME MetadataIInv, NEW r \in Requests, NEW u \in Urls, Lookup(r, u)
    PROVE  MetadataIInv'
<1> USE MetadataAssumption DEF MetadataIInv, Lookup
<1> DEFINE doc == documents[u]
<1>1. u \in DOMAIN documents /\ doc \in Documents(now) /\ doc.until > now /\ now \in Nat
  BY TypeParts DEF Fresh
<1>2. /\ served' = [url |-> u, version |-> doc.version, maxAge |-> doc.maxAge, asOf |-> doc.asOf]
      /\ served' \in Served(now)
  BY <1>1 DEF Serve, Documents, Served
<1>3. MetadataTypeOK'
  BY <1>2, TypeParts DEF MetadataTypeOK, Served
<1>4. RequestsSound' /\ KeysOnAllowedHosts'
  BY DEF RequestsSound, KeysOnAllowedHosts
<1>5. DocumentsSound'
  BY <1>1, <1>2 DEF DocumentsSound, Documents
<1>6. ServedWithinLifetime'
  <2>1. doc.maxAge \in MaxAges \cup {None} /\ doc.asOf \in Nat /\ doc.until \in Nat
    BY <1>1 DEF Documents
  <2>2. doc.until <= doc.asOf + CacheTtl(doc.maxAge) /\ CacheTtl(doc.maxAge) \in Nat
    BY <1>1, <2>1, TtlBound DEF DocumentsSound
  <2>3. now - doc.asOf \in Int /\ now - doc.asOf < CacheTtl(doc.maxAge)
    BY <1>1, <2>1, <2>2
  <2>4. MayServe(doc.maxAge, now - doc.asOf)
    BY <2>1, <2>3, WithinTtl
  <2> QED BY <1>2, <2>4 DEF ServedWithinLifetime
<1> QED BY <1>3, <1>4, <1>5, <1>6

LEMMA StartFetchStep ==
    ASSUME MetadataIInv, NEW r \in Requests, NEW u \in Urls, StartFetch(r, u)
    PROVE  MetadataIInv'
<1> USE MetadataAssumption DEF MetadataIInv
<1> DEFINE local == [pc |-> "fetch", url |-> u, since |-> now, response |-> None, at |-> 0]
<1>1. local \in Locals(now) /\ local.url = u /\ local.since = now /\ local.pc = "fetch"
  BY TypeParts DEF Locals
<1>2. request' = [request EXCEPT ![r] = local] /\ now' = now
  BY DEF StartFetch
<1> HIDE DEF local
<1>3. /\ request' \in [Requests -> Locals(now')] /\ request'[r] = local
      /\ \A q \in Requests \ {r} : request'[q] = request[q]
  BY <1>1, <1>2, RequestStep
<1>4. MetadataTypeOK'
  BY <1>2, <1>3, TypeParts DEF StartFetch, MetadataTypeOK, Locals
<1>5. RequestsSound'
  BY <1>1, <1>2, <1>3, TypeParts DEF RequestsSound
<1>6. DocumentsSound' /\ ServedWithinLifetime' /\ KeysOnAllowedHosts'
  BY DEF StartFetch, DocumentsSound, ServedWithinLifetime, KeysOnAllowedHosts
<1> QED BY <1>4, <1>5, <1>6

LEMMA AnswerStep ==
    ASSUME MetadataIInv, NEW r \in Requests, Answer(r)
    PROVE  MetadataIInv'
<1> USE MetadataAssumption DEF MetadataIInv
<1>1. PICK response \in Response \cup {None} :
          request' = [request EXCEPT ![r] =
              [pc |-> "answered", url |-> request[r].url, since |-> request[r].since,
               response |-> response, at |-> now]]
  BY DEF Answer
<1> DEFINE local == [pc |-> "answered", url |-> request[r].url, since |-> request[r].since,
                     response |-> response, at |-> now]
<1>2. /\ local \in Locals(now) /\ local.pc = "answered" /\ local.at = now
      /\ local.url = request[r].url /\ local.since = request[r].since
      /\ request[r].since <= now
  <2>1. request[r] \in Locals(now) /\ now \in Nat
    BY TypeParts
  <2>2. /\ request[r].url \in Urls \cup {None}
        /\ request[r].since \in 0 .. now /\ request[r].since <= now
    BY <2>1 DEF Locals
  <2> QED BY <2>1, <2>2 DEF Locals
<1>3. request' = [request EXCEPT ![r] = local] /\ now' = now
  BY <1>1 DEF Answer
<1> HIDE DEF local
<1>4. /\ request' \in [Requests -> Locals(now')] /\ request'[r] = local
      /\ \A q \in Requests \ {r} : request'[q] = request[q]
  BY <1>2, <1>3, RequestStep
<1>5. MetadataTypeOK'
  BY <1>3, <1>4, TypeParts DEF Answer, MetadataTypeOK, Locals
<1>6. RequestsSound'
  BY <1>2, <1>3, <1>4 DEF RequestsSound, Answer
<1>7. DocumentsSound' /\ ServedWithinLifetime' /\ KeysOnAllowedHosts'
  BY DEF Answer, DocumentsSound, ServedWithinLifetime, KeysOnAllowedHosts
<1> QED BY <1>5, <1>6, <1>7

\* A call that has ended, with its locals reset.
LEMMA IdleStep ==
    ASSUME MetadataTypeOK, NEW r \in Requests, now' = now,
           request' = [request EXCEPT ![r] = Idle]
    PROVE  /\ request' \in [Requests -> Locals(now')] /\ request'[r].pc = "idle"
           /\ \A q \in Requests \ {r} : request'[q] = request[q]
<1>1. Idle \in Locals(now) /\ Idle.pc = "idle"
  BY TypeParts, MetadataAssumption DEF Idle, Locals
<1> QED BY <1>1, RequestStep

\* The document's lifetime counts from before the fetch, which was no longer ago
\* than the answer; and no fetch takes longer than MaxFetch.
LEMMA FinishFetchStep ==
    ASSUME MetadataIInv, NEW r \in Requests, FinishFetch(r)
    PROVE  MetadataIInv'
<1> USE MetadataAssumption DEF MetadataIInv
<1> DEFINE url == request[r].url
           response == request[r].response
           doc == [version |-> response.version, maxAge |-> response.maxAge,
                   asOf |-> request[r].at, until |-> request[r].since + CacheTtl(response.maxAge)]
<1>1. /\ url \in Urls /\ response \in Response /\ now \in Nat
      /\ request[r].at \in 0 .. now /\ request[r].since \in 0 .. now
      /\ request[r].since <= request[r].at /\ now - request[r].since <= MaxFetch
  BY TypeParts DEF FinishFetch, RequestsSound, Locals
<1>2. response.version \in Versions /\ response.maxAge \in MaxAges \cup {None}
  BY <1>1 DEF Response
<1>3. CacheTtl(response.maxAge) \in Nat /\ CacheTtl(response.maxAge) <= MaxCache
  BY <1>2, TtlBound
<1>4. doc \in Documents(now)
  BY <1>1, <1>2, <1>3 DEF Documents
<1>5. KeysAt[doc.version] \notin Foreign /\ doc.until <= doc.asOf + CacheTtl(doc.maxAge)
  BY <1>1, <1>2, <1>3 DEF FinishFetch, Acceptable
<1>6. /\ documents' = [u \in DOMAIN documents \cup {url} |-> IF u = url THEN doc ELSE documents[u]]
      /\ served' = [url |-> url, version |-> doc.version, maxAge |-> doc.maxAge, asOf |-> doc.asOf]
      /\ request' = [request EXCEPT ![r] = Idle] /\ now' = now /\ keyCaches' = keyCaches
  BY DEF FinishFetch, Serve
<1>7. doc.asOf = request[r].at /\ doc.version \in Versions
  BY <1>2
<1> HIDE DEF url, response, doc
<1>8. /\ request' \in [Requests -> Locals(now')] /\ request'[r].pc = "idle"
      /\ \A q \in Requests \ {r} : request'[q] = request[q]
  BY <1>6, IdleStep
<1>9. MetadataTypeOK'
  <2>1. served' \in Served(now)
    BY <1>1, <1>4, <1>6 DEF Served, Documents
  <2>2. DOMAIN documents' \subseteq Urls /\ \A u \in DOMAIN documents' : documents'[u] \in Documents(now)
    BY <1>1, <1>4, <1>6, TypeParts
  <2> QED BY <1>6, <1>8, <2>1, <2>2, TypeParts DEF MetadataTypeOK, Documents, Served, Locals
<1>10. RequestsSound'
  BY <1>6, <1>8 DEF RequestsSound
<1>11. DocumentsSound'
  BY <1>5, <1>6, <1>7 DEF DocumentsSound
<1>12. ServedWithinLifetime'
  BY <1>1, <1>6, <1>7 DEF ServedWithinLifetime
<1>13. KeysOnAllowedHosts'
  BY <1>6 DEF KeysOnAllowedHosts
<1> QED BY <1>9, <1>10, <1>11, <1>12, <1>13

LEMMA FailFetchStep ==
    ASSUME MetadataIInv, NEW r \in Requests, FailFetch(r)
    PROVE  MetadataIInv'
<1> USE MetadataAssumption DEF MetadataIInv
<1>1. /\ request' = [request EXCEPT ![r] = Idle] /\ served' = NothingServed
      /\ UNCHANGED <<now, documents, keyCaches>>
  BY DEF FailFetch
<1>2. /\ request' \in [Requests -> Locals(now')] /\ request'[r].pc = "idle"
      /\ \A q \in Requests \ {r} : request'[q] = request[q]
  BY <1>1, IdleStep
<1>3. NothingServed \in Served(now)
  BY TypeParts DEF NothingServed, Served
<1>4. MetadataTypeOK'
  BY <1>1, <1>2, <1>3, TypeParts DEF MetadataTypeOK, Served, Locals
<1>5. RequestsSound' /\ DocumentsSound' /\ ServedWithinLifetime' /\ KeysOnAllowedHosts'
  BY <1>1, <1>2 DEF RequestsSound, DocumentsSound, ServedWithinLifetime, KeysOnAllowedHosts, NothingServed
<1> QED BY <1>4, <1>5

LEMMA UseKeysStep == MetadataIInv /\ UseKeys => MetadataIInv'
<1> SUFFICES ASSUME MetadataIInv, UseKeys PROVE MetadataIInv'
  OBVIOUS
<1> USE MetadataAssumption DEF MetadataIInv, UseKeys
<1>1. served.version \in Versions /\ KeysAt[served.version] \notin Foreign
  BY DEF DocumentsSound
<1>2. MetadataTypeOK'
  BY <1>1 DEF MetadataTypeOK
<1>3. KeysOnAllowedHosts'
  BY <1>1 DEF KeysOnAllowedHosts
<1>4. RequestsSound' /\ DocumentsSound' /\ ServedWithinLifetime'
  BY DEF RequestsSound, DocumentsSound, ServedWithinLifetime
<1> QED BY <1>2, <1>3, <1>4

LEMMA TickStep == MetadataIInv /\ Tick => MetadataIInv'
<1> SUFFICES ASSUME MetadataIInv, Tick PROVE MetadataIInv'
  OBVIOUS
<1> USE MetadataAssumption DEF MetadataIInv, Tick
<1>1. now \in 0 .. MaxTime /\ now' = now + 1 /\ now' \in 0 .. MaxTime
  BY DEF MetadataTypeOK
<1>2. /\ \A l : l \in Locals(now) => l \in Locals(now')
      /\ \A d : d \in Documents(now) => d \in Documents(now')
  BY <1>1 DEF Locals, Documents
<1>3. NothingServed \in Served(now')
  BY <1>1 DEF NothingServed, Served
<1>4. MetadataTypeOK'
  <2>1. request' \in [Requests -> Locals(now')]
    BY <1>2, TypeParts
  <2> QED BY <1>1, <1>2, <1>3, <2>1, TypeParts DEF MetadataTypeOK, Locals, Documents, Served
<1>5. RequestsSound'
  <2> SUFFICES ASSUME NEW r \in Requests, request[r].pc # "idle"
               PROVE  now' - request[r].since <= MaxFetch
    BY DEF RequestsSound
  <2>1. request[r].since \in Nat /\ now - request[r].since < MaxFetch
    BY TypeParts DEF Locals
  <2> QED BY <1>1, <2>1
<1>6. DocumentsSound' /\ ServedWithinLifetime' /\ KeysOnAllowedHosts'
  BY DEF DocumentsSound, ServedWithinLifetime, KeysOnAllowedHosts, NothingServed
<1> QED BY <1>4, <1>5, <1>6

-----------------------------------------------------------------------------

\* The resolver's caches (cimd.py:280-328, 386-397) keep their inductive
\* invariant, whatever clients publish and in whatever order it arrives.
THEOREM Invariance == MetadataSpec => []MetadataIInv
<1>1. ASSUME MetadataIInv, [MetadataNext]_metadataVars PROVE MetadataIInv'
  <2>1. CASE UNCHANGED metadataVars
    BY <1>1, <2>1 DEF metadataVars, MetadataIInv, MetadataTypeOK, RequestsSound, DocumentsSound,
                      ServedWithinLifetime, KeysOnAllowedHosts
  <2>2. CASE \E r \in Requests, u \in Urls : Lookup(r, u) \/ StartFetch(r, u)
    BY <1>1, <2>2, LookupStep, StartFetchStep
  <2>3. CASE \E r \in Requests : Answer(r) \/ FinishFetch(r) \/ FailFetch(r)
    BY <1>1, <2>3, AnswerStep, FinishFetchStep, FailFetchStep
  <2>4. CASE UseKeys
    BY <1>1, <2>4, UseKeysStep
  <2>5. CASE Tick
    BY <1>1, <2>5, TickStep
  <2> QED BY <1>1, <2>1, <2>2, <2>3, <2>4, <2>5 DEF MetadataNext
<1> QED BY <1>1, InitInvariant, PTL DEF MetadataSpec

\* No document is served beyond the lifetime that came with it, whatever number
\* of calls fetch at once.
THEOREM Lifetime == MetadataSpec => []ServedWithinLifetime
<1>1. MetadataIInv => ServedWithinLifetime
  BY DEF MetadataIInv
<1> QED BY <1>1, Invariance, PTL

\* No signing keys are fetched from a host that is not allowed.
THEOREM AllowedHosts == MetadataSpec => []KeysOnAllowedHosts
<1>1. MetadataIInv => KeysOnAllowedHosts
  BY DEF MetadataIInv
<1> QED BY <1>1, Invariance, PTL

=============================================================================
