------------------------ MODULE AssertedExchangeProofs ------------------------
(***************************************************************************)
(* Proofs about ClientAssertion and AssertedExchange, for all values of    *)
(* their constants.                                                        *)
(***************************************************************************)
EXTENDS AssertedExchange, TLAPS

(* The arithmetic of the claim's TTL. *)

LEMMA DivFloor ==
    ASSUME NEW x \in Int, NEW g \in Nat \ {0}
    PROVE  x \div g \in Int /\ (x \div g) * g > x - g
OBVIOUS

LEMMA Expiry ==
    ASSUME NEW a \in Assertion
    PROVE  /\ ExpiresAt(a) \in Nat
           /\ ExpiresAt(a) = a.exp * Grain + Leeway * Grain
           /\ a.exp * Grain \in Nat /\ Leeway * Grain \in Nat
BY AssertionAssumption DEF ExpiresAt, Assertion

\* Cutting exp - now down to whole seconds loses less than one; the leeway and
\* the floor make the TTL positive.
LEMMA KeyOutlives ==
    ASSUME NEW a \in Assertion, now \in Nat
    PROVE  /\ ClaimTtl(a) \in Nat \ {0}
           /\ now + ClaimTtl(a) > ExpiresAt(a) - Grain
<1> DEFINE left == (a.exp * Grain - now) \div Grain
           seconds == IF left > 1 THEN left ELSE 1
<1>1. a.exp \in Nat /\ Grain \in Nat \ {0} /\ Leeway \in Nat /\ a.exp * Grain \in Nat
  BY AssertionAssumption DEF Assertion
<1>2. left \in Int /\ left * Grain > a.exp * Grain - now - Grain
  <2>1. a.exp * Grain - now \in Int
    BY <1>1
  <2> QED BY <1>1, <2>1, DivFloor
<1>3. seconds \in Nat \ {0} /\ seconds >= left
  BY <1>2
<1>4. ClaimTtl(a) = (seconds + Leeway) * Grain
  BY DEF ClaimTtl
<1> HIDE DEF left, seconds
<1>5. /\ seconds * Grain \in Nat \ {0} /\ seconds * Grain >= left * Grain
      /\ Leeway * Grain \in Nat /\ left * Grain \in Int
  BY <1>1, <1>2, <1>3
<1>6. ClaimTtl(a) = seconds * Grain + Leeway * Grain
  BY <1>1, <1>3, <1>4
<1> QED BY <1>1, <1>2, <1>5, <1>6, Expiry

LEMMA NoneIsNoAssertion == None \notin Assertion
BY AssertionAssumption DEF Assertion

LEMMA SeqElement == ASSUME NEW S, NEW s \in Seq(S), NEW i \in DOMAIN s PROVE s[i] \in S
OBVIOUS

\* What Append does to the histories.
LEMMA Appended ==
    ASSUME NEW S, NEW s \in Seq(S), NEW x \in S, NEW t, t = Append(s, x)
    PROVE  /\ t \in Seq(S)
           /\ Len(s) \in Nat /\ DOMAIN s = 1 .. Len(s) /\ DOMAIN t = 1 .. Len(s) + 1
           /\ t[Len(s) + 1] = x
           /\ \A i \in DOMAIN s : i \in DOMAIN t /\ t[i] = s[i] /\ i < Len(s) + 1
           /\ \A i \in DOMAIN t : i \in DOMAIN s \/ i = Len(s) + 1
OBVIOUS

-----------------------------------------------------------------------------
(* The guard. *)

LEMMA AssertionInitInvariant == AssertionInit => AssertionIInv
<1> SUFFICES ASSUME AssertionInit PROVE AssertionIInv
  OBVIOUS
<1> USE AssertionAssumption DEF AssertionInit
<1>1. MaxTime \in Nat
  BY DEF MaxTime
<1>2. AssertionTypeOK
  BY <1>1 DEF AssertionTypeOK
<1>3. GuardSound /\ ReplayedOnlyAsItExpires /\ OnlyOwnReplaysRefused
  BY DEF GuardSound, ReplayedOnlyAsItExpires, OnlyOwnReplaysRefused
<1> QED BY <1>2, <1>3 DEF AssertionIInv

\* Steps of a handler that leave the guard and the histories alone.
LEMMA CheckingStep ==
    ASSUME AssertionIInv, NEW h \in Handlers, NEW b \in Assertion \cup {None},
           checking' = [checking EXCEPT ![h] = b], UNCHANGED <<now, guard, accepted, refused>>
    PROVE  AssertionIInv'
BY DEF AssertionIInv, AssertionTypeOK, GuardSound, ReplayedOnlyAsItExpires, OnlyOwnReplaysRefused

\* A key is claimed anew only in the last second of the assertions accepted
\* under it.
LEMMA AcceptStep ==
    ASSUME AssertionIInv, NEW h \in Handlers, Accept(h)
    PROVE  AssertionIInv'
<1> USE AssertionAssumption DEF AssertionIInv
<1> DEFINE a == checking[h]
           entry == [assertion |-> a, at |-> now]
           last == Len(accepted) + 1
<1>1. /\ a \in Assertion /\ now \in 0 .. MaxTime /\ now \in Nat
      /\ MaxTime \in Nat
      /\ accepted \in Seq([assertion : Assertion, at : 0 .. MaxTime])
      /\ entry \in [assertion : Assertion, at : 0 .. MaxTime]
  BY DEF Accept, AssertionTypeOK, MaxTime
<1>2. /\ accepted' \in Seq([assertion : Assertion, at : 0 .. MaxTime])
      /\ last \in DOMAIN accepted' /\ accepted'[last] = entry /\ last \in Nat
      /\ \A i \in DOMAIN accepted : i \in DOMAIN accepted' /\ accepted'[i] = accepted[i] /\ i < last
      /\ \A i \in DOMAIN accepted' : i \in DOMAIN accepted \/ i = last
      /\ DOMAIN accepted \subseteq Nat
  <2>1. accepted' = Append(accepted, entry)
    BY DEF Accept
  <2> QED BY <1>1, <2>1, Appended
<1>3. /\ ClaimKey(a) \notin DOMAIN guard
      /\ guard' = [k \in DOMAIN guard \cup {ClaimKey(a)} |->
                       IF k = ClaimKey(a) THEN now + ClaimTtl(a) ELSE guard[k]]
      /\ now' = now /\ refused' = None
      /\ checking' = [checking EXCEPT ![h] = None]
  BY DEF Accept, Claimable
<1>4. /\ ClaimTtl(a) \in Nat \ {0} /\ now + ClaimTtl(a) > ExpiresAt(a) - Grain
      /\ ExpiresAt(a) \in Nat
  BY <1>1, KeyOutlives, Expiry
<1>5. entry.assertion = a /\ entry.at = now
  OBVIOUS
<1> HIDE DEF a, entry, last
<1>6. AssertionTypeOK'
  BY <1>1, <1>2, <1>3, <1>4 DEF AssertionTypeOK
<1>7. \A i \in DOMAIN accepted : ClaimKey(accepted[i].assertion) = ClaimKey(a) =>
          ~ (ExpiresAt(accepted[i].assertion) - now >= Grain)
  BY <1>3 DEF GuardSound
<1>8. GuardSound'
  <2>1. ASSUME NEW i \in DOMAIN accepted', ExpiresAt(accepted'[i].assertion) - now >= Grain
        PROVE  /\ ClaimKey(accepted'[i].assertion) \in DOMAIN guard'
               /\ guard'[ClaimKey(accepted'[i].assertion)] > ExpiresAt(accepted'[i].assertion) - Grain
    <3>1. CASE i = last
      BY <1>2, <1>3, <1>4, <1>5, <3>1
    <3>2. CASE i \in DOMAIN accepted
      BY <1>2, <1>3, <1>7, <2>1, <3>2 DEF GuardSound
    <3> QED BY <1>2, <3>1, <3>2
  <2>2. ASSUME NEW k \in DOMAIN guard'
        PROVE  \E i \in DOMAIN accepted' : ClaimKey(accepted'[i].assertion) = k
    <3>1. CASE k = ClaimKey(a)
      BY <1>2, <1>5, <3>1
    <3>2. CASE k \in DOMAIN guard
      BY <1>2, <3>2 DEF GuardSound
    <3> QED BY <1>3, <3>1, <3>2
  <2> QED BY <1>3, <2>1, <2>2 DEF GuardSound, ExpiresAt, ClaimKey
<1>9. ReplayedOnlyAsItExpires'
  <2> SUFFICES ASSUME NEW i \in DOMAIN accepted', NEW j \in DOMAIN accepted', i < j,
                      accepted'[i].assertion = accepted'[j].assertion
               PROVE  ExpiresAt(accepted'[j].assertion) - accepted'[j].at < Grain
    BY DEF ReplayedOnlyAsItExpires, ExpiresAt
  <2>1. CASE j \in DOMAIN accepted
    <3>1. i \in DOMAIN accepted
      BY <1>2, <2>1
    <3> QED BY <1>2, <2>1, <3>1 DEF ReplayedOnlyAsItExpires
  <2>2. CASE j = last
    <3>1. i \in DOMAIN accepted /\ accepted[i].assertion = a
      BY <1>2, <1>5, <2>2
    <3>2. accepted'[j].assertion = a /\ accepted'[j].at = now
      BY <1>2, <1>5, <2>2
    <3>3. ~ (ExpiresAt(a) - now >= Grain)
      BY <1>7, <3>1
    <3>4. ExpiresAt(a) - now < Grain
      BY <1>1, <1>4, <3>3
    <3> QED BY <3>2, <3>4
  <2> QED BY <1>2, <2>1, <2>2
<1>10. OnlyOwnReplaysRefused'
  BY <1>3 DEF OnlyOwnReplaysRefused
<1> QED BY <1>6, <1>8, <1>9, <1>10

LEMMA ReplayRefusedStep ==
    ASSUME AssertionIInv, NEW h \in Handlers, ReplayRefused(h)
    PROVE  AssertionIInv'
<1> USE DEF AssertionIInv, ReplayRefused
<1>1. refused' \in Assertion
  BY DEF AssertionTypeOK
<1>2. PICK i \in DOMAIN accepted : ClaimKey(accepted[i].assertion) = ClaimKey(refused')
  BY DEF Claimable, GuardSound
<1>3. accepted[i].assertion.client = refused'.client /\ accepted[i].assertion.jti = refused'.jti
  BY <1>2 DEF ClaimKey
<1>4. AssertionTypeOK' /\ OnlyOwnReplaysRefused'
  BY <1>1, <1>3 DEF AssertionTypeOK, OnlyOwnReplaysRefused
<1>5. GuardSound' /\ ReplayedOnlyAsItExpires'
  BY DEF GuardSound, ReplayedOnlyAsItExpires
<1> QED BY <1>4, <1>5

LEMMA TickStep == AssertionIInv /\ Tick => AssertionIInv'
<1> SUFFICES ASSUME AssertionIInv, Tick PROVE AssertionIInv'
  OBVIOUS
<1> USE AssertionAssumption DEF AssertionIInv, Tick
<1>1. /\ now \in Nat /\ now' = now + 1 /\ now' \in 0 .. MaxTime
      /\ \A i \in DOMAIN accepted : accepted[i].assertion \in Assertion
  <2>1. MaxTime \in Nat
    BY DEF MaxTime
  <2>2. now \in 0 .. MaxTime /\ accepted \in Seq([assertion : Assertion, at : 0 .. MaxTime])
    BY DEF AssertionTypeOK
  <2>3. now \in Nat /\ now' = now + 1 /\ now' \in 0 .. MaxTime
    BY <2>1, <2>2
  <2>4. \A i \in DOMAIN accepted : accepted[i] \in [assertion : Assertion, at : 0 .. MaxTime]
    BY <2>2, SeqElement
  <2> QED BY <2>3, <2>4
<1>2. /\ DOMAIN guard' = {k \in DOMAIN guard : guard[k] > now'}
      /\ \A k \in DOMAIN guard' : k \in DOMAIN guard /\ guard'[k] = guard[k] /\ guard[k] \in Nat
      /\ \A k \in DOMAIN guard : guard[k] > now' => k \in DOMAIN guard'
  BY <1>1 DEF Restrict, AssertionTypeOK
<1>3. AssertionTypeOK'
  BY <1>1, <1>2 DEF AssertionTypeOK
<1>4. GuardSound'
  <2>1. ASSUME NEW i \in DOMAIN accepted, ExpiresAt(accepted[i].assertion) - now' >= Grain
        PROVE  /\ ClaimKey(accepted[i].assertion) \in DOMAIN guard'
               /\ guard'[ClaimKey(accepted[i].assertion)] > ExpiresAt(accepted[i].assertion) - Grain
    <3> DEFINE e == ExpiresAt(accepted[i].assertion)
               k == ClaimKey(accepted[i].assertion)
    <3>1. e \in Nat
      BY <1>1, Expiry
    <3>2. e - now >= Grain /\ e - Grain >= now' /\ e - Grain \in Int
      BY <1>1, <2>1, <3>1
    <3>3. k \in DOMAIN guard /\ guard[k] > e - Grain
      BY <3>2 DEF GuardSound
    <3>4. guard[k] \in Nat
      BY <3>3 DEF AssertionTypeOK
    <3>5. guard[k] > now'
      BY <1>1, <3>2, <3>3, <3>4
    <3> QED BY <1>2, <3>3, <3>5
  <2>2. ASSUME NEW k \in DOMAIN guard' PROVE \E i \in DOMAIN accepted : ClaimKey(accepted[i].assertion) = k
    BY <1>2 DEF GuardSound
  <2> QED BY <2>1, <2>2 DEF GuardSound, ExpiresAt, ClaimKey
<1>5. ReplayedOnlyAsItExpires' /\ OnlyOwnReplaysRefused'
  BY DEF ReplayedOnlyAsItExpires, OnlyOwnReplaysRefused
<1> QED BY <1>3, <1>4, <1>5

LEMMA GuardInductive == AssertionIInv /\ [AssertionNext]_assertionVars => AssertionIInv'
<1> SUFFICES ASSUME AssertionIInv, [AssertionNext]_assertionVars PROVE AssertionIInv'
  OBVIOUS
<1>1. CASE UNCHANGED assertionVars
  BY <1>1 DEF assertionVars, AssertionIInv, AssertionTypeOK, GuardSound, ReplayedOnlyAsItExpires,
              OnlyOwnReplaysRefused
<1>2. ASSUME NEW h \in Handlers, NEW a \in Assertion, Decode(h, a) PROVE AssertionIInv'
  BY <1>2, CheckingStep DEF Decode
<1>3. ASSUME NEW h \in Handlers, LifetimeRefused(h) \/ Abandon(h) PROVE AssertionIInv'
  BY <1>3, CheckingStep DEF LifetimeRefused, Abandon
<1>4. ASSUME NEW h \in Handlers, Accept(h) \/ ReplayRefused(h) PROVE AssertionIInv'
  BY <1>4, AcceptStep, ReplayRefusedStep
<1>5. CASE Tick
  BY <1>5, TickStep
<1> QED BY <1>1, <1>2, <1>3, <1>4, <1>5 DEF AssertionNext

-----------------------------------------------------------------------------
(* The exchange. *)

Fields == [pc : {"idle", "claim", "consume", "issue"}, code : Codes \cup {None},
           assertion : Assertion \cup {None}]

\* A request takes a step: the others are where they were.
LEMMA HandlerStep ==
    ASSUME ExchangeTypeOK, NEW h \in Handlers, NEW fields \in Fields,
           exchange' = [exchange EXCEPT ![h] = fields]
    PROVE  /\ exchange' \in [Handlers -> Fields]
           /\ exchange'[h] = fields
           /\ \A g \in Handlers \ {h} : exchange'[g] = exchange[g]
BY DEF ExchangeTypeOK, Fields

LEMMA EndStep ==
    ASSUME ExchangeTypeOK, NEW h \in Handlers, End(h)
    PROVE  /\ exchange' \in [Handlers -> Fields]
           /\ exchange'[h] = NoExchange /\ exchange'[h].pc = "idle"
           /\ \A g \in Handlers \ {h} : exchange'[g] = exchange[g]
<1>1. NoExchange \in Fields /\ NoExchange.pc = "idle"
  BY DEF NoExchange, Fields
<1> QED BY <1>1, HandlerStep DEF End

LEMMA GoToStep ==
    ASSUME ExchangeTypeOK, NEW h \in Handlers, NEW pc \in {"consume", "issue"}, GoTo(h, pc)
    PROVE  /\ exchange' \in [Handlers -> Fields]
           /\ exchange'[h].pc = pc /\ exchange'[h].code = exchange[h].code
           /\ exchange'[h].assertion = exchange[h].assertion
           /\ \A g \in Handlers \ {h} : exchange'[g] = exchange[g]
<1> DEFINE fields == [pc |-> pc, code |-> exchange[h].code, assertion |-> exchange[h].assertion]
<1>1. exchange[h].code \in Codes \cup {None} /\ exchange[h].assertion \in Assertion \cup {None}
  BY DEF ExchangeTypeOK
<1>2. /\ fields \in Fields
      /\ fields.pc = pc /\ fields.code = exchange[h].code /\ fields.assertion = exchange[h].assertion
  BY <1>1 DEF Fields
<1>3. exchange' = [exchange EXCEPT ![h] = fields]
  BY DEF GoTo
<1> HIDE DEF fields
<1> QED BY <1>2, <1>3, HandlerStep

LEMMA ExchangeTypeParts ==
    ExchangeTypeOK <=>
        /\ exchange \in [Handlers -> Fields]
        /\ \A h \in Handlers :
               /\ (exchange[h].pc = "claim") <=> (checking[h] # None)
               /\ exchange[h].pc = "claim" => checking[h] = exchange[h].assertion
               /\ exchange[h].pc # "idle" => exchange[h].code # None /\ exchange[h].assertion # None
        /\ spent \in Seq([assertion : Assertion, at : 0 .. MaxTime])
        /\ live \cup granted \cup lost \subseteq Codes
        /\ crashes \in 0 .. MaxCrashes
BY DEF ExchangeTypeOK, Fields

\* Whatever a request does to the guard, it is a step of the guard.
LEMMA ExchangeIsGuard == [ExchangeNext]_exchangeVars => [AssertionNext]_assertionVars
<1> SUFFICES ASSUME [ExchangeNext]_exchangeVars PROVE [AssertionNext]_assertionVars
  OBVIOUS
<1>1. CASE UNCHANGED exchangeVars
  BY <1>1 DEF exchangeVars, assertionVars
<1>2. ASSUME NEW h \in Handlers, NEW a \in Assertion, NEW c \in Codes, Begin(h, a, c)
      PROVE  [AssertionNext]_assertionVars
  BY <1>2 DEF Begin, AssertionNext
<1>3. ASSUME NEW h \in Handlers, Claim(h) \/ Refused(h) \/ Consume(h) \/ Issue(h) \/ Crash(h)
      PROVE  [AssertionNext]_assertionVars
  BY <1>3 DEF Claim, Refused, Consume, Issue, Crash, AssertionNext
<1>4. CASE Pass
  BY <1>4 DEF Pass, AssertionNext
<1> QED BY <1>1, <1>2, <1>3, <1>4 DEF ExchangeNext, HandlerSteps

LEMMA ExchangeInitInvariant == ExchangeInit => ExchangeIInv
<1> SUFFICES ASSUME ExchangeInit PROVE ExchangeIInv
  OBVIOUS
<1> USE ExchangeAssumption DEF ExchangeInit
<1>1. AssertionIInv
  BY AssertionInitInvariant
<1>2. NoExchange \in Fields /\ NoExchange.pc = "idle"
  BY DEF NoExchange, Fields
<1>3. ExchangeTypeOK
  BY <1>2, ExchangeTypeParts DEF AssertionInit
<1>4. NoCodeIsWasted /\ ClaimsSound
  BY <1>2 DEF NoCodeIsWasted, ClaimsSound
<1> QED BY <1>1, <1>3, <1>4 DEF ExchangeIInv

\* What has been claimed stays claimed.
LEMMA HistoryGrows ==
    ASSUME AssertionTypeOK, [AssertionNext]_assertionVars
    PROVE  \A i \in DOMAIN accepted : i \in DOMAIN accepted' /\ accepted'[i] = accepted[i]
<1>1. CASE UNCHANGED accepted
  BY <1>1
<1>2. ASSUME NEW h \in Handlers, Accept(h)
      PROVE  \A i \in DOMAIN accepted : i \in DOMAIN accepted' /\ accepted'[i] = accepted[i]
  <2> DEFINE entry == [assertion |-> checking[h], at |-> now]
  <2>1. entry \in [assertion : Assertion, at : 0 .. MaxTime]
    BY <1>2 DEF Accept, AssertionTypeOK
  <2>2. accepted' = Append(accepted, entry)
    BY <1>2 DEF Accept
  <2> HIDE DEF entry
  <2> QED BY <2>1, <2>2, Appended DEF AssertionTypeOK
<1> QED BY <1>1, <1>2 DEF AssertionNext, assertionVars, Decode, LifetimeRefused, ReplayRefused, Abandon, Tick

\* A step by which no request comes to consume, nor any code is consumed.
LEMMA ClaimsHold ==
    ASSUME AssertionTypeOK, [AssertionNext]_assertionVars, ClaimsSound, spent' = spent,
           \A h \in Handlers : exchange'[h].pc = "consume" =>
               exchange[h].pc = "consume" /\ exchange'[h].assertion = exchange[h].assertion
    PROVE  ClaimsSound'
<1> DEFINE After(x) == \E k \in DOMAIN accepted' : accepted'[k].assertion = x
           AfterTwice(x) ==
               \E k, l \in DOMAIN accepted' :
                   k < l /\ accepted'[k].assertion = x /\ accepted'[l].assertion = x
<1>1. \A x : (Claimed(x) => After(x)) /\ (ClaimedTwice(x) => AfterTwice(x))
  BY HistoryGrows DEF Claimed, ClaimedTwice
<1> HIDE DEF After, AfterTwice
<1>2. /\ \A h \in Handlers : exchange'[h].pc = "consume" => After(exchange'[h].assertion)
      /\ \A i \in DOMAIN spent : After(spent[i].assertion)
      /\ \A i, j \in DOMAIN spent : i < j /\ spent[i].assertion = spent[j].assertion =>
             AfterTwice(spent[j].assertion)
  BY <1>1 DEF ClaimsSound
<1>3. \A g, h \in Handlers :
          g # h /\ exchange'[g].pc = "consume" /\ exchange'[h].pc = "consume"
                /\ exchange'[g].assertion = exchange'[h].assertion =>
              AfterTwice(exchange'[h].assertion)
  BY <1>1 DEF ClaimsSound
<1>4. \A h \in Handlers, i \in DOMAIN spent :
          exchange'[h].pc = "consume" /\ spent[i].assertion = exchange'[h].assertion =>
              AfterTwice(exchange'[h].assertion)
  BY <1>1 DEF ClaimsSound
<1> QED BY <1>2, <1>3, <1>4 DEF ClaimsSound, Claimed, ClaimedTwice, After, AfterTwice

\* A step that moves no code.
LEMMA CodesHold ==
    ASSUME NoCodeIsWasted, UNCHANGED <<live, granted, lost>>,
           \A h \in Handlers : /\ exchange'[h].pc = "issue" <=> exchange[h].pc = "issue"
                               /\ exchange'[h].pc = "issue" => exchange'[h].code = exchange[h].code
    PROVE  NoCodeIsWasted'
BY DEF NoCodeIsWasted

LEMMA CheckingOthers ==
    ASSUME AssertionTypeOK, NEW h \in Handlers, NEW b, checking' = [checking EXCEPT ![h] = b]
    PROVE  checking'[h] = b /\ \A g \in Handlers \ {h} : checking'[g] = checking[g]
BY DEF AssertionTypeOK

LEMMA BeginStep ==
    ASSUME ExchangeIInv, NEW h \in Handlers, NEW a \in Assertion, NEW c \in Codes, Begin(h, a, c)
    PROVE  ExchangeTypeOK' /\ NoCodeIsWasted' /\ ClaimsSound'
<1> USE DEF ExchangeIInv, AssertionIInv
<1> DEFINE fields == [pc |-> "claim", code |-> c, assertion |-> a]
<1>1. /\ fields \in Fields /\ fields.pc = "claim" /\ fields.code = c /\ fields.assertion = a
      /\ a # None /\ c # None
  BY NoneIsNoAssertion, ExchangeAssumption DEF Fields
<1>2. /\ exchange' = [exchange EXCEPT ![h] = fields] /\ exchange[h].pc = "idle"
      /\ UNCHANGED <<live, spent, granted, lost, crashes>>
      /\ checking' = [checking EXCEPT ![h] = a] /\ UNCHANGED accepted
      /\ [AssertionNext]_assertionVars
  BY DEF Begin, Decode, AssertionNext
<1> HIDE DEF fields
<1>3. /\ exchange' \in [Handlers -> Fields] /\ exchange'[h] = fields
      /\ \A g \in Handlers \ {h} : exchange'[g] = exchange[g]
  BY <1>1, <1>2, HandlerStep
<1>4. checking'[h] = a /\ \A g \in Handlers \ {h} : checking'[g] = checking[g]
  BY <1>2, CheckingOthers
<1>5. ExchangeTypeOK'
  BY <1>1, <1>2, <1>3, <1>4, ExchangeTypeParts DEF ExchangeTypeOK, Fields
<1>6. NoCodeIsWasted'
  BY <1>1, <1>2, <1>3, CodesHold
<1>7. ClaimsSound'
  BY <1>1, <1>2, <1>3, ClaimsHold
<1> QED BY <1>5, <1>6, <1>7

\* The assertion that a request claims, another may have claimed before: then
\* it has been claimed twice.
LEMMA ClaimStep ==
    ASSUME ExchangeIInv, NEW h \in Handlers, Claim(h)
    PROVE  ExchangeTypeOK' /\ NoCodeIsWasted' /\ ClaimsSound'
<1> USE DEF ExchangeIInv, AssertionIInv
<1> DEFINE entry == [assertion |-> checking[h], at |-> now]
           last == Len(accepted) + 1
<1>1. /\ exchange[h].pc = "claim" /\ checking[h] \in Assertion
      /\ exchange[h].assertion = checking[h]
  BY DEF Claim, Accept, ExchangeTypeOK, AssertionTypeOK
<1>2. /\ Accept(h) /\ GoTo(h, "consume") /\ UNCHANGED <<live, spent, granted, lost, crashes>>
      /\ checking' = [checking EXCEPT ![h] = None]
      /\ [AssertionNext]_assertionVars
  BY DEF Claim, Accept, AssertionNext
<1>3. /\ exchange' \in [Handlers -> Fields]
      /\ exchange'[h].pc = "consume" /\ exchange'[h].code = exchange[h].code
      /\ exchange'[h].assertion = exchange[h].assertion
      /\ \A g \in Handlers \ {h} : exchange'[g] = exchange[g]
  BY <1>2, GoToStep
<1>4. checking'[h] = None /\ \A g \in Handlers \ {h} : checking'[g] = checking[g]
  BY <1>2, CheckingOthers
<1>5. ExchangeTypeOK'
  BY <1>1, <1>2, <1>3, <1>4, ExchangeTypeParts DEF ExchangeTypeOK, Fields
<1>6. NoCodeIsWasted'
  BY <1>1, <1>2, <1>3, CodesHold
<1>7. /\ last \in DOMAIN accepted' /\ accepted'[last].assertion = checking[h]
      /\ \A i \in DOMAIN accepted : i < last /\ i \in DOMAIN accepted' /\ accepted'[i] = accepted[i]
  <2>1. entry \in [assertion : Assertion, at : 0 .. MaxTime] /\ entry.assertion = checking[h]
    BY <1>1 DEF AssertionTypeOK
  <2>2. accepted' = Append(accepted, entry)
    BY <1>2 DEF Accept
  <2>3. accepted \in Seq([assertion : Assertion, at : 0 .. MaxTime])
    BY DEF AssertionTypeOK
  <2> HIDE DEF entry
  <2> QED BY <2>1, <2>2, <2>3, Appended
<1> HIDE DEF last
<1> DEFINE After(x) == \E k \in DOMAIN accepted' : accepted'[k].assertion = x
           AfterTwice(x) ==
               \E k, l \in DOMAIN accepted' :
                   k < l /\ accepted'[k].assertion = x /\ accepted'[l].assertion = x
<1>8. /\ \A x : (Claimed(x) => After(x)) /\ (ClaimedTwice(x) => AfterTwice(x))
      /\ After(checking[h]) /\ (Claimed(checking[h]) => AfterTwice(checking[h]))
  BY <1>7 DEF Claimed, ClaimedTwice
<1>9. ClaimsSound'
  <2> HIDE DEF After, AfterTwice
  <2>1. \A g \in Handlers : exchange'[g].pc = "consume" => After(exchange'[g].assertion)
    BY <1>1, <1>3, <1>8 DEF ClaimsSound
  <2>2. \A i \in DOMAIN spent : After(spent[i].assertion)
    BY <1>8 DEF ClaimsSound
  <2>3. ASSUME NEW f \in Handlers, NEW g \in Handlers, f # g,
               exchange'[f].pc = "consume", exchange'[g].pc = "consume",
               exchange'[f].assertion = exchange'[g].assertion
        PROVE  AfterTwice(exchange'[g].assertion)
    <3>1. CASE f # h /\ g # h
      BY <1>3, <1>8, <2>3, <3>1 DEF ClaimsSound
    <3>2. CASE f = h \/ g = h
      BY <1>1, <1>3, <1>8, <2>3, <3>2 DEF ClaimsSound
    <3> QED BY <3>1, <3>2
  <2>4. ASSUME NEW g \in Handlers, NEW i \in DOMAIN spent, exchange'[g].pc = "consume",
               spent[i].assertion = exchange'[g].assertion
        PROVE  AfterTwice(exchange'[g].assertion)
    BY <1>1, <1>3, <1>8, <2>4 DEF ClaimsSound
  <2>5. \A i, j \in DOMAIN spent : i < j /\ spent[i].assertion = spent[j].assertion =>
            AfterTwice(spent[j].assertion)
    BY <1>8 DEF ClaimsSound
  <2> QED BY <1>2, <2>1, <2>2, <2>3, <2>4, <2>5 DEF ClaimsSound, Claimed, ClaimedTwice, After, AfterTwice
<1> QED BY <1>5, <1>6, <1>9

LEMMA RefusedStep ==
    ASSUME ExchangeIInv, NEW h \in Handlers, Refused(h)
    PROVE  ExchangeTypeOK' /\ NoCodeIsWasted' /\ ClaimsSound'
<1> USE DEF ExchangeIInv, AssertionIInv
<1>1. /\ End(h) /\ UNCHANGED <<live, spent, granted, lost, crashes, accepted>>
      /\ checking' = [checking EXCEPT ![h] = None] /\ checking[h] # None
      /\ [AssertionNext]_assertionVars
  BY DEF Refused, LifetimeRefused, ReplayRefused, AssertionNext
<1>2. exchange[h].pc = "claim"
  BY <1>1 DEF ExchangeTypeOK
<1>3. /\ exchange' \in [Handlers -> Fields] /\ exchange'[h].pc = "idle"
      /\ \A g \in Handlers \ {h} : exchange'[g] = exchange[g]
  BY <1>1, EndStep
<1>4. checking'[h] = None /\ \A g \in Handlers \ {h} : checking'[g] = checking[g]
  BY <1>1, CheckingOthers
<1>5. ExchangeTypeOK'
  BY <1>1, <1>3, <1>4, ExchangeTypeParts DEF ExchangeTypeOK, Fields
<1>6. NoCodeIsWasted'
  BY <1>1, <1>2, <1>3, CodesHold
<1>7. ClaimsSound'
  BY <1>1, <1>3, ClaimsHold
<1> QED BY <1>5, <1>6, <1>7

\* The code is another request's, or gone: the request ends.
LEMMA ConsumeFails ==
    ASSUME ExchangeIInv, NEW h \in Handlers, Consume(h), exchange[h].code \notin live
    PROVE  ExchangeTypeOK' /\ NoCodeIsWasted' /\ ClaimsSound'
<1> USE DEF ExchangeIInv, AssertionIInv
<1>1. /\ End(h) /\ UNCHANGED <<live, spent, granted, lost, crashes>> /\ UNCHANGED assertionVars
      /\ exchange[h].pc = "consume"
  BY DEF Consume
<1>2. /\ exchange' \in [Handlers -> Fields] /\ exchange'[h].pc = "idle"
      /\ \A g \in Handlers \ {h} : exchange'[g] = exchange[g]
  BY <1>1, EndStep
<1>3. ExchangeTypeOK'
  BY <1>1, <1>2, ExchangeTypeParts DEF ExchangeTypeOK, Fields, assertionVars
<1>4. NoCodeIsWasted'
  BY <1>1, <1>2, CodesHold
<1>5. ClaimsSound'
  BY <1>1, <1>2, ClaimsHold
<1> QED BY <1>3, <1>4, <1>5

\* The code moves from the store to the request; no other request had it.
LEMMA ConsumeSucceeds ==
    ASSUME ExchangeIInv, NEW h \in Handlers, Consume(h), exchange[h].code \in live
    PROVE  ExchangeTypeOK' /\ NoCodeIsWasted' /\ ClaimsSound'
<1> USE DEF ExchangeIInv, AssertionIInv
<1> DEFINE c == exchange[h].code
           entry == [assertion |-> exchange[h].assertion, at |-> now]
           last == Len(spent) + 1
<1>1. /\ GoTo(h, "issue") /\ live' = live \ {c} /\ UNCHANGED <<granted, lost, crashes>>
      /\ UNCHANGED assertionVars /\ spent' = Append(spent, entry)
      /\ exchange[h].pc = "consume"
  BY DEF Consume
<1>2. /\ exchange' \in [Handlers -> Fields]
      /\ exchange'[h].pc = "issue" /\ exchange'[h].code = c
      /\ exchange'[h].assertion = exchange[h].assertion
      /\ \A g \in Handlers \ {h} : exchange'[g] = exchange[g]
  BY <1>1, GoToStep
<1>3. /\ spent' \in Seq([assertion : Assertion, at : 0 .. MaxTime])
      /\ last \in DOMAIN spent' /\ spent'[last].assertion = exchange[h].assertion
      /\ \A i \in DOMAIN spent : i \in DOMAIN spent' /\ spent'[i] = spent[i]
      /\ \A i \in DOMAIN spent' : i \in DOMAIN spent \/ i = last
      /\ \A i \in DOMAIN spent : ~ (last < i)
      /\ ~ (last < last)
  <2>1. exchange[h].assertion \in Assertion
    BY <1>1, ExchangeTypeParts DEF Fields
  <2>2. entry \in [assertion : Assertion, at : 0 .. MaxTime] /\ entry.assertion = exchange[h].assertion
    BY <2>1 DEF AssertionTypeOK
  <2>3. spent \in Seq([assertion : Assertion, at : 0 .. MaxTime])
    BY DEF ExchangeTypeOK
  <2> HIDE DEF entry
  <2> QED BY <1>1, <2>2, <2>3, Appended
<1> HIDE DEF last
<1>4. ExchangeTypeOK'
  <2>1. live' \cup granted' \cup lost' \subseteq Codes /\ crashes' \in 0 .. MaxCrashes
    BY <1>1 DEF ExchangeTypeOK
  <2>2. checking' = checking
    BY <1>1 DEF assertionVars
  <2>3. /\ exchange'[h].pc # "claim" /\ checking[h] = None
        /\ exchange[h].code # None /\ exchange[h].assertion # None
    BY <1>1, <1>2 DEF ExchangeTypeOK
  <2>4. \A g \in Handlers :
            /\ (exchange'[g].pc = "claim") <=> (checking'[g] # None)
            /\ exchange'[g].pc = "claim" => checking'[g] = exchange'[g].assertion
            /\ exchange'[g].pc # "idle" => exchange'[g].code # None /\ exchange'[g].assertion # None
    BY <1>2, <2>2, <2>3 DEF ExchangeTypeOK
  <2> QED BY <1>2, <1>3, <2>1, <2>4 DEF ExchangeTypeOK, Fields, MaxTime
<1>5. NoCodeIsWasted'
  <2> HIDE DEF c
  <2>1. /\ c \in live /\ c \in Codes
    BY DEF c, ExchangeTypeOK
  <2>2. \A g \in Handlers : exchange[g].pc = "issue" => exchange[g].code # c
    BY <2>1 DEF NoCodeIsWasted
  <2> QED BY <1>1, <1>2, <2>1, <2>2 DEF NoCodeIsWasted
<1>6. ClaimsSound'
  <2>1. /\ Claimed(exchange[h].assertion)
        /\ \A i \in DOMAIN spent : spent[i].assertion = exchange[h].assertion =>
               ClaimedTwice(exchange[h].assertion)
    BY <1>1 DEF ClaimsSound
  <2>2. \A g \in Handlers : exchange'[g].pc = "consume" =>
            g # h /\ exchange[g].pc = "consume" /\ exchange'[g] = exchange[g]
    BY <1>2
  <2>3. \A g \in Handlers : exchange'[g].pc = "consume" => Claimed(exchange'[g].assertion)
    BY <2>2 DEF ClaimsSound
  <2>4. \A i \in DOMAIN spent' : Claimed(spent'[i].assertion)
    BY <1>3, <2>1 DEF ClaimsSound
  <2>5. \A f, g \in Handlers :
            f # g /\ exchange'[f].pc = "consume" /\ exchange'[g].pc = "consume"
                  /\ exchange'[f].assertion = exchange'[g].assertion =>
                ClaimedTwice(exchange'[g].assertion)
    BY <2>2 DEF ClaimsSound
  <2>6. ASSUME NEW g \in Handlers, NEW i \in DOMAIN spent', exchange'[g].pc = "consume",
               spent'[i].assertion = exchange'[g].assertion
        PROVE  ClaimedTwice(exchange'[g].assertion)
    <3>1. CASE i \in DOMAIN spent
      BY <1>3, <2>2, <2>6, <3>1 DEF ClaimsSound
    <3>2. CASE i = last
      BY <1>1, <1>3, <2>2, <2>6, <3>2 DEF ClaimsSound
    <3> QED BY <1>3, <3>1, <3>2
  <2>7. ASSUME NEW i \in DOMAIN spent', NEW j \in DOMAIN spent', i < j,
               spent'[i].assertion = spent'[j].assertion
        PROVE  ClaimedTwice(spent'[j].assertion)
    <3>1. i \in DOMAIN spent
      BY <1>3, <2>7
    <3>2. CASE j \in DOMAIN spent
      BY <1>3, <2>7, <3>1, <3>2 DEF ClaimsSound
    <3>3. CASE j = last
      BY <1>3, <2>1, <2>7, <3>1, <3>3
    <3> QED BY <1>3, <3>2, <3>3
  <2>8. accepted' = accepted
    BY <1>1 DEF assertionVars
  <2> QED BY <2>3, <2>4, <2>5, <2>6, <2>7, <2>8 DEF ClaimsSound, Claimed, ClaimedTwice
<1> QED BY <1>4, <1>5, <1>6

\* A request that has a code ends: the code goes with it.
LEMMA CodeLeaves ==
    ASSUME ExchangeTypeOK, NoCodeIsWasted, NEW h \in Handlers, exchange[h].pc = "issue",
           exchange'[h].pc = "idle", \A g \in Handlers \ {h} : exchange'[g] = exchange[g],
           live' = live,
           \/ granted' = granted \cup {exchange[h].code} /\ lost' = lost
           \/ lost' = lost \cup {exchange[h].code} /\ granted' = granted
    PROVE  NoCodeIsWasted'
<1> DEFINE c == exchange[h].code
<1>1. c \notin live \cup granted \cup lost /\ c \in Codes
  BY DEF NoCodeIsWasted
<1>2. \A g \in Handlers \ {h} : exchange[g].pc = "issue" => exchange[g].code # c
  BY DEF NoCodeIsWasted
<1> HIDE DEF c
<1> QED BY <1>1, <1>2 DEF NoCodeIsWasted, c

LEMMA IssueStep ==
    ASSUME ExchangeIInv, NEW h \in Handlers, Issue(h)
    PROVE  ExchangeTypeOK' /\ NoCodeIsWasted' /\ ClaimsSound'
<1> USE DEF ExchangeIInv, AssertionIInv
<1>1. /\ End(h) /\ UNCHANGED <<live, spent, lost, crashes>> /\ UNCHANGED assertionVars
      /\ granted' = granted \cup {exchange[h].code} /\ exchange[h].pc = "issue"
  BY DEF Issue
<1>2. /\ exchange' \in [Handlers -> Fields] /\ exchange'[h].pc = "idle"
      /\ \A g \in Handlers \ {h} : exchange'[g] = exchange[g]
  BY <1>1, EndStep
<1>3. exchange[h].code \in Codes
  BY <1>1, ExchangeTypeParts DEF Fields
<1>4. ExchangeTypeOK'
  BY <1>1, <1>2, <1>3, ExchangeTypeParts DEF ExchangeTypeOK, Fields, assertionVars
<1>5. NoCodeIsWasted'
  BY <1>1, <1>2, CodeLeaves
<1>6. ClaimsSound'
  BY <1>1, <1>2, ClaimsHold
<1> QED BY <1>4, <1>5, <1>6

LEMMA CrashStep ==
    ASSUME ExchangeIInv, NEW h \in Handlers, Crash(h)
    PROVE  ExchangeTypeOK' /\ NoCodeIsWasted' /\ ClaimsSound'
<1> USE DEF ExchangeIInv, AssertionIInv
<1>1. /\ End(h) /\ UNCHANGED <<live, spent, granted>>
      /\ lost' = IF exchange[h].pc = "issue" THEN lost \cup {exchange[h].code} ELSE lost
      /\ crashes' = crashes + 1 /\ crashes < MaxCrashes /\ exchange[h].pc # "idle"
      /\ [AssertionNext]_assertionVars
  BY DEF Crash, AssertionNext
<1>2. /\ exchange' \in [Handlers -> Fields] /\ exchange'[h].pc = "idle"
      /\ \A g \in Handlers \ {h} : exchange'[g] = exchange[g]
  BY <1>1, EndStep
<1>3. checking'[h] = None /\ \A g \in Handlers \ {h} : checking'[g] = checking[g]
  <2>1. CASE exchange[h].pc = "claim"
    <3>1. checking' = [checking EXCEPT ![h] = None]
      BY <2>1 DEF Crash, Abandon, Accept
    <3> QED BY <3>1, CheckingOthers
  <2>2. CASE exchange[h].pc # "claim"
    BY <2>2 DEF Crash, ExchangeTypeOK, assertionVars
  <2> QED BY <2>1, <2>2
<1>4. exchange[h].code \in Codes
  BY <1>1, ExchangeTypeParts DEF Fields
<1>5. ExchangeTypeOK'
  BY <1>1, <1>2, <1>3, <1>4, ExchangeAssumption, ExchangeTypeParts DEF ExchangeTypeOK, Fields
<1>6. NoCodeIsWasted'
  <2>1. CASE exchange[h].pc = "issue"
    BY <1>1, <1>2, <2>1, CodeLeaves
  <2>2. CASE exchange[h].pc # "issue"
    BY <1>1, <1>2, <2>2, CodesHold
  <2> QED BY <2>1, <2>2
<1>7. ClaimsSound'
  BY <1>1, <1>2, ClaimsHold
<1> QED BY <1>5, <1>6, <1>7

LEMMA PassStep ==
    ASSUME ExchangeIInv, Pass
    PROVE  ExchangeTypeOK' /\ NoCodeIsWasted' /\ ClaimsSound'
<1> USE DEF ExchangeIInv, AssertionIInv
<1>1. [AssertionNext]_assertionVars
  BY DEF Pass, AssertionNext
<1>2. ExchangeTypeOK' /\ NoCodeIsWasted'
  BY DEF Pass, Tick, ExchangeTypeOK, NoCodeIsWasted
<1>3. ClaimsSound'
  BY <1>1, ClaimsHold DEF Pass
<1> QED BY <1>2, <1>3

-----------------------------------------------------------------------------

\* POST /token of URL clients (http.py:559-622) keeps its inductive invariant:
\* whatever requests run at once, wherever they fail.
THEOREM Invariance == ExchangeSpec => []ExchangeIInv
<1>1. ASSUME ExchangeIInv, [ExchangeNext]_exchangeVars PROVE ExchangeIInv'
  <2>1. AssertionIInv'
    BY <1>1, ExchangeIsGuard, GuardInductive DEF ExchangeIInv
  <2>2. CASE UNCHANGED exchangeVars
    BY <1>1, <2>1, <2>2 DEF exchangeVars, assertionVars, ExchangeIInv, ExchangeTypeOK, NoCodeIsWasted,
                            ClaimsSound, Claimed, ClaimedTwice
  <2>3. ASSUME NEW h \in Handlers, NEW a \in Assertion, NEW c \in Codes, Begin(h, a, c)
        PROVE  ExchangeIInv'
    BY <1>1, <2>1, <2>3, BeginStep DEF ExchangeIInv
  <2>4. ASSUME NEW h \in Handlers, Claim(h) \/ Refused(h) PROVE ExchangeIInv'
    BY <1>1, <2>1, <2>4, ClaimStep, RefusedStep DEF ExchangeIInv
  <2>5. ASSUME NEW h \in Handlers, Consume(h) PROVE ExchangeIInv'
    BY <1>1, <2>1, <2>5, ConsumeFails, ConsumeSucceeds DEF ExchangeIInv
  <2>6. ASSUME NEW h \in Handlers, Issue(h) \/ Crash(h) PROVE ExchangeIInv'
    BY <1>1, <2>1, <2>6, IssueStep, CrashStep DEF ExchangeIInv
  <2>7. CASE Pass
    BY <1>1, <2>1, <2>7, PassStep DEF ExchangeIInv
  <2> QED BY <1>1, <2>2, <2>3, <2>4, <2>5, <2>6, <2>7 DEF ExchangeNext, HandlerSteps
<1> QED BY <1>1, ExchangeInitInvariant, PTL DEF ExchangeSpec

\* The TTL of a claim (cimd.py:382) outlasts the assertion but for its last
\* second: in no other is it accepted again.
THEOREM SingleUse == ExchangeSpec => []ReplayedOnlyAsItExpires
<1>1. ExchangeIInv => ReplayedOnlyAsItExpires
  BY DEF ExchangeIInv, AssertionIInv
<1> QED BY <1>1, Invariance, PTL

\* No client spends another's jti.
THEOREM OwnReplays == ExchangeSpec => []OnlyOwnReplaysRefused
<1>1. ExchangeIInv => OnlyOwnReplaysRefused
  BY DEF ExchangeIInv, AssertionIInv
<1> QED BY <1>1, Invariance, PTL

\* A request that is refused or fails before it consumes its code leaves it to
\* the retry.
THEOREM CodesSafe == ExchangeSpec => []NoCodeIsWasted
<1>1. ExchangeIInv => NoCodeIsWasted
  BY DEF ExchangeIInv
<1> QED BY <1>1, Invariance, PTL

\* An assertion pays for one exchange, but in its last second.
THEOREM OneExchange == ExchangeSpec => []OneExchangePerAssertion
<1>1. ExchangeIInv => OneExchangePerAssertion
  BY DEF ExchangeIInv, AssertionIInv, ClaimsSound, ClaimedTwice, ReplayedOnlyAsItExpires,
         OneExchangePerAssertion
<1> QED BY <1>1, Invariance, PTL

=============================================================================
