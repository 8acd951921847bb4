-------------------------- MODULE LoginLimiterProofs --------------------------
(***************************************************************************)
(* Proofs about LoginLimiter, for all values of its constants.             *)
(***************************************************************************)
EXTENDS LoginLimiter, FunctionTheorems, FiniteSetTheorems, TLAPS

LEMMA WindowType == Window \in Nat /\ Window > 0
<1>1. WindowSeconds \in Nat /\ Grain \in Nat /\ WindowSeconds >= 1 /\ Grain >= 1
  BY LimiterAssumption
<1>2. WindowSeconds * Grain \in Nat /\ WindowSeconds * Grain >= 1
  BY <1>1
<1> QED BY <1>2 DEF Window

(***************************************************************************)
(* Rounding to whole seconds.                                              *)
(***************************************************************************)

\* What is lost or added by rounding is half a second at most.
LEMMA Rounding ==
    ASSUME NEW ticks \in Nat
    PROVE  /\ NearestSecond(ticks) \in Nat
           /\ 2 * NearestSecond(ticks) * Grain + Grain >= 2 * ticks
           /\ 2 * NearestSecond(ticks) * Grain <= 2 * ticks + Grain
<1> DEFINE low == ticks \div Grain
           rest == ticks % Grain
<1>1. Grain \in Nat /\ Grain > 0
  BY LimiterAssumption
<1>2. low \in Nat /\ rest \in Nat /\ rest < Grain /\ ticks = Grain * low + rest
  BY <1>1
<1> HIDE DEF low, rest
<1>3. low * Grain = Grain * low /\ low * Grain \in Nat
  BY <1>1, <1>2
<1>4. CASE NearestSecond(ticks) = low /\ 2 * rest <= Grain
  BY <1>1, <1>2, <1>3, <1>4
<1>5. CASE NearestSecond(ticks) = low + 1 /\ 2 * rest >= Grain
  BY <1>1, <1>2, <1>3, <1>5
<1>6. \/ NearestSecond(ticks) = low /\ 2 * rest <= Grain
      \/ NearestSecond(ticks) = low + 1 /\ 2 * rest >= Grain
  BY <1>1, <1>2 DEF NearestSecond, low, rest
<1> QED BY <1>4, <1>5, <1>6

\* What is left of a window is not rounded up beyond a window.
LEMMA RoundingOfWindow ==
    ASSUME NEW ticks \in Nat, ticks <= Window
    PROVE  NearestSecond(ticks) <= WindowSeconds
<1> DEFINE low == ticks \div Grain
           rest == ticks % Grain
<1>1. Grain \in Nat /\ Grain > 0 /\ WindowSeconds \in Nat
  BY LimiterAssumption
<1>2. low \in Nat /\ rest \in Nat /\ rest < Grain /\ ticks = Grain * low + rest
  BY <1>1
<1>3. NearestSecond(ticks) \in {low, low + 1} /\ (rest = 0 => NearestSecond(ticks) = low)
  BY <1>1, <1>2 DEF NearestSecond
<1> HIDE DEF low, rest
<1>4. Grain * low + rest <= WindowSeconds * Grain
  BY <1>2 DEF Window
<1>5. low < WindowSeconds \/ (low = WindowSeconds /\ rest = 0)
  <2>1. CASE low > WindowSeconds
    <3>1. low - WindowSeconds \in Nat /\ low - WindowSeconds >= 1
      BY <1>1, <1>2, <2>1
    <3>2. Grain * (low - WindowSeconds) >= Grain
      BY <1>1, <3>1
    <3>3. Grain * low >= WindowSeconds * Grain + Grain
      BY <1>1, <1>2, <3>2
    <3> QED BY <1>1, <1>2, <1>4, <3>3
  <2>2. CASE low = WindowSeconds
    BY <1>1, <1>2, <1>4, <2>2
  <2> QED BY <1>1, <1>2, <2>1, <2>2
<1> QED BY <1>1, <1>2, <1>3, <1>5

\* Retry-After is what is left of the window up to half a second, except at
\* the very end of it; and it is at least a second and at most a window.
LEMMA RetryAfterBounds ==
    ASSUME now \in Nat, NEW until \in Nat, now <= until, until <= now + Window
    PROVE  /\ RetryAfter(until) \in 1 .. WindowSeconds
           /\ 2 * (RetryAfter(until) * Grain) + Grain >= 2 * (until - now)
           /\ \/ 2 * (RetryAfter(until) * Grain) <= 2 * (until - now) + Grain
              \/ /\ 2 * (until - now) <= Grain
                 /\ RetryAfter(until) = IF backend = "memory" THEN 1 ELSE WindowSeconds
<1> DEFINE seconds == NearestSecond(until - now)
           left == until - now
<1>1. left \in Nat /\ left <= Window
  BY WindowType
<1>2. Grain \in Nat /\ WindowSeconds \in Nat /\ WindowSeconds >= 1
  BY LimiterAssumption
<1>3. /\ seconds \in Nat /\ seconds <= WindowSeconds
      /\ 2 * seconds * Grain + Grain >= 2 * left /\ 2 * seconds * Grain <= 2 * left + Grain
  BY <1>1, Rounding, RoundingOfWindow
<1>4. RetryAfter(until) = IF seconds > 0 THEN seconds ELSE IF backend = "memory" THEN 1 ELSE WindowSeconds
  BY DEF RetryAfter
<1> HIDE DEF seconds, left
<1>5. CASE seconds > 0
  <2>1. RetryAfter(until) = seconds /\ 2 * (seconds * Grain) = 2 * seconds * Grain
    BY <1>2, <1>3, <1>4, <1>5
  <2> QED BY <1>2, <1>3, <1>5, <2>1 DEF left
<1>6. CASE ~ (seconds > 0)
  <2>1. seconds = 0 /\ 2 * seconds * Grain = 0
    BY <1>2, <1>3, <1>6
  <2>2. Grain >= 2 * left
    BY <1>1, <1>2, <1>3, <2>1
  <2>3. RetryAfter(until) = IF backend = "memory" THEN 1 ELSE WindowSeconds
    BY <1>4, <1>6
  <2>4. RetryAfter(until) \in 1 .. WindowSeconds /\ RetryAfter(until) * Grain \in Nat
    BY <1>2, <2>3
  <2> QED BY <1>1, <1>2, <2>2, <2>3, <2>4 DEF left
<1> QED BY <1>5, <1>6

(***************************************************************************)
(* Counting attempts.                                                      *)
(***************************************************************************)

\* A window lets through no more attempts than the limit.
LEMMA OneWindowBound ==
    ASSUME NEW attempts, \A attempt \in attempts : attempt.count \in Nat \ {0},
           OfOneWindow(attempts)
    PROVE  IsFiniteSet(attempts) /\ Cardinality(attempts) <= MaxAttempts
<1> DEFINE count == [attempt \in attempts |-> attempt.count]
<1>1. MaxAttempts \in Nat
  BY LimiterAssumption
<1>2. \A attempt \in attempts : attempt.count \in 1 .. MaxAttempts
  BY <1>1 DEF OfOneWindow, Passes
<1>3. count \in Injection(attempts, 1 .. MaxAttempts)
  BY <1>2 DEF OfOneWindow, Injection, IsInjective
<1>4. IsFiniteSet(1 .. MaxAttempts) /\ Cardinality(1 .. MaxAttempts) = MaxAttempts
  BY <1>1, FS_Interval
<1> QED BY <1>3, <1>4, FS_Injection

LEMMA PartOfOneWindow ==
    ASSUME NEW attempts, OfOneWindow(attempts), NEW part \in SUBSET attempts
    PROVE  OfOneWindow(part)
BY DEF OfOneWindow

(***************************************************************************)
(* Windows.                                                                *)
(***************************************************************************)

LEMMA OpenFacts ==
    ASSUME LimiterTypeOK
    PROVE  /\ DOMAIN OpenWindows \subseteq DOMAIN windows
           /\ \A a \in DOMAIN OpenWindows :
                  /\ OpenWindows[a] = windows[a]
                  /\ a \in Addresses
                  /\ windows[a].count \in Nat \ {0} /\ windows[a].until \in Nat
                  /\ now <= windows[a].until /\ windows[a].until <= now + Window
           /\ \A a \in DOMAIN windows :
                  a \in DOMAIN OpenWindows <=>
                      IF backend = "memory" THEN windows[a].until > now ELSE windows[a].until >= now
<1>1. now \in Nat
  BY DEF LimiterTypeOK
<1>2. \A a \in DOMAIN windows : windows[a].count \in Nat \ {0} /\ windows[a].until \in 0 .. now + Window
  BY DEF LimiterTypeOK
<1> QED BY <1>1, <1>2, WindowType DEF OpenWindows, Restrict, LimiterTypeOK

\* The window of an attempt is open, and the attempt is the next in it.
LEMMA CountedFacts ==
    ASSUME LimiterTypeOK, NEW a \in Addresses
    PROVE  /\ Counted(a) \in [count : Nat \ {0}, until : now .. now + Window]
           /\ Counted(a).until \in Nat
           /\ IF a \in DOMAIN OpenWindows
              THEN /\ Counted(a).count = windows[a].count + 1
                   /\ Counted(a).until = windows[a].until
              ELSE Counted(a).count = 1 /\ Counted(a).until = now + Window
<1>1. now \in Nat /\ now + Window \in now .. now + Window
  BY WindowType DEF LimiterTypeOK
<1>2. CASE a \in DOMAIN OpenWindows
  <2>1. windows[a] \in [count : Nat \ {0}, until : 0 .. now + Window]
    BY <1>2, OpenFacts DEF LimiterTypeOK
  <2>2. Counted(a) = [windows[a] EXCEPT !.count = @ + 1]
    BY <1>2 DEF Counted
  <2>3. Counted(a) = [count |-> windows[a].count + 1, until |-> windows[a].until]
    BY <2>1, <2>2
  <2>4. windows[a].until \in now .. now + Window
    BY <1>1, <1>2, OpenFacts
  <2> QED BY <1>1, <1>2, <2>1, <2>3, <2>4
<1>3. CASE a \notin DOMAIN OpenWindows
  BY <1>1, <1>3 DEF Counted
<1> QED BY <1>2, <1>3

\* Of the windows only that of the address changes, and it is open; those
\* that are purged were not.
LEMMA CountWindows ==
    ASSUME LimiterTypeOK, NEW a \in Addresses, Count(a)
    PROVE  /\ now' = now /\ backend' = backend
           /\ windows'[a] = Counted(a)
           /\ \A b \in DOMAIN OpenWindows \ {a} : windows'[b] = windows[b]
           /\ DOMAIN windows' \subseteq Addresses
           /\ \A b \in DOMAIN windows' : windows'[b] \in [count : Nat \ {0}, until : 0 .. now + Window]
           /\ DOMAIN OpenWindows' = DOMAIN OpenWindows \cup {a}
<1>1. now \in Nat /\ now' = now /\ backend' = backend
  BY DEF Count, LimiterTypeOK
<1>2. /\ DOMAIN windows' = DOMAIN OpenWindows \cup {a}
      /\ windows'[a] = Counted(a)
      /\ \A b \in DOMAIN OpenWindows \ {a} : windows'[b] = windows[b]
  BY DEF Count
<1>3. Counted(a) \in [count : Nat \ {0}, until : now .. now + Window]
  BY CountedFacts
<1>4. /\ DOMAIN windows' \subseteq Addresses
      /\ \A b \in DOMAIN windows' : windows'[b] \in [count : Nat \ {0}, until : 0 .. now + Window]
  BY <1>1, <1>2, <1>3, OpenFacts DEF LimiterTypeOK
<1>5. ASSUME NEW b \in DOMAIN windows'
      PROVE  IF backend = "memory" THEN windows'[b].until > now ELSE windows'[b].until >= now
  <2>1. CASE b = a
    <3>1. IF backend = "memory" THEN Counted(a).until > now ELSE Counted(a).until >= now
      BY <1>1, CountedFacts, OpenFacts, WindowType
    <3> QED BY <2>1, <1>2, <3>1
  <2>2. CASE b # a
    BY <1>2, <2>2, OpenFacts
  <2> QED BY <2>1, <2>2
<1>6. DOMAIN OpenWindows' = DOMAIN windows'
  BY <1>1, <1>5 DEF OpenWindows, Restrict
<1> QED BY <1>1, <1>2, <1>4, <1>6

\* What is let through in the time of a window is of two windows at most.
LEMMA BurstBound ==
    ASSUME LimiterTypeOK, AdmissionsSound, NEW a \in Addresses
    PROVE  IsFiniteSet(admitted[a]) /\ Cardinality(admitted[a]) <= 2 * MaxAttempts
<1>1. /\ MaxAttempts \in Nat /\ now \in Nat /\ Window \in Nat
      /\ admitted[a] \in SUBSET [at : 0 .. now, count : Nat \ {0}]
  BY LimiterAssumption, WindowType DEF LimiterTypeOK
<1>2. AdmissionsOf(a)
  BY DEF AdmissionsSound
<1>3. CASE a \in DOMAIN OpenWindows
  <2>1. OfOneWindow(Before(a)) /\ OfOneWindow(Since(a))
    BY <1>2, <1>3 DEF AdmissionsOf
  <2>2. \A attempt \in Before(a) \cup Since(a) : attempt.count \in Nat \ {0}
    BY <1>1 DEF Before, Since
  <2>3. /\ IsFiniteSet(Before(a)) /\ Cardinality(Before(a)) <= MaxAttempts
        /\ IsFiniteSet(Since(a)) /\ Cardinality(Since(a)) <= MaxAttempts
    BY <2>1, <2>2, OneWindowBound
  <2>4. admitted[a] = Before(a) \cup Since(a) /\ Before(a) \cap Since(a) = {}
    <3>1. Begin(a) \in Int
      BY <1>1, <1>3, OpenFacts DEF Begin
    <3> QED BY <1>1, <3>1 DEF Before, Since
  <2>5. /\ IsFiniteSet(admitted[a])
        /\ Cardinality(admitted[a]) = Cardinality(Before(a)) + Cardinality(Since(a)) - 0
    BY <2>3, <2>4, FS_Union, FS_EmptySet
  <2>6. Cardinality(Before(a)) \in Nat /\ Cardinality(Since(a)) \in Nat
    BY <2>3, FS_CardinalityType
  <2> QED BY <1>1, <2>3, <2>5, <2>6
<1>4. CASE a \notin DOMAIN OpenWindows
  <2>1. OfOneWindow(admitted[a]) /\ \A attempt \in admitted[a] : attempt.count \in Nat \ {0}
    BY <1>1, <1>2, <1>4 DEF AdmissionsOf
  <2>2. IsFiniteSet(admitted[a]) /\ Cardinality(admitted[a]) <= MaxAttempts
    BY <2>1, OneWindowBound
  <2>3. Cardinality(admitted[a]) \in Nat
    BY <2>2, FS_CardinalityType
  <2> QED BY <1>1, <2>2, <2>3
<1> QED BY <1>3, <1>4

(***************************************************************************)
(* Steps that keep the invariant.                                          *)
(***************************************************************************)

LEMMA InitInvariant == LimiterInit => LimiterIInv
<1> SUFFICES ASSUME LimiterInit PROVE LimiterIInv
  OBVIOUS
<1> USE LimiterAssumption DEF LimiterInit
<1>1. LimiterTypeOK
  BY WindowType DEF LimiterTypeOK, NoAttempt
<1>2. DOMAIN OpenWindows = {}
  BY DEF OpenWindows, Restrict
<1>3. AdmissionsSound /\ LockoutsSound /\ LatestSound
  BY <1>2 DEF AdmissionsSound, AdmissionsOf, OfOneWindow, LockoutsSound, LatestSound, NoAttempt
<1> QED BY <1>1, <1>3 DEF LimiterIInv

\* The refusals in a row that an attempt adds to are of the open window.
LEMMA CountLockouts ==
    ASSUME LimiterTypeOK, LockoutsSound, NEW a \in Addresses, Count(a)
    PROVE  /\ lockedOut' \in [Addresses -> 0 .. now' \cup {None}]
           /\ LockoutsSound'
           /\ Counted(a).count > MaxAttempts => lockedOut'[a] # None
<1> USE LimiterAssumption
<1>1. now \in Nat /\ now' = now /\ now # None
  BY DEF LimiterTypeOK, Count
<1>2. /\ lockedOut \in [Addresses -> 0 .. now \cup {None}]
      /\ lockedOut' = [lockedOut EXCEPT ![a] =
             IF Passes(Counted(a).count) THEN None
             ELSE IF lockedOut[a] = None THEN now ELSE lockedOut[a]]
  BY DEF LimiterTypeOK, Count
<1>3. lockedOut' \in [Addresses -> 0 .. now' \cup {None}]
  BY <1>1, <1>2
<1>4. Counted(a).count \in Nat
  BY CountedFacts
<1>5. Counted(a).count > MaxAttempts => lockedOut'[a] # None
  BY <1>1, <1>2, <1>4 DEF Passes
<1>6. ASSUME NEW b \in DOMAIN OpenWindows', lockedOut'[b] # None
      PROVE  lockedOut'[b] >= Begin(b)'
  <2>1. CASE b = a
    <3>1. ~ Passes(Counted(a).count)
      BY <1>2, <1>6, <2>1
    <3>2. a \in DOMAIN OpenWindows /\ Counted(a).until = windows[a].until
      BY <3>1, CountedFacts DEF Passes
    <3>3. windows'[a].until = windows[a].until
      BY <3>2, CountWindows
    <3>4. CASE lockedOut[a] = None
      BY <1>1, <1>2, <2>1, <3>1, <3>2, <3>3, <3>4, OpenFacts, WindowType DEF Begin
    <3>5. CASE lockedOut[a] # None
      <4>1. lockedOut'[a] = lockedOut[a] /\ lockedOut[a] >= Begin(a)
        BY <1>2, <3>1, <3>2, <3>5 DEF LockoutsSound
      <4> QED BY <2>1, <3>3, <4>1 DEF Begin
    <3> QED BY <3>4, <3>5
  <2>2. CASE b # a
    <3>1. b \in DOMAIN OpenWindows /\ windows'[b] = windows[b] /\ b \in Addresses
      BY <2>2, CountWindows, OpenFacts
    <3>2. lockedOut'[b] = lockedOut[b]
      BY <1>2, <2>2, <3>1
    <3> QED BY <1>6, <3>1, <3>2 DEF LockoutsSound, Begin
  <2> QED BY <2>1, <2>2
<1> QED BY <1>3, <1>5, <1>6 DEF LockoutsSound

\* Addresses other than the one that made an attempt.
LEMMA CountOthers ==
    ASSUME LimiterTypeOK, AdmissionsSound, NEW a \in Addresses, Count(a),
           NEW b \in Addresses, b # a, admitted'[b] = admitted[b]
    PROVE  AdmissionsOf(b)'
<1>1. now' = now /\ (b \in DOMAIN OpenWindows' <=> b \in DOMAIN OpenWindows)
  BY CountWindows
<1>2. b \in DOMAIN OpenWindows => windows'[b] = windows[b]
  BY CountWindows
<1>3. b \in DOMAIN OpenWindows => Before(b)' = Before(b) /\ Since(b)' = Since(b)
  BY <1>2 DEF Before, Since, Begin
<1> QED BY <1>1, <1>2, <1>3 DEF AdmissionsSound, AdmissionsOf

\* The address itself, if nothing is let through.
LEMMA CountOwn ==
    ASSUME LimiterTypeOK, AdmissionsSound, NEW a \in Addresses, Count(a)
    PROVE  LET begin == windows'[a].until - Window
               before == {attempt \in admitted[a] : attempt.at < begin}
               since == {attempt \in admitted[a] : attempt.at >= begin}
           IN  /\ begin \in Int /\ begin <= now
               /\ OfOneWindow(before) /\ OfOneWindow(since)
               /\ \A attempt \in since : attempt.count < windows'[a].count
<1> DEFINE begin == windows'[a].until - Window
           before == {attempt \in admitted[a] : attempt.at < begin}
           since == {attempt \in admitted[a] : attempt.at >= begin}
<1>1. now \in Nat /\ Window \in Nat /\ admitted[a] \in SUBSET [at : 0 .. now, count : Nat \ {0}]
  BY WindowType DEF LimiterTypeOK
<1>2. windows'[a] = Counted(a)
  BY CountWindows
<1>3. begin \in Int /\ begin <= now
  BY <1>1, <1>2, CountedFacts
<1>4. CASE a \in DOMAIN OpenWindows
  <2>1. begin = Begin(a) /\ windows'[a].count = windows[a].count + 1
    BY <1>2, <1>4, CountedFacts DEF Begin
  <2>2. before = Before(a) /\ since = Since(a)
    BY <2>1 DEF Before, Since
  <2>3. \A attempt \in since : attempt.count < windows'[a].count
    <3>1. windows[a].count \in Nat
      BY <1>4, OpenFacts
    <3>2. \A attempt \in since : attempt.count \in Nat /\ attempt.count <= windows[a].count
      BY <1>1, <1>4, <2>2 DEF AdmissionsSound, AdmissionsOf
    <3> QED BY <2>1, <3>1, <3>2
  <2> HIDE DEF begin, before, since
  <2> QED BY <1>3, <1>4, <2>2, <2>3 DEF AdmissionsSound, AdmissionsOf, begin, before, since
<1>5. CASE a \notin DOMAIN OpenWindows
  <2>1. begin = now
    BY <1>1, <1>2, <1>5, CountedFacts
  <2>2. OfOneWindow(admitted[a]) /\ \A attempt \in admitted[a] : attempt.at < now
    BY <1>5 DEF AdmissionsSound, AdmissionsOf
  <2>3. since = {}
    BY <1>1, <2>1, <2>2
  <2>4. OfOneWindow(before) /\ OfOneWindow(since)
    BY <2>2, <2>3, PartOfOneWindow
  <2> QED BY <1>3, <2>3, <2>4
<1> QED BY <1>4, <1>5

\* The address itself, with what the attempt lets through.
LEMMA CountAdmits ==
    ASSUME LimiterTypeOK, AdmissionsSound, NEW a \in Addresses, Count(a),
           NEW new \in SUBSET {[at |-> now, count |-> Counted(a).count]},
           new # {} => Passes(Counted(a).count),
           admitted'[a] = admitted[a] \cup new
    PROVE  AdmissionsOf(a)'
<1> DEFINE begin == windows'[a].until - Window
           before == {attempt \in admitted[a] : attempt.at < begin}
           since == {attempt \in admitted[a] : attempt.at >= begin}
<1>1. /\ now' = now /\ now \in Nat /\ Window \in Nat /\ Window > 0
      /\ admitted[a] \in SUBSET [at : 0 .. now, count : Nat \ {0}]
  BY WindowType DEF LimiterTypeOK, Count
<1>2. windows'[a] = Counted(a) /\ a \in DOMAIN OpenWindows'
  BY CountWindows
<1>3. Counted(a).count \in Nat /\ windows'[a].count = Counted(a).count
  BY <1>2, CountedFacts
<1>4. /\ begin \in Int /\ begin <= now
      /\ OfOneWindow(before) /\ OfOneWindow(since)
      /\ \A attempt \in since : attempt.count < windows'[a].count
  BY CountOwn
<1>5. Before(a)' = before /\ Since(a)' = since \cup new
  BY <1>1, <1>4 DEF Before, Since, Begin
<1>6. \A attempt \in since : attempt.count \in Nat
  BY <1>1
<1> HIDE DEF begin, before, since
<1>7. OfOneWindow(since \cup new)
  BY <1>3, <1>4, <1>6 DEF OfOneWindow
<1>8. \A attempt \in since \cup new : attempt.count <= windows'[a].count
  BY <1>3, <1>4, <1>6
<1>9. \A attempt \in admitted'[a] : attempt.at > now' - Window
  BY <1>1 DEF AdmissionsSound, AdmissionsOf
<1> QED BY <1>2, <1>4, <1>5, <1>7, <1>8, <1>9 DEF AdmissionsOf

\* An attempt that is let through is not taken for an earlier one.
LEMMA HitIsNew ==
    ASSUME LimiterIInv, NEW a \in Addresses, Hit(a), Passes(Counted(a).count)
    PROVE  Cardinality(admitted'[a]) = Cardinality(admitted[a]) + 1
<1> DEFINE attempt == [at |-> now, count |-> Counted(a).count]
<1>1. Count(a) /\ LimiterTypeOK /\ AdmissionsSound
  BY DEF Hit, LimiterIInv
<1>2. admitted'[a] = admitted[a] \cup {attempt}
  BY <1>1 DEF Hit, LimiterTypeOK
<1>3. /\ now \in Nat /\ Counted(a).count \in Nat /\ windows'[a].count = Counted(a).count
      /\ admitted[a] \in SUBSET [at : 0 .. now, count : Nat \ {0}]
  <2>1. windows'[a] = Counted(a) /\ Counted(a).count \in Nat
    BY <1>1, CountedFacts, CountWindows
  <2> QED BY <1>1, <2>1 DEF LimiterTypeOK
<1>4. attempt \notin admitted[a]
  <2> SUFFICES ASSUME attempt \in admitted[a] PROVE FALSE
    OBVIOUS
  <2>1. attempt.at >= windows'[a].until - Window
    BY <1>1, CountOwn
  <2>2. attempt.count < windows'[a].count
    BY <1>1, <2>1, CountOwn
  <2> QED BY <1>3, <2>2
<1>5. IsFiniteSet(admitted[a])
  BY <1>1, BurstBound
<1> HIDE DEF attempt
<1> QED BY <1>2, <1>4, <1>5, FS_AddElement

LEMMA HitUnansweredStep ==
    ASSUME LimiterIInv, NEW a \in Addresses, HitUnanswered(a)
    PROVE  LimiterIInv'
<1> USE DEF LimiterIInv
<1>1. Count(a) /\ latest' = NoAttempt /\ admitted' = admitted
  BY DEF HitUnanswered
<1>2. now' = now /\ backend' = backend
  BY <1>1 DEF Count
<1>3. LimiterTypeOK'
  BY <1>1, <1>2, CountWindows, CountLockouts DEF LimiterTypeOK, NoAttempt
<1>4. AdmissionsSound'
  <2>1. AdmissionsOf(a)'
    <3>1. admitted'[a] = admitted[a] \cup {}
      BY <1>1
    <3> QED BY <1>1, <3>1, CountAdmits
  <2> QED BY <1>1, <2>1, CountOthers DEF AdmissionsSound
<1>5. LockoutsSound'
  BY <1>1, CountLockouts
<1>6. LatestSound'
  BY <1>1 DEF LatestSound, NoAttempt
<1> QED BY <1>3, <1>4, <1>5, <1>6

LEMMA HitStep ==
    ASSUME LimiterIInv, NEW a \in Addresses, Hit(a)
    PROVE  LimiterIInv'
<1> USE DEF LimiterIInv
<1> DEFINE attempt == [at |-> now, count |-> Counted(a).count]
<1> PICK until : until = Counted(a).until
  OBVIOUS
<1>1. Count(a)
  BY DEF Hit
<1>2. now' = now /\ backend' = backend /\ now \in Nat
  BY <1>1 DEF Count, LimiterTypeOK
<1>3. /\ Counted(a).count \in Nat \ {0} /\ until \in Nat
      /\ now <= until /\ until <= now + Window
  BY CountedFacts
<1>4. RetryAfter(until) \in Nat /\ RetryAfter(until)' = RetryAfter(until)
  BY <1>2, <1>3, RetryAfterBounds DEF RetryAfter, NearestSecond
<1>5. latest' = [address |-> a, count |-> Counted(a).count, retryAfter |-> RetryAfter(until)]
  BY DEF Hit
<1>6. PICK new \in SUBSET {attempt} :
          /\ new # {} => Passes(Counted(a).count)
          /\ admitted' = [admitted EXCEPT ![a] = @ \cup new]
  <2>1. CASE Passes(Counted(a).count)
    BY <2>1 DEF Hit
  <2>2. CASE ~ Passes(Counted(a).count)
    <3>1. admitted' = [admitted EXCEPT ![a] = @ \cup {}]
      BY <2>2 DEF Hit, LimiterTypeOK
    <3> QED BY <3>1
  <2> QED BY <2>1, <2>2
<1>7. /\ admitted'[a] = admitted[a] \cup new
      /\ \A b \in Addresses \ {a} : admitted'[b] = admitted[b]
      /\ admitted' \in [Addresses -> SUBSET [at : 0 .. now', count : Nat \ {0}]]
  <2>1. attempt \in [at : 0 .. now', count : Nat \ {0}]
    BY <1>2, <1>3
  <2>2. new \in SUBSET [at : 0 .. now', count : Nat \ {0}]
    BY <2>1
  <2>3. admitted \in [Addresses -> SUBSET [at : 0 .. now', count : Nat \ {0}]]
    BY <1>2 DEF LimiterTypeOK
  <2> QED BY <1>6, <2>2, <2>3
<1>8. LimiterTypeOK'
  <2>1. latest' \in [address : Addresses \cup {None}, count : Nat, retryAfter : Nat]
    BY <1>3, <1>4, <1>5
  <2> QED BY <1>1, <1>2, <1>7, <2>1, CountWindows, CountLockouts DEF LimiterTypeOK
<1>9. AdmissionsSound'
  <2>1. AdmissionsOf(a)'
    BY <1>1, <1>6, <1>7, CountAdmits
  <2> QED BY <1>1, <1>7, <2>1, CountOthers DEF AdmissionsSound
<1>10. LockoutsSound'
  BY <1>1, CountLockouts
<1>11. LatestSound'
  <2>1. windows'[a] = Counted(a) /\ a \in DOMAIN OpenWindows'
    BY <1>1, CountWindows
  <2>2. Counted(a).count > MaxAttempts => lockedOut'[a] # None
    BY <1>1, CountLockouts
  <2>3. latest'.address = a /\ latest'.count = Counted(a).count /\ latest'.retryAfter = RetryAfter(until)
    BY <1>5
  <2>4. RetryAfter(windows[a].until)' = RetryAfter(until)
    BY <1>2, <2>1 DEF RetryAfter, NearestSecond
  <2> QED BY <2>1, <2>2, <2>3, <2>4 DEF LatestSound
<1> QED BY <1>8, <1>9, <1>10, <1>11

LEMMA RestartStep == LimiterIInv /\ Restart => LimiterIInv'
<1> SUFFICES ASSUME LimiterIInv, Restart PROVE LimiterIInv'
  OBVIOUS
<1> USE LimiterAssumption DEF LimiterIInv, Restart
<1>1. LimiterTypeOK'
  BY WindowType DEF LimiterTypeOK, NoAttempt
<1>2. DOMAIN OpenWindows' = {}
  BY DEF OpenWindows, Restrict
<1>3. AdmissionsSound' /\ LockoutsSound' /\ LatestSound'
  BY <1>2 DEF AdmissionsSound, AdmissionsOf, OfOneWindow, LockoutsSound, LatestSound, NoAttempt
<1> QED BY <1>1, <1>3

\* A window that ends leaves no attempt of the one before it.
LEMMA TickStep == LimiterIInv /\ Tick => LimiterIInv'
<1> SUFFICES ASSUME LimiterIInv, Tick PROVE LimiterIInv'
  OBVIOUS
<1> USE DEF LimiterIInv
<1>1. /\ now \in Nat /\ now' = now + 1 /\ now' \in 0 .. MaxTime /\ Window \in Nat /\ Window > 0
      /\ backend' = backend /\ windows' = windows /\ lockedOut' = lockedOut /\ latest' = NoAttempt
  BY LimiterAssumption, WindowType DEF Tick, LimiterTypeOK
<1>2. \A a \in Addresses :
          /\ admitted[a] \in SUBSET [at : 0 .. now, count : Nat \ {0}]
          /\ admitted'[a] = {attempt \in admitted[a] : attempt.at > now' - Window}
  BY DEF Tick, LimiterTypeOK
<1>3. LimiterTypeOK'
  <2>1. \A a \in Addresses : admitted'[a] \in SUBSET [at : 0 .. now', count : Nat \ {0}]
    BY <1>1, <1>2
  <2>2. admitted' \in [Addresses -> SUBSET [at : 0 .. now', count : Nat \ {0}]]
    BY <2>1 DEF Tick
  <2>3. \A a \in DOMAIN windows : windows[a] \in [count : Nat \ {0}, until : 0 .. now' + Window]
    BY <1>1 DEF LimiterTypeOK
  <2>4. lockedOut \in [Addresses -> 0 .. now' \cup {None}]
    BY <1>1 DEF LimiterTypeOK
  <2> QED BY <1>1, <2>2, <2>3, <2>4 DEF LimiterTypeOK, NoAttempt
<1>4. DOMAIN OpenWindows' \subseteq DOMAIN OpenWindows
  BY <1>1, <1>3, OpenFacts DEF OpenWindows, Restrict, LimiterTypeOK
<1>5. AdmissionsSound'
  <2> SUFFICES ASSUME NEW a \in Addresses PROVE AdmissionsOf(a)'
    BY DEF AdmissionsSound
  <2>1. \A attempt \in admitted'[a] : attempt.at > now' - Window /\ attempt.at < now'
    BY <1>1, <1>2
  <2>2. CASE a \in DOMAIN OpenWindows'
    <3>1. Before(a)' \subseteq Before(a) /\ Since(a)' \subseteq Since(a)
      BY <1>1, <1>2 DEF Before, Since, Begin
    <3>2. /\ OfOneWindow(Before(a)) /\ OfOneWindow(Since(a))
          /\ \A attempt \in Since(a) : attempt.count <= windows[a].count
      BY <1>4, <2>2 DEF AdmissionsSound, AdmissionsOf
    <3>3. OfOneWindow(Before(a)') /\ OfOneWindow(Since(a)')
      BY <3>1, <3>2, PartOfOneWindow
    <3> QED BY <1>1, <2>1, <2>2, <3>1, <3>2, <3>3 DEF AdmissionsOf
  <2>3. CASE a \notin DOMAIN OpenWindows'
    <3>1. OfOneWindow(admitted'[a])
      <4>1. CASE a \in DOMAIN OpenWindows
        <5>1. windows[a].until <= now' /\ windows[a].until \in Nat
          <6>1. a \in DOMAIN windows /\ windows[a].until \in Nat
            BY <4>1, OpenFacts
          <6>2. ~ (IF backend = "memory" THEN windows[a].until > now' ELSE windows[a].until >= now')
            BY <1>1, <2>3, <6>1 DEF OpenWindows, Restrict
          <6> QED BY <1>1, <6>1, <6>2
        <5>2. admitted'[a] \subseteq Since(a)
          BY <1>1, <1>2, <5>1 DEF Since, Begin
        <5> QED BY <4>1, <5>2, PartOfOneWindow DEF AdmissionsSound, AdmissionsOf
      <4>2. CASE a \notin DOMAIN OpenWindows
        <5>1. admitted'[a] \subseteq admitted[a]
          BY <1>2
        <5> QED BY <4>2, <5>1, PartOfOneWindow DEF AdmissionsSound, AdmissionsOf
      <4> QED BY <4>1, <4>2
    <3> QED BY <2>1, <2>3, <3>1 DEF AdmissionsOf
  <2> QED BY <2>2, <2>3
<1>6. LockoutsSound'
  BY <1>1, <1>4 DEF LockoutsSound, Begin
<1>7. LatestSound'
  BY <1>1 DEF LatestSound, NoAttempt
<1> QED BY <1>3, <1>5, <1>6, <1>7

-----------------------------------------------------------------------------

\* Both limiters (memory.py:208-216, redis.py:273-281) keep the inductive
\* invariant, however attempts, lost replies, restarts and the clock interleave.
THEOREM Invariance == LimiterSpec => []LimiterIInv
<1>1. ASSUME LimiterIInv, [LimiterNext]_limiterVars PROVE LimiterIInv'
  <2>1. CASE UNCHANGED limiterVars
    <3>1. /\ OpenWindows' = OpenWindows
          /\ \A a : Begin(a)' = Begin(a) /\ Since(a)' = Since(a) /\ Before(a)' = Before(a)
          /\ \A until : RetryAfter(until)' = RetryAfter(until)
      BY <2>1 DEF limiterVars, OpenWindows, Restrict, Begin, Since, Before, RetryAfter, NearestSecond
    <3> QED BY <1>1, <2>1, <3>1 DEF limiterVars, LimiterIInv, LimiterTypeOK, AdmissionsSound,
                                    AdmissionsOf, LockoutsSound, LatestSound
  <2>2. CASE \E a \in Addresses : Hit(a) \/ HitUnanswered(a)
    BY <1>1, <2>2, HitStep, HitUnansweredStep
  <2>3. CASE Restart
    BY <1>1, <2>3, RestartStep
  <2>4. CASE Tick
    BY <1>1, <2>4, TickStep
  <2> QED BY <1>1, <2>1, <2>2, <2>3, <2>4 DEF LimiterNext
<1> QED BY <1>1, InitInvariant, PTL DEF LimiterSpec

\* Types; in particular no counter is ever without an end (redis.py:257-259).
THEOREM LimiterTypes == LimiterSpec => []LimiterTypeOK
<1>1. LimiterIInv => LimiterTypeOK
  BY DEF LimiterIInv
<1> QED BY <1>1, Invariance, PTL

\* In no stretch of time as long as a window are more than twice the limit of
\* attempts let through, for every limit, window and backend.
THEOREM Bursts == LimiterSpec => []BurstsBounded
<1>1. LimiterIInv => BurstsBounded
  BY BurstBound DEF LimiterIInv, BurstsBounded
<1> QED BY <1>1, Invariance, PTL

\* No lockout is longer than a window, however often the address tries in it.
THEOREM Lockouts == LimiterSpec => []LockoutEnds
<1>1. LimiterIInv => LockoutEnds
  <2> SUFFICES ASSUME LimiterIInv, latest.count > MaxAttempts
               PROVE  /\ lockedOut[latest.address] # None
                      /\ now - lockedOut[latest.address] <= Window
    BY DEF LockoutEnds
  <2> USE DEF LimiterIInv
  <2> DEFINE a == latest.address
  <2>1. latest.count > 0
    BY LimiterAssumption DEF LimiterTypeOK
  <2>2. a \in DOMAIN OpenWindows /\ lockedOut[a] # None
    BY <2>1 DEF LatestSound
  <2>3. lockedOut[a] >= Begin(a)
    BY <2>2 DEF LockoutsSound
  <2>4. a \in Addresses /\ windows[a].until \in Nat /\ now <= windows[a].until
    BY <2>2, OpenFacts
  <2>5. lockedOut[a] \in Nat /\ now \in Nat /\ Window \in Nat
    BY <2>2, <2>4, WindowType DEF LimiterTypeOK
  <2> QED BY <2>2, <2>3, <2>4, <2>5 DEF Begin
<1> QED BY <1>1, Invariance, PTL

\* Retry-After, of either limiter, is between one second and a window; with half
\* a second more it outlasts the window; and except in the last half second of
\* the window it does not say half a second more than is left.
THEOREM Patience == LimiterSpec => []PatiencePays
<1>1. LimiterIInv => PatiencePays
  <2> SUFFICES ASSUME LimiterIInv, latest.count > 0 PROVE PatiencePays
    BY DEF PatiencePays
  <2> USE DEF LimiterIInv
  <2> DEFINE until == windows[latest.address].until
  <2>1. latest.address \in DOMAIN OpenWindows /\ latest.retryAfter = RetryAfter(until)
    BY DEF LatestSound
  <2>2. until \in Nat /\ now <= until /\ until <= now + Window /\ now \in Nat
    BY <2>1, OpenFacts DEF LimiterTypeOK
  <2> QED BY <2>1, <2>2, RetryAfterBounds DEF PatiencePays
<1> QED BY <1>1, Invariance, PTL

-----------------------------------------------------------------------------
(***************************************************************************)
(* The limiter implements AttemptCounter.                                  *)
(***************************************************************************)

\* What is added to the history of admissions is an attempt of its own, at the
\* moment at which the limiter lets it through: so what BurstsBounded counts are
\* attempts.
THEOREM AdmissionsCount ==
    LimiterSpec =>
        [][\A a \in Addresses :
               Hit(a) /\ Passes(Counted(a).count) =>
                   Cardinality(admitted'[a]) = Cardinality(admitted[a]) + 1]_limiterVars
<1>1. LimiterIInv =>
          [\A a \in Addresses :
               Hit(a) /\ Passes(Counted(a).count) =>
                   Cardinality(admitted'[a]) = Cardinality(admitted[a]) + 1]_limiterVars
  BY HitIsNew
<1> QED BY <1>1, Invariance, PTL

Attempts == [a \in Addresses |-> AttemptsOf(a)]
Answer == [address |-> latest.address, passes |-> latest.count > 0 /\ Passes(latest.count)]

LEMMA NothingTold ==
    /\ latest = NoAttempt => Answer = Counter!NoAnswer
    /\ latest' = NoAttempt => Answer' = Counter!NoAnswer
<1>1. ~ (0 > 0 /\ Passes(0))
  OBVIOUS
<1>2. (0 > 0 /\ Passes(0)) = FALSE
  BY <1>1, Zenon
<1>3. NoAttempt.address = None /\ NoAttempt.count = 0
  BY DEF NoAttempt
<1>4. ASSUME latest = NoAttempt PROVE Answer = [address |-> None, passes |-> (0 > 0 /\ Passes(0))]
  BY <1>3, <1>4, Zenon DEF Answer
<1>5. ASSUME latest' = NoAttempt PROVE Answer' = [address |-> None, passes |-> (0 > 0 /\ Passes(0))]
  <2>1. Answer' = [address |-> latest'.address, passes |-> (latest'.count > 0 /\ Passes(latest'.count))]
    BY DEF Answer, Passes
  <2> QED BY <1>3, <1>5, <2>1, Zenon
<1> QED BY <1>2, <1>4, <1>5 DEF Counter!NoAnswer

LEMMA AttemptsFacts ==
    ASSUME LimiterTypeOK, NEW a \in Addresses
    PROVE  AttemptsOf(a) = IF a \notin DOMAIN OpenWindows THEN 0
                           ELSE IF windows[a].count <= MaxAttempts THEN windows[a].count
                           ELSE MaxAttempts + 1
BY DEF AttemptsOf, Passes

\* An attempt counts once, in its own window, and for its own address.
LEMMA CountAttempts ==
    ASSUME LimiterTypeOK, LimiterTypeOK', NEW a \in Addresses, Count(a)
    PROVE  /\ Attempts' = [Attempts EXCEPT ![a] = IF @ > MaxAttempts THEN @ ELSE @ + 1]
           /\ Passes(Counted(a).count) <=> Attempts[a] < MaxAttempts
<1>1. MaxAttempts \in Nat \ {0}
  BY LimiterAssumption
<1>2. /\ DOMAIN OpenWindows' = DOMAIN OpenWindows \cup {a}
      /\ windows'[a] = Counted(a)
      /\ \A b \in DOMAIN OpenWindows \ {a} : windows'[b] = windows[b]
  BY CountWindows
<1>3. /\ Counted(a).count \in Nat \ {0}
      /\ Counted(a).count = IF a \in DOMAIN OpenWindows THEN windows[a].count + 1 ELSE 1
      /\ a \in DOMAIN OpenWindows => windows[a].count \in Nat \ {0}
  BY CountedFacts, OpenFacts
<1>4. \A b \in Addresses \ {a} : AttemptsOf(b)' = AttemptsOf(b)
  BY <1>2 DEF AttemptsOf, Passes
<1>5. AttemptsOf(a)' = IF Counted(a).count <= MaxAttempts THEN Counted(a).count ELSE MaxAttempts + 1
  BY <1>2 DEF AttemptsOf, Passes
<1>6. /\ AttemptsOf(a)' = IF AttemptsOf(a) > MaxAttempts THEN AttemptsOf(a) ELSE AttemptsOf(a) + 1
      /\ Counted(a).count <= MaxAttempts <=> AttemptsOf(a) < MaxAttempts
  BY <1>1, <1>3, <1>5, AttemptsFacts
<1> HIDE DEF AttemptsOf
<1>7. DOMAIN Attempts = Addresses /\ \A b \in Addresses : Attempts[b] = AttemptsOf(b)
  BY DEF Attempts
<1>8. Attempts' = [b \in Addresses |-> AttemptsOf(b)']
  BY DEF Attempts
<1> QED BY <1>4, <1>6, <1>7, <1>8 DEF Passes

LEMMA HitCounts ==
    ASSUME LimiterIInv, LimiterIInv', NEW a \in Addresses, Hit(a)
    PROVE  Counter!Attempt(a)
<1>1. /\ Attempts' = [Attempts EXCEPT ![a] = IF @ > MaxAttempts THEN @ ELSE @ + 1]
      /\ Passes(Counted(a).count) <=> Attempts[a] < MaxAttempts
  BY CountAttempts DEF LimiterIInv, Hit
<1>2. Counted(a).count > 0
  BY CountedFacts DEF LimiterIInv
<1>3. latest'.address = a /\ latest'.count = Counted(a).count
  BY DEF Hit
<1>4. Answer' = [address |-> a, passes |-> Attempts[a] < MaxAttempts]
  BY <1>1, <1>2, <1>3 DEF Answer, Passes
<1> QED BY <1>1, <1>4 DEF Counter!Attempt, Attempts, Answer

LEMMA HitUnansweredCounts ==
    ASSUME LimiterIInv, LimiterIInv', NEW a \in Addresses, HitUnanswered(a)
    PROVE  Counter!Attempt(a)
<1>1. Attempts' = [Attempts EXCEPT ![a] = IF @ > MaxAttempts THEN @ ELSE @ + 1]
  BY CountAttempts DEF LimiterIInv, HitUnanswered
<1>2. Answer' = Counter!NoAnswer
  BY NothingTold DEF HitUnanswered
<1> QED BY <1>1, <1>2 DEF Counter!Attempt, Attempts, Answer

\* The clock ends the windows that it passes, and no others.
LEMMA TickEnds ==
    ASSUME LimiterIInv, LimiterIInv', Tick
    PROVE  Counter!WindowsEnd(Addresses \ DOMAIN OpenWindows')
<1> USE DEF LimiterIInv
<1>1. now' = now + 1 /\ backend' = backend /\ windows' = windows /\ now \in Nat
  BY DEF Tick, LimiterTypeOK
<1>2. \A a \in DOMAIN OpenWindows' : a \in DOMAIN OpenWindows
  <2> SUFFICES ASSUME NEW a \in DOMAIN OpenWindows' PROVE a \in DOMAIN OpenWindows
    OBVIOUS
  <2>1. /\ a \in DOMAIN windows
        /\ IF backend = "memory" THEN windows[a].until > now + 1 ELSE windows[a].until >= now + 1
    BY <1>1 DEF OpenWindows, Restrict
  <2>2. windows[a].until \in Int
    BY <1>1, <2>1, WindowType DEF LimiterTypeOK
  <2> QED BY <1>1, <2>1, <2>2 DEF OpenWindows, Restrict
<1>3. \A a \in Addresses :
          AttemptsOf(a)' = IF a \notin DOMAIN OpenWindows' THEN 0 ELSE AttemptsOf(a)
  BY <1>1, <1>2 DEF AttemptsOf, Passes
<1>4. Answer' = Counter!NoAnswer
  BY NothingTold DEF Tick
<1> QED BY <1>3, <1>4 DEF Counter!WindowsEnd, Answer

\* All windows end with the process.
LEMMA RestartEnds ==
    ASSUME Restart
    PROVE  Counter!WindowsEnd(Addresses)
<1>1. DOMAIN OpenWindows' = {}
  BY DEF Restart, OpenWindows, Restrict
<1>2. \A a \in Addresses : AttemptsOf(a)' = 0
  BY <1>1 DEF AttemptsOf
<1>3. Answer' = Counter!NoAnswer
  BY NothingTold DEF Restart
<1> QED BY <1>2, <1>3 DEF Counter!WindowsEnd, Answer

\* Either limiter, with its clock, its purges and its restarts, is a counter of
\* attempts: each counts once in its own window, and is let through exactly if
\* fewer than the limit were counted there before it.
THEOREM Counts == LimiterSpec => CountsAttempts
<1>1. LimiterInit => Counter!CounterInit
  <2> SUFFICES ASSUME LimiterInit PROVE Counter!CounterInit
    OBVIOUS
  <2>1. DOMAIN OpenWindows = {}
    BY DEF LimiterInit, OpenWindows, Restrict
  <2>2. \A a \in Addresses : AttemptsOf(a) = 0
    BY <2>1 DEF AttemptsOf
  <2>3. Answer = Counter!NoAnswer
    BY NothingTold DEF LimiterInit
  <2> QED BY <2>2, <2>3 DEF Counter!CounterInit, Answer
<1>2. LimiterIInv /\ LimiterIInv' /\ [LimiterNext]_limiterVars =>
          [Counter!CounterNext]_<<Attempts, Answer>>
  <2> SUFFICES ASSUME LimiterIInv, LimiterIInv', [LimiterNext]_limiterVars
               PROVE  [Counter!CounterNext]_<<Attempts, Answer>>
    OBVIOUS
  <2>1. CASE UNCHANGED limiterVars
    <3>1. OpenWindows' = OpenWindows
      BY <2>1 DEF limiterVars, OpenWindows, Restrict
    <3> QED BY <2>1, <3>1 DEF limiterVars, Attempts, AttemptsOf, Answer, Passes
  <2>2. CASE \E a \in Addresses : Hit(a) \/ HitUnanswered(a)
    BY <2>2, HitCounts, HitUnansweredCounts DEF Counter!CounterNext
  <2>3. CASE Restart
    BY <2>3, RestartEnds DEF Counter!CounterNext
  <2>4. CASE Tick
    <3>1. Addresses \ DOMAIN OpenWindows' \in SUBSET Addresses
      OBVIOUS
    <3> QED BY <2>4, <3>1, TickEnds DEF Counter!CounterNext
  <2> QED BY <2>1, <2>2, <2>3, <2>4 DEF LimiterNext
<1> QED BY <1>1, <1>2, Invariance, PTL
        DEF LimiterSpec, CountsAttempts, Counter!CounterSpec, Counter!counterVars, Attempts, Answer

=============================================================================
