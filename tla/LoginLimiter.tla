----------------------------- MODULE LoginLimiter -----------------------------
(***************************************************************************)
(* The login attempt limiter of storage/memory.py and storage/redis.py,    *)
(* and what POST /authorize does with its answer: a fixed window per       *)
(* address, which begins with the first attempt after the last one ended.  *)
(*                                                                         *)
(* A second has Grain ticks, since both limiters round what is left of a   *)
(* window to whole seconds.  Redis runs MULTI as one step; a replica that  *)
(* stops before EXEC has run nothing, one that stops after it has counted. *)
(***************************************************************************)
EXTENDS Integers, FiniteSets, Functions

CONSTANTS
    Addresses,      \* _client_ip(request)
    MaxAttempts,    \* LOGIN_RATE_LIMIT_MAX_ATTEMPTS
    WindowSeconds,  \* LOGIN_RATE_LIMIT_WINDOW_SECONDS
    Grain,          \* ticks in a second
    None,
    MaxCount,       \* bound: an address makes no more attempts in a window
    MaxTime         \* bound on the clock

ASSUME LimiterAssumption ==
    /\ MaxAttempts \in Nat \ {0} /\ WindowSeconds \in Nat \ {0}
    /\ Grain \in Nat \ {0} /\ MaxTime \in Nat /\ MaxCount \in Nat
    /\ None \notin Addresses \cup Nat

Window == WindowSeconds * Grain

VARIABLES
    backend,        \* "memory" or "redis"
    now,            \* time.monotonic, or the clock of the Redis server
    windows,        \* windows[a]: the count of address a, and when it ends
    admitted,       \* history: the attempts of an address that were let through
                    \* and when, back to a window ago
    lockedOut,      \* history: the first of the refusals that an address
                    \* has had in a row, None if its latest attempt passed
    latest          \* the attempt answered just now, and the answer

limiterVars == <<backend, now, windows, admitted, lockedOut, latest>>

NoAttempt == [address |-> None, count |-> 0, retryAfter |-> 0]

\* Types; a count is never without an end.
LimiterTypeOK ==
    /\ backend \in {"memory", "redis"}
    /\ now \in 0 .. MaxTime
    /\ DOMAIN windows \subseteq Addresses
    /\ \A a \in DOMAIN windows :
           windows[a] \in [count : Nat \ {0}, until : 0 .. now + Window]
    /\ admitted \in [Addresses -> SUBSET [at : 0 .. now, count : Nat \ {0}]]
    /\ lockedOut \in [Addresses -> 0 .. now \cup {None}]
    /\ latest \in [address : Addresses \cup {None}, count : Nat, retryAfter : Nat]

LimiterInit ==
    /\ backend \in {"memory", "redis"}
    /\ now = 0
    /\ windows = [a \in {} |-> 0]
    /\ admitted = [a \in Addresses |-> {}]
    /\ lockedOut = [a \in Addresses |-> None]
    /\ latest = NoAttempt

-----------------------------------------------------------------------------

\* The nearest whole number of seconds; of two, Python takes the even one
\* and Redis the larger.
NearestSecond(ticks) ==
    LET low == ticks \div Grain
        rest == 2 * (ticks % Grain)
    IN  IF rest < Grain \/ (rest = Grain /\ backend = "memory" /\ low % 2 = 0)
        THEN low ELSE low + 1

\* The windows that go on: the memory limiter purges those at their end, and
\* Redis has dropped those past it.
OpenWindows == Restrict(windows,
    {a \in DOMAIN windows : IF backend = "memory" THEN windows[a].until > now
                            ELSE windows[a].until >= now})

\* Faulty: INCR first, and then an EXPIRE that the end of the replica cut off.
CountedForever(a) ==
    IF a \in DOMAIN OpenWindows
    THEN [windows[a] EXCEPT !.count = @ + 1]
    ELSE [count |-> 1, until |-> MaxTime + Window]

\* Faulty: an address that was refused starts over.
CountedAnew(a) ==
    IF a \in DOMAIN OpenWindows /\ windows[a].count <= MaxAttempts
    THEN [windows[a] EXCEPT !.count = @ + 1]
    ELSE [count |-> 1, until |-> now + Window]

\* SET key 0 NX EX window and INCR, or the two assignments of the memory
\* limiter: the window of the address after one more attempt.
Counted(a) ==
    IF a \in DOMAIN OpenWindows
    THEN [windows[a] EXCEPT !.count = @ + 1]
    ELSE [count |-> 1, until |-> now + Window]

\* Faulty: the rest of the window is rounded, and may come out as 0.
RetryAfterUnfloored(until) == NearestSecond(until - now)

\* max(1, round(reset_at - now)); or TTL, and where that is 0 the window.
RetryAfter(until) ==
    LET seconds == NearestSecond(until - now)
    IN  IF seconds > 0 THEN seconds
        ELSE IF backend = "memory" THEN 1 ELSE WindowSeconds

\* Faulty: one attempt more.
PassesOnceMore(count) == count <= MaxAttempts + 1

Passes(count) == count <= MaxAttempts

\* The windows after one more attempt of a.
Count(a) ==
    /\ Counted(a).count <= MaxCount
    /\ windows' = [b \in DOMAIN OpenWindows \cup {a} |->
                      IF b = a THEN Counted(a) ELSE windows[b]]
    /\ lockedOut' = [lockedOut EXCEPT ![a] =
            IF Passes(Counted(a).count) THEN None ELSE IF @ = None THEN now ELSE @]
    /\ UNCHANGED <<backend, now>>

\* hit, and what its caller makes of the answer: the login goes on, or ends
\* with 429.
Hit(a) ==
    /\ Count(a)
    /\ latest' = [address |-> a, count |-> Counted(a).count,
                  retryAfter |-> RetryAfter(Counted(a).until)]
    /\ admitted' = [admitted EXCEPT ![a] =
                        IF Passes(Counted(a).count)
                        THEN @ \cup {[at |-> now, count |-> Counted(a).count]} ELSE @]

\* The attempt is counted, but the reply of Redis is lost, and the login ends
\* with an error.
HitUnanswered(a) ==
    /\ backend = "redis"
    /\ Count(a)
    /\ latest' = NoAttempt
    /\ UNCHANGED admitted

\* The memory of a process ends with it.
Restart ==
    /\ backend = "memory"
    /\ windows' = [a \in {} |-> 0]
    /\ admitted' = [a \in Addresses |-> {}]
    /\ lockedOut' = [a \in Addresses |-> None]
    /\ latest' = NoAttempt
    /\ UNCHANGED <<backend, now>>

Tick ==
    /\ now < MaxTime
    /\ now' = now + 1
    /\ latest' = NoAttempt
    /\ admitted' = [a \in Addresses |->
                        {attempt \in admitted[a] : attempt.at > now' - Window}]
    /\ UNCHANGED <<backend, windows, lockedOut>>

LimiterNext ==
    \/ \E a \in Addresses : Hit(a) \/ HitUnanswered(a)
    \/ Restart
    \/ Tick

LimiterSpec == LimiterInit /\ [][LimiterNext]_limiterVars

-----------------------------------------------------------------------------

\* A window is fixed, so that two of them may meet in the middle of a burst;
\* but however the attempts of an address fall, no stretch of time as long as
\* a window has more than twice the limit of them let through.
BurstsBounded ==
    \A a \in Addresses : Cardinality(admitted[a]) <= 2 * MaxAttempts

\* No counter is immortal ("can never leave an immortal counter (permanent
\* lockout)", redis.py:257-259): an address that is refused has not been
\* refused time and again for longer than a window, however often it tries
\* and whatever replies are lost.
LockoutEnds ==
    latest.count > MaxAttempts =>
        /\ lockedOut[latest.address] # None
        /\ now - lockedOut[latest.address] <= Window

\* Retry-After is a number of seconds from one to a window.  Whoever waits that
\* long and half a second more, for the rounding, has outlasted the window; and
\* nobody is told to wait half a second longer than that takes, except in the
\* last half second of a window, when memory says one second (round gives 0) and
\* Redis a whole window (TTL gives 0, which the code takes for no TTL).
PatiencePays ==
    latest.count > 0 =>
        LET left == windows[latest.address].until - now
            said == latest.retryAfter * Grain
        IN  /\ latest.retryAfter \in 1 .. WindowSeconds
            /\ 2 * said + Grain >= 2 * left
            /\ \/ 2 * said <= 2 * left + Grain
               \/ /\ 2 * left <= Grain
                  /\ latest.retryAfter = IF backend = "memory" THEN 1 ELSE WindowSeconds

\* hit returns "seconds_until_window_resets" (base.py:91): what it returns
\* exceeds what is left by no more than a second.
RetryAfterIsWhatIsLeft ==
    latest.count > 0 =>
        latest.retryAfter * Grain <= windows[latest.address].until - now + Grain

-----------------------------------------------------------------------------
(* The limiter as its caller sees it. *)

\* The attempts of the open window, at most one over the limit.
AttemptsOf(a) ==
    CASE a \notin DOMAIN OpenWindows -> 0
      [] a \in DOMAIN OpenWindows /\ Passes(windows[a].count) -> windows[a].count
      [] OTHER -> MaxAttempts + 1

Counter == INSTANCE AttemptCounter WITH
    attempts <- [a \in Addresses |-> AttemptsOf(a)],
    answer <- [address |-> latest.address, passes |-> latest.count > 0 /\ Passes(latest.count)]

\* Either limiter is the counter that POST /authorize takes it for: whatever the
\* clock, the purges, the restarts and the lost replies do, an attempt counts
\* once and in its own window, and is let through exactly if fewer than the
\* limit were counted there before it.
CountsAttempts == Counter!CounterSpec

-----------------------------------------------------------------------------
(* What makes the limits hold. *)

\* Attempts that one window has let through: no more than the limit, for each
\* has a count of its own.
OfOneWindow(attempts) ==
    /\ \A attempt \in attempts : Passes(attempt.count)
    /\ \A attempt, other \in attempts : attempt.count = other.count => attempt = other

\* The attempts of a that its open window has let through, and those before.
Begin(a) == windows[a].until - Window
Since(a) == {attempt \in admitted[a] : attempt.at >= Begin(a)}
Before(a) == {attempt \in admitted[a] : attempt.at < Begin(a)}

\* Of the attempts a window ago and less, those before the open window are of
\* one window, the one before; and if none is open, all are.
AdmissionsOf(a) ==
    /\ \A attempt \in admitted[a] : attempt.at > now - Window
    /\ IF a \in DOMAIN OpenWindows
       THEN /\ OfOneWindow(Before(a)) /\ OfOneWindow(Since(a))
            /\ \A attempt \in Since(a) : attempt.count <= windows[a].count
       ELSE /\ OfOneWindow(admitted[a])
            /\ \A attempt \in admitted[a] : attempt.at < now

AdmissionsSound == \A a \in Addresses : AdmissionsOf(a)

\* Refusals in a row are of the open window, for the first attempt in a window
\* passes.
LockoutsSound ==
    \A a \in DOMAIN OpenWindows : lockedOut[a] # None => lockedOut[a] >= Begin(a)

\* The answer was made from the open window, with the clock as it is.
LatestSound ==
    latest.count > 0 =>
        /\ latest.address \in DOMAIN OpenWindows
        /\ latest.count = windows[latest.address].count
        /\ latest.retryAfter = RetryAfter(windows[latest.address].until)
        /\ latest.count > MaxAttempts => lockedOut[latest.address] # None

\* The inductive invariant.
LimiterIInv == LimiterTypeOK /\ AdmissionsSound /\ LockoutsSound /\ LatestSound

=============================================================================
