---------------------------- MODULE AttemptCounter ----------------------------
(***************************************************************************)
(* What POST /authorize counts on in the login attempt limiter (the        *)
(* LoginRateLimiter of storage/base.py): each attempt of an address counts *)
(* once, the first MaxAttempts since its window began are let through, and *)
(* no others.  A window may end at any time.                               *)
(***************************************************************************)
EXTENDS Integers

CONSTANTS Addresses, MaxAttempts, None

VARIABLES
    attempts,       \* attempts[a]: how many of the window, at most one over
                    \* the limit, since larger counts behave alike
    answer          \* what the latest attempt has been told

counterVars == <<attempts, answer>>

\* Nobody was told anything just now.
NoAnswer == [address |-> None, passes |-> FALSE]

CounterInit ==
    /\ attempts = [a \in Addresses |-> 0]
    /\ answer = NoAnswer

\* The answer may be lost, and the attempt counts nevertheless.
Attempt(a) ==
    /\ attempts' = [attempts EXCEPT ![a] = IF @ > MaxAttempts THEN @ ELSE @ + 1]
    /\ answer' \in {[address |-> a, passes |-> attempts[a] < MaxAttempts], NoAnswer}

\* The windows of some addresses end.
WindowsEnd(ended) ==
    /\ attempts' = [a \in Addresses |-> IF a \in ended THEN 0 ELSE attempts[a]]
    /\ answer' = NoAnswer

CounterNext ==
    \/ \E a \in Addresses : Attempt(a)
    \/ \E ended \in SUBSET Addresses : WindowsEnd(ended)

CounterSpec == CounterInit /\ [][CounterNext]_counterVars

=============================================================================
