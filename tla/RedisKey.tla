------------------------------ MODULE RedisKey ------------------------------
(***************************************************************************)
(* What the scripts of ratelimiter/redis share: Redis runs each one        *)
(* atomically, it reads Redis's own TIME, and the key it leaves behind     *)
(* expires.  Every gateway instance calls the same script, so who calls is *)
(* not modelled; one key is, since scripts touch no other.                 *)
(*                                                                         *)
(* TIME is a wall clock: it follows the time but may be set back, by an    *)
(* NTP correction or a failover.  A key past its expiry is gone for every  *)
(* script, whether or not Redis has come to delete it.                     *)
(***************************************************************************)
EXTENDS Integers

CONSTANTS
    Limit,       \* requests a limiter is configured to allow ...
    Window,      \* ... in this many ticks
    Millisecond, \* ticks in a millisecond
    Grain,       \* ticks to which tostring rounds a time in seconds
    Start,       \* what TIME shows at first
    MaxTime,     \* bound: the last tick
    MaxSteps,    \* bound: how often TIME is set back
    MaxEarly,    \* bound: ticks by which the token bucket stored a ts too early
    Margin       \* the second a script adds to the life of its key, in ticks

\* The constructors refuse a limit or a window that is not positive; windows are
\* whole milliseconds.
ASSUME RedisLimiterAssumption ==
    /\ Limit \in Nat \ {0}
    /\ Window \in Nat \ {0}
    /\ Millisecond \in Nat \ {0}
    /\ Window % Millisecond = 0
    /\ Grain \in Nat \ {0}

ASSUME RedisAssumption ==
    /\ Start \in Nat
    /\ MaxTime \in Nat
    /\ MaxSteps \in Nat
    /\ MaxEarly \in Nat
    /\ Margin \in Nat

VARIABLES
    time,        \* ticks since the start
    clock,       \* redis.call('TIME')
    steps,       \* how often TIME was set back
    expireAt     \* when the key expires, by TIME

serverVars == <<time, clock, steps>>

ServerInit ==
    /\ time = 0
    /\ clock = Start
    /\ steps = 0

\* A key whose expiry has passed.  When TIME is set back it is there again, as in
\* Redis unless active expiry has deleted it meanwhile.  A deleted one is the
\* milder case: at least as much time has really passed as TIME showed, so what
\* the key remembered no longer matters to any span or wait.
Expired == clock > expireAt

Tick ==
    /\ time < MaxTime
    /\ time' = time + 1
    /\ clock' = clock + 1
    /\ UNCHANGED <<steps, expireAt>>

SetBack ==
    /\ steps < MaxSteps
    /\ \E d \in 1..clock : clock' = clock - d
    /\ steps' = steps + 1
    /\ UNCHANGED <<time, expireAt>>
=============================================================================
