---------------------------- MODULE LimiterClock ----------------------------
(***************************************************************************)
(* What the in-memory limiters of ratelimiter/algorithms share: every      *)
(* Allow reads the clock first and takes the mutex after, so a caller may  *)
(* decide on a reading that is older than the last decision.  Callers are  *)
(* the goroutines of the gateway; one key is modelled, the state of two    *)
(* keys having nothing in common.                                          *)
(*                                                                         *)
(* Time is counted in ticks (time.Duration's nanoseconds).  SystemClock's  *)
(* readings carry Go's monotonic clock, so time never goes back.           *)
(***************************************************************************)
EXTENDS Integers

CONSTANTS
    Limit,       \* requests a limiter is configured to allow ...
    Window,      \* ... in this many ticks
    Callers,
    MaxDelay,    \* longest time between a caller's reading and its mutex
    MaxTime      \* bound: the last tick

\* The constructors refuse a limit or a window that is not positive.
ASSUME LimiterAssumption ==
    /\ Limit \in Nat \ {0}
    /\ Window \in Nat \ {0}

ASSUME ClockAssumption ==
    /\ MaxDelay \in Nat
    /\ MaxTime \in Nat

VARIABLES
    clock,       \* the time
    reading      \* now of a caller waiting for the mutex, or NotCalling

NotCalling == -1

ClockInit ==
    /\ clock = 0
    /\ reading = [c \in Callers |-> NotCalling]

Waiting(c) == reading[c] # NotCalling

\* now := clock.Now()
ReadClock(c) ==
    /\ ~Waiting(c)
    /\ reading' = [reading EXCEPT ![c] = clock]
    /\ UNCHANGED clock

\* The deferred Unlock: Allow returns.
Returned(c) ==
    /\ reading' = [reading EXCEPT ![c] = NotCalling]
    /\ UNCHANGED clock

Tick ==
    /\ clock < MaxTime
    /\ \A c \in Callers : Waiting(c) => clock - reading[c] < MaxDelay
    /\ clock' = clock + 1
    /\ UNCHANGED reading

ClockTypeOK ==
    /\ clock \in 0..MaxTime
    /\ reading \in [Callers -> {NotCalling} \cup 0..MaxTime]
    /\ \A c \in Callers : Waiting(c) => reading[c] <= clock /\ clock <= reading[c] + MaxDelay
=============================================================================
