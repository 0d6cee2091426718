--------------------------- MODULE MemoryLimiters ---------------------------
(***************************************************************************)
(* The in-memory implementations of ratelimiter.Limiter behind the one     *)
(* interface: whoever builds the limiter picks an algorithm, and its       *)
(* callers never learn which.  The log is the module extended here, the    *)
(* other two are instances over the same clock and callers.                *)
(*                                                                         *)
(* A call is overtaken when another one with a later reading got the mutex *)
(* first.  The bucket and the counter keep their promises up to the delay  *)
(* of the readings as long as that does not happen; the log needs no such  *)
(* condition.                                                              *)
(***************************************************************************)
EXTENDS SlidingWindowLog

VARIABLES
    algorithm,           \* the implementation in use
    tokens, lastSeen,    \* the token bucket's
    state,               \* the counter's
    tally,               \* history: requests these two allowed, at each tick
    latest,              \* history: the reading of the last decision
    overtaken            \* history: a call was decided after a later reading

Bucket == INSTANCE TokenBucket WITH allowed <- tally
Counter == INSTANCE SlidingWindowCounter WITH allowed <- tally

logVars == <<entries, allowed, serial>>
bucketVars == <<tokens, lastSeen>>
limiterVars == <<clock, reading, logVars, bucketVars, state, tally, algorithm, latest, overtaken>>

LimiterInit ==
    /\ algorithm \in {"log", "bucket", "counter"}
    /\ Init
    /\ Bucket!Init
    /\ Counter!Init
    /\ latest = 0
    /\ overtaken = FALSE

Observe ==
    LET decided == {reading[c] : c \in {x \in Callers : Waiting(x) /\ reading'[x] = NotCalling}}
    IN  /\ latest' = IF decided = {} THEN latest ELSE Max(decided)
        /\ overtaken' = (overtaken \/ \E now \in decided : now < latest)

LimiterNext ==
    /\ \/ algorithm = "log" /\ Next /\ UNCHANGED <<bucketVars, state, tally>>
       \/ algorithm = "bucket" /\ Bucket!Next /\ UNCHANGED <<logVars, state>>
       \/ algorithm = "counter" /\ Counter!Next /\ UNCHANGED <<logVars, bucketVars>>
    /\ Observe
    /\ UNCHANGED algorithm

LimiterSpec == LimiterInit /\ [][LimiterNext]_limiterVars

-----------------------------------------------------------------------------
\* The token bucket's promise, while no call is overtaken.
ThrottledToRefill == algorithm = "bucket" /\ ~overtaken => Bucket!ThrottledToRefill

\* The sliding window counter's promise, while no call is overtaken.
NoBoundaryBurst == algorithm = "counter" /\ ~overtaken => Counter!NoBoundaryBurst

\* The interface's RetryAfter, overtaken calls included: a denied caller that
\* waits so long is allowed, to the tick by the counter and within one by the
\* bucket.
RetryIsEnough ==
    /\ algorithm = "bucket" => Bucket!RetryWithinATick
    /\ algorithm = "counter" => Counter!RetryIsEnough
=============================================================================
