--------------------------- MODULE RedisLimiters ---------------------------
(***************************************************************************)
(* The Redis implementations of ratelimiter.Limiter: the gateway builds    *)
(* one of them at start-up (the token bucket, as it stands) and calls its  *)
(* script for every request.  Each is an instance over the same server.    *)
(***************************************************************************)
EXTENDS RedisKey

VARIABLES
    algorithm,                   \* the implementation in use
    bucket,                      \* the token bucket's hash
    entries, allowed, serial,    \* the log's sorted set and its history
    state,                       \* the counter's hash
    tally,                       \* history: requests the hashes allowed, at each tick
    early                        \* history: by how much the bucket stored a ts too early

Bucket == INSTANCE RedisTokenBucket WITH allowed <- tally
Log == INSTANCE RedisSlidingWindowLog
Counter == INSTANCE RedisSlidingWindowCounter WITH allowed <- tally

logVars == <<entries, allowed, serial>>
vars == <<serverVars, expireAt, algorithm, bucket, logVars, state, tally, early>>

Init ==
    /\ algorithm \in {"bucket", "log", "counter"}
    /\ Bucket!Init
    /\ Log!Init
    /\ Counter!Init

Next ==
    /\ \/ algorithm = "bucket" /\ Bucket!Next /\ UNCHANGED <<logVars, state>>
       \/ algorithm = "log" /\ Log!Next /\ UNCHANGED <<bucket, state, tally, early>>
       \/ algorithm = "counter" /\ Counter!Next /\ UNCHANGED <<bucket, logVars, early>>
    /\ UNCHANGED algorithm

Spec == Init /\ [][Next]_vars

-----------------------------------------------------------------------------
\* The token bucket's promise, through expiry of its key and TIME set back.
ThrottledToRefill == algorithm = "bucket" => Bucket!ThrottledToRefill

\* The sliding window log's promise, through expiry and TIME set back.
CeilingIsExact == algorithm = "log" => Log!CeilingIsExact

\* The waits the log reports are long enough.
WaitsAreEnough == algorithm = "log" => Log!WaitsAreEnough

\* The sliding window counter's promise, through expiry; once TIME has been set
\* back its windows no longer follow the time, and it is not claimed.
NoBoundaryBurst == algorithm = "counter" /\ steps = 0 => Counter!NoBoundaryBurst

\* The wait the counter reports is long enough, TIME set back before it or not.
RetryIsEnough == algorithm = "counter" => Counter!RetryIsEnough
=============================================================================
