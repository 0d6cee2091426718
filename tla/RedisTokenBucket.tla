-------------------------- MODULE RedisTokenBucket --------------------------
(***************************************************************************)
(* The Redis token bucket (redis/scripts/tokenbucket.lua, called by        *)
(* TokenBucket.Allow of redis/limiters.go).  As in module TokenBucket a    *)
(* token is Interval units, and float rounding is left out but for one     *)
(* place: tostring(now) keeps 14 significant digits, ten of them before    *)
(* the decimal point, so the stored ts is a multiple of Grain (0.1 ms).    *)
(***************************************************************************)
EXTENDS RedisKey, FiniteSets

\* The constructor's names for its limit and window.
Capacity == Limit
Interval == Window

VARIABLES
    bucket,      \* the hash: tokens and ts
    allowed,     \* history: requests allowed, at each tick
    early        \* history: by how much calls of a tick stored a ts before it

bvars == <<serverVars, expireAt, bucket, allowed, early>>

Token == Interval
Full == Capacity * Token

Init ==
    /\ ServerInit
    /\ expireAt = -1
    /\ bucket = [tokens |-> Full, ts |-> Start]
    /\ allowed = [t \in 0..MaxTime |-> 0]
    /\ early = [t \in 0..MaxTime |-> 0]

\* tostring(now)
Stored(now) == ((now + Grain \div 2) \div Grain) * Grain

\* HMGET and the credit for the time elapsed; an unseen key starts full.
Refilled ==
    LET elapsed == clock - bucket.ts
        more == bucket.tokens + elapsed * Capacity
    IN  IF Expired THEN Full
        ELSE IF elapsed <= 0 THEN bucket.tokens
        ELSE IF more > Full THEN Full ELSE more

\* Mutant of Ttl: the key lives until its next token.
TtlToNextToken(tokens) == (Token - (tokens % Token)) \div Capacity

\* PEXPIRE: until the bucket is full again, and a margin.
Ttl(tokens) == (Full - tokens + Capacity - 1) \div Capacity + Margin

\* The elements of s..time of a count per tick, one for each unit counted.
From(count, s) == UNION {{t} \X (1..count[t]) : t \in s..time}

Allow ==
    LET left == IF Refilled >= Token THEN Refilled - Token ELSE Refilled
        short == IF clock > Stored(clock) THEN clock - Stored(clock) ELSE 0
    IN  /\ Cardinality(From(early, 0)) + short <= MaxEarly
        /\ bucket' = [tokens |-> left, ts |-> Stored(clock)]
        /\ expireAt' = clock + Ttl(left)
        /\ allowed' = IF Refilled >= Token THEN [allowed EXCEPT ![time] = @ + 1] ELSE allowed
        /\ early' = [early EXCEPT ![time] = @ + short]
        /\ UNCHANGED serverVars

Next ==
    \/ Allow
    \/ (Tick \/ SetBack) /\ UNCHANGED <<bucket, allowed, early>>

Spec == Init /\ [][Next]_bvars

-----------------------------------------------------------------------------
\* The constructor's promise, "allowing capacity requests in a burst, refilling
\* at capacity tokens per interval", as far as the script keeps it.  In every
\* span of time the requests allowed fit a full bucket and what refills while it
\* lasts, although the key expires in between and TIME is set back; but time by
\* which the stored ts was too early, on a refused call too, refills again.
ThrottledToRefill ==
    \A s \in 0..time :
        Cardinality(From(allowed, s)) * Token <=
            Full + (time - s + Cardinality(From(early, s))) * Capacity
=============================================================================
