----------------------------- MODULE TokenBucket -----------------------------
(***************************************************************************)
(* The in-memory token bucket (algorithms/tokenbucket.go).  A token is     *)
(* Interval units, so that the refill of capacity tokens per interval is   *)
(* Capacity units a tick and every token count the code computes is a      *)
(* whole number of units; float64 rounding is left out.                    *)
(***************************************************************************)
EXTENDS LimiterClock, FiniteSets

\* The constructor's names for its limit and window.
Capacity == Limit
Interval == Window

VARIABLES
    tokens,      \* bucketState.tokens, in units
    lastSeen,    \* bucketState.lastSeen, Unseen while the key has no bucket
    allowed      \* history: requests allowed, at each tick

tvars == <<clock, reading, tokens, lastSeen, allowed>>

Token == Interval
Full == Capacity * Token
Unseen == -1

Init ==
    /\ ClockInit
    /\ tokens = Full
    /\ lastSeen = Unseen
    /\ allowed = [t \in 0..MaxTime |-> 0]

\* Mutant of Refilled: no cap at the capacity.
RefilledUncapped(now) ==
    IF lastSeen = Unseen THEN Full
    ELSE IF now <= lastSeen THEN tokens ELSE tokens + (now - lastSeen) * Capacity

\* The bucket's tokens after refill, which credits nothing for a reading that
\* is not later than the last one.
Refilled(now) ==
    LET more == tokens + (now - lastSeen) * Capacity
    IN  IF lastSeen = Unseen THEN Full
        ELSE IF now <= lastSeen THEN tokens
        ELSE IF more > Full THEN Full ELSE more

\* lastSeen becomes now, also when now is the older of the two.
Allow(c) ==
    LET now == reading[c]
    IN  /\ Waiting(c)
        /\ Returned(c)
        /\ lastSeen' = now
        /\ IF Refilled(now) >= Token
           THEN /\ tokens' = Refilled(now) - Token
                /\ allowed' = [allowed EXCEPT ![clock] = @ + 1]
           ELSE /\ tokens' = Refilled(now)
                /\ UNCHANGED allowed

Next ==
    \/ \E c \in Callers : ReadClock(c) /\ UNCHANGED <<tokens, lastSeen, allowed>>
    \/ \E c \in Callers : Allow(c)
    \/ Tick /\ UNCHANGED <<tokens, lastSeen, allowed>>

Spec == Init /\ [][Next]_tvars

\* durationFor: the time to accrue units, truncated to a whole tick.
DurationFor(units) == IF units <= 0 THEN 0 ELSE units \div Capacity
RetryAfter(now) == DurationFor(Token - Refilled(now))

-----------------------------------------------------------------------------
\* Requests allowed from tick s on, as a set with one element each.
AllowedFrom(s) == UNION {{t} \X (1..allowed[t]) : t \in s..clock}

\* The type's promise: a key "can spend the whole bucket at once, then is
\* throttled to the refill rate".  In every span of time the requests allowed
\* fit a full bucket and what refills while the span lasts, up to the delay by
\* which a caller's reading may precede it.
ThrottledToRefill ==
    \A s \in 0..clock :
        Cardinality(AllowedFrom(s)) * Token <= Full + (clock - s + MaxDelay) * Capacity

\* Result.RetryAfter "is when *one* request would be permitted again": durationFor
\* truncates, so that a denied caller may find the token short by less than a
\* tick's refill, and one that waits a tick longer is allowed.
RetryWithinATick ==
    \A c \in Callers :
        LET now == reading[c]
        IN  Waiting(c) /\ Refilled(now) < Token =>
               Refilled(now) + (RetryAfter(now) + 1) * Capacity >= Token
=============================================================================
