----------------------- MODULE RedisSlidingWindowLog -----------------------
(***************************************************************************)
(* The Redis sliding window log (redis/scripts/slidingwindowlog.lua,       *)
(* called by SlidingWindowLog.Allow of redis/limiters.go).  A member of    *)
(* the sorted set is its score, with a number for the unique id the caller *)
(* sends and the time at which the request was really allowed.             *)
(***************************************************************************)
EXTENDS RedisKey, FiniteSets, FiniteSetsExt

VARIABLES
    entries,     \* the sorted set
    allowed,     \* history: every entry there ever was
    serial       \* history: requests allowed so far

zvars == <<serverVars, expireAt, entries, allowed, serial>>

Init ==
    /\ ServerInit
    /\ expireAt = -1
    /\ entries = {}
    /\ allowed = {}
    /\ serial = 0

\* ZREMRANGEBYSCORE -inf cutoff: an entry as old as the window is removed.
Kept == IF Expired THEN {} ELSE {e \in entries : e.score > clock - Window}

NotNegative(n) == IF n < 0 THEN 0 ELSE n

\* The waits the script reports for the members it leaves.
RetryAfter(members) == NotNegative(Min({e.score : e \in members}) + Window - clock)

\* Mutant of ResetAfter: it counts from the oldest member.
ResetAtOldest(members) == RetryAfter(members)

ResetAfter(members) == NotNegative(Max({e.score : e \in members}) + Window - clock)

\* Mutant of Ttl: the key lives as long as its oldest member.
TtlOldest(members) == RetryAfter(members)

Ttl(members) == ResetAfter(members) + Margin

Allow ==
    LET entry == [score |-> clock, at |-> time, n |-> serial]
        fits == Cardinality(Kept) < Limit
    IN  /\ entries' = IF fits THEN Kept \cup {entry} ELSE Kept
        /\ allowed' = IF fits THEN allowed \cup {entry} ELSE allowed
        /\ serial' = IF fits THEN serial + 1 ELSE serial
        /\ expireAt' = clock + Ttl(entries')
        /\ UNCHANGED serverVars

Next ==
    \/ Allow
    \/ (Tick \/ SetBack) /\ UNCHANGED <<entries, allowed, serial>>

Spec == Init /\ [][Next]_zvars

-----------------------------------------------------------------------------
\* "It is exact": in no span of time as long as the window are more than limit
\* requests allowed, however TIME is set back and whenever the key expires.
CeilingIsExact == Cardinality({e \in allowed : e.at > time - Window}) <= Limit

\* A denied caller that waits RetryAfter finds a slot, unless TIME is set back
\* while it waits, and one that waits ResetAfter finds nothing counted.
WaitsAreEnough ==
    LET after(wait) == {e \in Kept : e.score > clock + wait - Window}
    IN  Cardinality(Kept) >= Limit =>
           /\ Cardinality(after(RetryAfter(Kept))) < Limit
           /\ after(ResetAfter(Kept)) = {}
=============================================================================
