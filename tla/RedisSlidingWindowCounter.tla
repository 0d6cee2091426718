--------------------- MODULE RedisSlidingWindowCounter ---------------------
(***************************************************************************)
(* The Redis sliding window counter                                        *)
(* (redis/scripts/slidingwindowcounter.lua, called by                      *)
(* SlidingWindowCounter.Allow of redis/limiters.go): the algorithm of      *)
(* module SlidingWindowCounter over windows on one grid for all keys.  The *)
(* estimate is counted in Window-ths of a request; float rounding, and the *)
(* one-millisecond wait the script reports when it meets it, are left out. *)
(***************************************************************************)
EXTENDS RedisKey, FiniteSets

VARIABLES
    state,       \* the hash: window, curr and prev
    allowed      \* history: requests allowed, at each tick

wvars == <<serverVars, expireAt, state, allowed>>

NoCounts(w) == [window |-> w, curr |-> 0, prev |-> 0]

Init ==
    /\ ServerInit
    /\ expireAt = -1
    /\ state = NoCounts(0)
    /\ allowed = [t \in 0..MaxTime |-> 0]

CurrentWindow(now) == now \div Window
Elapsed(now) == now % Window

\* The stored counts carried over to the window of now.  A stored window later
\* than now's, after TIME was set back, keeps its counts.
Rolled(st, now) ==
    LET w == CurrentWindow(now)
    IN  IF st.window < w - 1 THEN NoCounts(w)
        ELSE IF st.window = w - 1 THEN [window |-> w, curr |-> 0, prev |-> st.curr]
        ELSE [st EXCEPT !.window = w]

Estimate(st, now) == st.prev * (Window - Elapsed(now)) + st.curr * Window

Fits(st, now) == Estimate(st, now) + Window <= Limit * Window

\* What HMGET finds, rolled to the current window.
Read == IF Expired THEN NoCounts(CurrentWindow(clock)) ELSE Rolled(state, clock)

\* Mutant of Ttl: the key expires with the window.
TtlOneWindow == Window - Elapsed(clock)

Ttl == 2 * Window + Margin

Allow ==
    /\ IF Fits(Read, clock)
       THEN /\ state' = [Read EXCEPT !.curr = @ + 1]
            /\ allowed' = [allowed EXCEPT ![time] = @ + 1]
       ELSE /\ state' = Read
            /\ UNCHANGED allowed
    /\ expireAt' = clock + Ttl
    /\ UNCHANGED serverVars

Next ==
    \/ Allow
    \/ (Tick \/ SetBack) /\ UNCHANGED <<state, allowed>>

Spec == Init /\ [][Next]_wvars

-----------------------------------------------------------------------------
\* math.ceil of a / b ticks, in whole milliseconds.
CeilMs(a, b) == ((a + b * Millisecond - 1) \div (b * Millisecond)) * Millisecond

\* Mutant of RetryAfter: the rollover is taken for relief.
RetryAtRollover(st, now) == Window - Elapsed(now)

\* The wait of a denied call: into the next window when prev is empty, within
\* this one otherwise.
RetryAfter(st, now) ==
    LET remainder == Window - Elapsed(now)
        over == st.curr - Limit + 1
        wait == CeilMs((st.prev + over) * Window, st.prev) - Elapsed(now)
    IN  IF st.prev = 0
        THEN IF st.curr = 0 \/ over < 0 THEN remainder
             ELSE remainder + CeilMs(over * Window, st.curr)
        ELSE IF over >= 0 \/ wait > remainder THEN remainder ELSE wait

-----------------------------------------------------------------------------
\* Requests allowed from tick s on, as a set with one element each.
AllowedFrom(s) == UNION {{t} \X (1..allowed[t]) : t \in s..time}

\* The flaw of a plain fixed window, "where a burst straddling the boundary lets
\* 2*limit through": a span of at most a window allows the limit and, of a
\* second limit, only the share of the window it lasts.
NoBoundaryBurst ==
    \A s \in 0..time : time - s <= Window =>
        Cardinality(AllowedFrom(s)) * Window <= Limit * (Window + (time - s))

\* "a client honoring the value exactly is admitted": a caller that is denied
\* and comes back after RetryAfter, nobody else having called, is allowed,
\* also when TIME was set back before.
RetryIsEnough ==
    LET later == clock + RetryAfter(Read, clock)
    IN  ~Fits(Read, clock) => Fits(Rolled(Read, later), later)
=============================================================================
