------------------------ MODULE SlidingWindowCounter ------------------------
(***************************************************************************)
(* The in-memory sliding window counter                                    *)
(* (algorithms/slidingwindowcounter.go).  The estimate prev*(1-f) + curr   *)
(* is kept as a whole number by counting requests in units of Window;      *)
(* float64 rounding, and the one-millisecond answer the code gives when it *)
(* meets it, are left out.                                                 *)
(***************************************************************************)
EXTENDS LimiterClock, FiniteSets

VARIABLES
    state,       \* counterState: windowStart, curr and prev
    allowed      \* history: requests allowed, at each tick

kvars == <<clock, reading, state, allowed>>

Unseen == [windowStart |-> -1, curr |-> 0, prev |-> 0]

Init ==
    /\ ClockInit
    /\ state = Unseen
    /\ allowed = [t \in 0..MaxTime |-> 0]

\* Mutant of Roll: the previous window is forgotten.
RollForgets(st, now) ==
    LET elapsed == now - st.windowStart
    IN  IF st = Unseen THEN [st EXCEPT !.windowStart = now]
        ELSE IF elapsed < Window THEN st
        ELSE [windowStart |-> st.windowStart + (elapsed \div Window) * Window, curr |-> 0, prev |-> 0]

\* The state after roll; a key seen for the first time starts its window now.
Roll(st, now) ==
    LET elapsed == now - st.windowStart
    IN  IF st = Unseen \/ elapsed < 0 THEN [st EXCEPT !.windowStart = now]
        ELSE IF elapsed < Window THEN st
        ELSE [windowStart |-> st.windowStart + (elapsed \div Window) * Window,
              curr |-> 0,
              prev |-> IF elapsed < 2 * Window THEN st.curr ELSE 0]

\* The estimated count of the trailing window, in units of a Window-th request.
Estimate(st, now) == st.prev * (Window - (now - st.windowStart)) + st.curr * Window

Fits(st, now) == Estimate(st, now) + Window <= Limit * Window

Allow(c) ==
    LET now == reading[c]
        st == Roll(state, now)
    IN  /\ Waiting(c)
        /\ Returned(c)
        /\ IF Fits(st, now)
           THEN /\ state' = [st EXCEPT !.curr = @ + 1]
                /\ allowed' = [allowed EXCEPT ![clock] = @ + 1]
           ELSE /\ state' = st
                /\ UNCHANGED allowed

Next ==
    \/ \E c \in Callers : ReadClock(c) /\ UNCHANGED <<state, allowed>>
    \/ \E c \in Callers : Allow(c)
    \/ Tick /\ UNCHANGED <<state, allowed>>

Spec == Init /\ [][Next]_kvars

-----------------------------------------------------------------------------
\* The waits Allow reports, from the rolled state.

CeilDiv(a, b) == (a + b - 1) \div b

\* Mutant of RetryAfter: the rollover is taken for relief.
RetryAtRollover(st, now) == Window - (now - st.windowStart)

\* retryAfter: ceil(f * Window) for the fraction f at which a slot opens, in
\* the next window when prev is empty and in this one otherwise.
RetryAfter(st, now) ==
    LET remainder == Window - (now - st.windowStart)
        over == st.curr - Limit + 1
        wait == CeilDiv((st.prev + over) * Window, st.prev) - (now - st.windowStart)
    IN  IF st.prev = 0
        THEN IF st.curr = 0 \/ over < 0 THEN remainder
             ELSE remainder + CeilDiv(over * Window, st.curr)
        ELSE IF over >= 0 \/ wait > remainder THEN remainder ELSE wait

-----------------------------------------------------------------------------
\* Requests allowed from tick s on, as a set with one element each.
AllowedFrom(s) == UNION {{t} \X (1..allowed[t]) : t \in s..clock}

\* The boundary flaw the type is there to avoid ("letting 2*limit through in an
\* instant that straddles the boundary"): a span of at most a window allows the
\* limit and, of a second limit, only the share of the window it lasts, up to
\* the delay by which a caller's reading may precede it.
NoBoundaryBurst ==
    \A s \in 0..clock :
        LET span == clock - s + MaxDelay
        IN  span <= Window => Cardinality(AllowedFrom(s)) * Window <= Limit * (Window + span)

\* "a client honoring the value exactly is admitted": a caller that is denied
\* and comes back after RetryAfter, nobody else having called, is allowed.
RetryIsEnough ==
    \A c \in Callers :
        LET now == reading[c]
            st == Roll(state, now)
            later == now + RetryAfter(st, now)
        IN  Waiting(c) /\ ~Fits(st, now) => Fits(Roll(st, later), later)
=============================================================================
