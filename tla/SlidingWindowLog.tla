-------------------------- MODULE SlidingWindowLog --------------------------
(***************************************************************************)
(* The in-memory sliding window log (algorithms/slidingwindowlog.go): one  *)
(* timestamp for every allowed request of the trailing window.  An entry   *)
(* of the slice is its timestamp; the other fields tell equal timestamps   *)
(* apart and record when the request was really allowed.                   *)
(***************************************************************************)
EXTENDS LimiterClock, FiniteSets, FiniteSetsExt

VARIABLES
    entries,     \* logs[key]
    allowed,     \* history: every entry there ever was
    serial       \* history: requests allowed so far

lvars == <<clock, reading, entries, allowed, serial>>

Init ==
    /\ ClockInit
    /\ entries = {}
    /\ allowed = {}
    /\ serial = 0

\* Mutants of Kept: the boundary of the window off by one, either way.
KeptTooShort(now) == {e \in entries : e.ts > now - Window + 1}
KeptTooLong(now) == {e \in entries : e.ts >= now - Window}

\* The entries a call at now does not drop: ts.After(now - window).
Kept(now) == {e \in entries : e.ts > now - Window}

\* Mutant of Allow: an entry is the time it expires.
AllowStoresExpiry(c) ==
    LET entry == [ts |-> reading[c] + Window, at |-> clock, n |-> serial]
    IN  /\ Waiting(c)
        /\ Returned(c)
        /\ Cardinality(Kept(reading[c])) < Limit
        /\ entries' = Kept(reading[c]) \cup {entry}
        /\ allowed' = allowed \cup {entry}
        /\ serial' = serial + 1

Allow(c) ==
    LET now == reading[c]
        entry == [ts |-> now, at |-> clock, n |-> serial]
    IN  /\ Waiting(c)
        /\ Returned(c)
        /\ IF Cardinality(Kept(now)) < Limit
           THEN /\ entries' = Kept(now) \cup {entry}
                /\ allowed' = allowed \cup {entry}
                /\ serial' = serial + 1
           ELSE /\ entries' = Kept(now)
                /\ UNCHANGED <<allowed, serial>>

Next ==
    \/ \E c \in Callers : ReadClock(c) /\ UNCHANGED <<entries, allowed, serial>>
    \/ \E c \in Callers : Allow(c)
    \/ Tick /\ UNCHANGED <<entries, allowed, serial>>

Spec == Init /\ [][Next]_lvars

\* The waits a denied call at now reports, from the entries it kept.
Clamp(d) == IF d < 0 THEN 0 ELSE IF d > Window THEN Window ELSE d
RetryAfter(now) == Clamp(Min({e.ts : e \in Kept(now)}) + Window - now)
ResetAfter(now) == Clamp(Max({e.ts : e \in Kept(now)}) + Window - now)

-----------------------------------------------------------------------------
Entry == [ts : 0..MaxTime, at : 0..MaxTime, n : Nat]

\* The log is part of what was ever allowed, at times that have been.
TypeOK ==
    /\ ClockTypeOK
    /\ entries \subseteq allowed
    /\ allowed \subseteq Entry
    /\ serial \in Nat

AllowedSince(t) == {e \in allowed : e.at > t}

\* The ceiling that concurrent callers leave: a request may be entered with a
\* timestamp up to MaxDelay old, so the limit holds in every trailing span of
\* the window less that delay (and in the whole window when there is none).
CeilingWithinDelay == Cardinality(AllowedSince(clock - (Window - MaxDelay))) <= Limit

\* A denied caller that waits RetryAfter finds a free slot, one that waits
\* ResetAfter finds the key at full capacity, although the reading they are
\* computed from may be stale: the clamp never cuts a wait short.
WaitsAreEnough ==
    \A c \in Callers :
        LET now == reading[c]
        IN  Waiting(c) /\ Cardinality(Kept(now)) >= Limit =>
               /\ Cardinality(Kept(clock + RetryAfter(now))) < Limit
               /\ Kept(clock + ResetAfter(now)) = {}

\* The slice never grows past the limit, whichever readings its calls used.
EntriesWithinLimit == Cardinality(entries) <= Limit

\* The inductive invariant behind CeilingWithinDelay: no request is dropped
\* from the log before its timestamp is a window old, and no timestamp lags
\* the decision by more than MaxDelay.
IndInv ==
    /\ TypeOK
    /\ IsFiniteSet(entries)
    /\ EntriesWithinLimit
    /\ \A e \in allowed : e.ts <= e.at /\ e.at <= e.ts + MaxDelay /\ e.at <= clock
    /\ \A e \in allowed : e.ts > clock - Window => e \in entries
=============================================================================
