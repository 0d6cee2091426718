----------------------- MODULE MemoryLimitersProofs -----------------------
(***************************************************************************)
(* What the in-memory limiters promise, for every limit, window, delay and *)
(* set of callers: the log's ceiling, what the bucket and the counter let  *)
(* through in a span of time, and the waits all three report.              *)
(*                                                                         *)
(* The log comes first, by itself; then the arithmetic of the bucket and   *)
(* of the counter as lemmas about their states, and last the limiter that  *)
(* picks one of the three.                                                 *)
(***************************************************************************)
EXTENDS MemoryLimiters, FiniteSetTheorems, WellFoundedInduction, TLAPS

USE DEF NotCalling

(* The entries a call keeps are a finite part of the log, no larger than it. *)
LEMMA KeptWithinEntries ==
    ASSUME NEW now \in Int, IsFiniteSet(entries), Cardinality(entries) <= Limit
    PROVE  /\ Kept(now) \subseteq entries
           /\ IsFiniteSet(Kept(now))
           /\ Cardinality(Kept(now)) \in Nat
           /\ Cardinality(Kept(now)) <= Limit
<1>1. Kept(now) \subseteq entries
  BY DEF Kept
<1>2. IsFiniteSet(Kept(now)) /\ Cardinality(Kept(now)) <= Cardinality(entries)
  BY <1>1, FS_Subset
<1>3. Cardinality(Kept(now)) \in Nat /\ Cardinality(entries) \in Nat
  BY <1>2, FS_CardinalityType
<1> QED
  BY <1>1, <1>2, <1>3, LimiterAssumption

(* The limiter starts with no entries, no requests and nobody waiting. *)
LEMMA LogInit == Init => IndInv
<1> SUFFICES ASSUME Init PROVE IndInv
  OBVIOUS
<1>1. IsFiniteSet(entries) /\ Cardinality(entries) = 0
  BY FS_EmptySet DEF Init
<1>2. TypeOK
  BY ClockAssumption DEF Init, ClockInit, TypeOK, ClockTypeOK, Waiting, Entry
<1> QED
  BY <1>1, <1>2, LimiterAssumption DEF Init, IndInv, EntriesWithinLimit

(* Reading the clock leaves the log alone and takes a reading that is fresh. *)
LEMMA ReadClockKeeps ==
    ASSUME IndInv, NEW c \in Callers, ReadClock(c), UNCHANGED <<entries, allowed, serial>>
    PROVE  IndInv'
<1>1. TypeOK'
  BY ClockAssumption DEF IndInv, TypeOK, ClockTypeOK, ReadClock, Waiting
<1> QED
  BY <1>1 DEF IndInv, EntriesWithinLimit, ReadClock

(* A tick lets timestamps age; no waiting caller's reading becomes too old. *)
LEMMA TickKeeps ==
    ASSUME IndInv, Tick, UNCHANGED <<entries, allowed, serial>>
    PROVE  IndInv'
<1>1. clock \in 0..MaxTime /\ clock' = clock + 1 /\ clock' \in 0..MaxTime
  BY ClockAssumption DEF IndInv, TypeOK, ClockTypeOK, Tick
<1>2. ClockTypeOK'
  BY <1>1, ClockAssumption DEF IndInv, TypeOK, ClockTypeOK, Tick, Waiting
<1>3. TypeOK'
  BY <1>2 DEF IndInv, TypeOK
<1>4. \A e \in allowed : e.ts \in 0..MaxTime /\ e.at \in 0..MaxTime
  BY DEF IndInv, TypeOK, Entry
<1>5. \A e \in allowed' : e.ts <= e.at /\ e.at <= e.ts + MaxDelay /\ e.at <= clock'
  BY <1>1, <1>4 DEF IndInv
<1>6. \A e \in allowed' : e.ts > clock' - Window => e \in entries'
  BY <1>1, <1>4, LimiterAssumption DEF IndInv
<1> QED
  BY <1>3, <1>5, <1>6 DEF IndInv, EntriesWithinLimit

(* A decision drops only timestamps a window older than its own reading, which *)
(* is no later than the clock, and adds one only below the limit.              *)
LEMMA AllowKeeps ==
    ASSUME IndInv, NEW c \in Callers, Allow(c)
    PROVE  IndInv'
<1> DEFINE now == reading[c]
           entry == [ts |-> now, at |-> clock, n |-> serial]
<1>1. /\ now \in 0..MaxTime /\ clock \in 0..MaxTime
      /\ now <= clock /\ clock <= now + MaxDelay
      /\ clock' = clock
      /\ MaxDelay \in Nat /\ MaxTime \in Nat
  BY ClockAssumption DEF IndInv, TypeOK, ClockTypeOK, Allow, Returned, Waiting
<1>2. /\ Kept(now) \subseteq entries
      /\ IsFiniteSet(Kept(now))
      /\ Cardinality(Kept(now)) \in Nat
      /\ Cardinality(Kept(now)) <= Limit
  BY <1>1, KeptWithinEntries DEF IndInv, EntriesWithinLimit
<1>3. ClockTypeOK'
  BY <1>1 DEF IndInv, TypeOK, ClockTypeOK, Allow, Returned, Waiting
<1>4. entry \in Entry /\ entry.ts = now /\ entry.at = clock
  BY <1>1 DEF IndInv, TypeOK, Entry
<1>5. \A e \in allowed : e.ts \in 0..MaxTime /\ e.at \in 0..MaxTime
  BY DEF IndInv, TypeOK, Entry
<1>6. \A e \in allowed : e.ts > clock' - Window => e \in Kept(now)
  BY <1>1, <1>5, LimiterAssumption DEF IndInv, Kept
<1>7. CASE Cardinality(Kept(now)) < Limit
  <2>1. /\ entries' = Kept(now) \cup {entry}
        /\ allowed' = allowed \cup {entry}
        /\ serial' = serial + 1
    BY <1>7 DEF Allow
  <2>2. TypeOK'
    BY <2>1, <1>2, <1>3, <1>4 DEF IndInv, TypeOK
  <2>3. IsFiniteSet(entries') /\ Cardinality(entries') <= Limit
    <3>1. /\ IsFiniteSet(Kept(now) \cup {entry})
          /\ \/ Cardinality(Kept(now) \cup {entry}) = Cardinality(Kept(now))
             \/ Cardinality(Kept(now) \cup {entry}) = Cardinality(Kept(now)) + 1
      BY <1>2, FS_AddElement
    <3> QED
      BY <3>1, <2>1, <1>2, <1>7, LimiterAssumption
  <2>4. \A e \in allowed' : e.ts <= e.at /\ e.at <= e.ts + MaxDelay /\ e.at <= clock'
    BY <2>1, <1>1, <1>4 DEF IndInv
  <2>5. \A e \in allowed' : e.ts > clock' - Window => e \in entries'
    BY <2>1, <1>6
  <2> QED
    BY <2>2, <2>3, <2>4, <2>5 DEF IndInv, EntriesWithinLimit
<1>8. CASE ~(Cardinality(Kept(now)) < Limit)
  <2>1. entries' = Kept(now) /\ allowed' = allowed /\ serial' = serial
    BY <1>8 DEF Allow
  <2>2. TypeOK'
    BY <2>1, <1>2, <1>3 DEF IndInv, TypeOK
  <2>3. \A e \in allowed' : e.ts <= e.at /\ e.at <= e.ts + MaxDelay /\ e.at <= clock'
    BY <2>1, <1>1 DEF IndInv
  <2>4. \A e \in allowed' : e.ts > clock' - Window => e \in entries'
    BY <2>1, <1>6
  <2> QED
    BY <2>1, <2>2, <2>3, <2>4, <1>2 DEF IndInv, EntriesWithinLimit
<1> QED
  BY <1>7, <1>8

(* No step of the limiter or of time breaks the invariant. *)
LEMMA LogStep == IndInv /\ [Next]_lvars => IndInv'
<1> SUFFICES ASSUME IndInv, [Next]_lvars PROVE IndInv'
  OBVIOUS
<1>1. CASE Next
  <2>1. ASSUME NEW c \in Callers, ReadClock(c), UNCHANGED <<entries, allowed, serial>>
        PROVE  IndInv'
    BY <2>1, ReadClockKeeps
  <2>2. ASSUME NEW c \in Callers, Allow(c) PROVE IndInv'
    BY <2>2, AllowKeeps
  <2>3. ASSUME Tick, UNCHANGED <<entries, allowed, serial>> PROVE IndInv'
    BY <2>3, TickKeeps
  <2> QED
    BY <1>1, <2>1, <2>2, <2>3 DEF Next
<1>2. CASE UNCHANGED lvars
  BY <1>2 DEF lvars, IndInv, TypeOK, ClockTypeOK, Waiting, EntriesWithinLimit
<1> QED
  BY <1>1, <1>2

(* The invariant bounds the trailing span: what was allowed in it is still in *)
(* the log, whose size Allow keeps within the limit.                          *)
LEMMA LogCeilingStep == IndInv => CeilingWithinDelay
<1> SUFFICES ASSUME IndInv PROVE CeilingWithinDelay
  OBVIOUS
<1> DEFINE recent == AllowedSince(clock - (Window - MaxDelay))
<1>1. \A e \in allowed : e.ts \in 0..MaxTime /\ e.at \in 0..MaxTime
  BY DEF IndInv, TypeOK, Entry
<1>2. clock \in Nat /\ MaxDelay \in Nat /\ Window \in Nat /\ MaxTime \in Nat
  BY ClockAssumption, LimiterAssumption DEF IndInv, TypeOK, ClockTypeOK
<1>3. recent \subseteq entries
  BY <1>1, <1>2 DEF IndInv, AllowedSince
<1>4. IsFiniteSet(recent) /\ Cardinality(recent) <= Cardinality(entries)
  BY <1>3, FS_Subset DEF IndInv
<1>5. Cardinality(recent) \in Nat /\ Cardinality(entries) \in Nat
  BY <1>4, FS_CardinalityType DEF IndInv
<1> QED
  BY <1>4, <1>5, LimiterAssumption DEF IndInv, EntriesWithinLimit, CeilingWithinDelay

(* Type correctness of the limiter's state, however its callers interleave. *)
THEOREM LogTypeCorrect == Spec => []TypeOK
<1>1. IndInv => TypeOK
  BY DEF IndInv
<1> QED
  BY <1>1, LogInit, LogStep, PTL DEF Spec

(* However many goroutines call Allow, with readings up to MaxDelay old, no   *)
(* more than Limit requests are allowed in any span of Window - MaxDelay.     *)
THEOREM LogCeiling == Spec => []CeilingWithinDelay
BY LogInit, LogStep, LogCeilingStep, PTL DEF Spec

-----------------------------------------------------------------------------
(* A nonempty set of naturals has a least element ... *)
LEMMA MinOf ==
    ASSUME NEW S, S \subseteq Nat, S # {}
    PROVE  Min(S) \in S /\ \A y \in S : Min(S) <= y
<1>1. PICK x \in S : \A y \in S : ~(<<y, x>> \in OpToRel(<, Nat))
  BY NatLessThanWellFounded, WFMin
<1>2. \A y \in S : ~(y < x)
  BY <1>1 DEF OpToRel
<1>3. \A y \in S : x <= y
  BY <1>2
<1> QED
  BY <1>3 DEF Min

(* ... and a bounded one a greatest. *)
LEMMA MaxOf ==
    ASSUME NEW N \in Nat, NEW S, S \subseteq 0..N, S # {}
    PROVE  Max(S) \in S /\ \A y \in S : y <= Max(S)
<1> DEFINE T == {x \in 0..N : N - x \in S}
<1>1. \A y \in S : N - y \in T
  <2>1. TAKE y \in S
  <2>2. y \in 0..N /\ N - y \in 0..N /\ N - (N - y) = y
    OBVIOUS
  <2> QED
    BY <2>2
<1>2. T \subseteq Nat /\ T # {} /\ \A t \in T : t \in 0..N /\ N - t \in S
  <2>1. PICK s : s \in S
    OBVIOUS
  <2>2. N - s \in T
    BY <1>1, <2>1
  <2> QED
    BY <2>2
<1> HIDE DEF T
<1>3. PICK t \in T : \A y \in T : t <= y
  BY <1>2, MinOf
<1>4. ASSUME NEW y \in S PROVE N - t >= y
  <2>1. t <= N - y /\ t \in Nat /\ y \in Nat
    BY <1>1, <1>2, <1>3
  <2> QED
    BY <2>1
<1>5. N - t \in S
  BY <1>2
<1> QED
  BY <1>4, <1>5 DEF Max

(* An entry that is not kept. *)
LEMMA NotKept ==
    ASSUME NEW t \in Int, NEW e, e.ts \in Int, ~(e.ts > t - Window)
    PROVE  e \notin Kept(t)
BY DEF Kept

(* A caller that is denied finds the log full; whatever it kept was allowed    *)
(* before, so after a window by the clock nothing of the log is left.          *)
LEMMA DeniedWaits ==
    ASSUME IndInv, NEW c \in Callers, NEW now, now = reading[c], Waiting(c),
           Cardinality(Kept(now)) >= Limit
    PROVE  /\ Cardinality(Kept(clock + RetryAfter(now))) < Limit
           /\ Kept(clock + ResetAfter(now)) = {}
<1> DEFINE S == {e.ts : e \in Kept(now)}
<1>1. /\ now \in Nat /\ clock \in Nat /\ now <= clock /\ Window \in Nat /\ Limit \in Nat /\ Limit > 0
      /\ MaxTime \in Nat
  BY ClockAssumption, LimiterAssumption DEF IndInv, TypeOK, ClockTypeOK, Waiting
<1>2. \A e \in entries : e.ts \in 0..MaxTime /\ e.ts \in Nat /\ e.ts <= clock
  <2>1. \A e \in entries : e \in allowed /\ e \in Entry
    BY DEF IndInv, TypeOK
  <2>2. \A e \in entries : e.ts \in 0..MaxTime /\ e.at \in 0..MaxTime
    BY <2>1 DEF Entry
  <2> QED
    BY <1>1, <2>1, <2>2 DEF IndInv
<1>3. Kept(now) # {} /\ Kept(now) \subseteq entries
  BY <1>1, FS_EmptySet DEF Kept
<1>4. S \subseteq 0..MaxTime /\ S \subseteq Nat /\ S # {}
  BY <1>2, <1>3
<1>5. /\ Min(S) \in S /\ \A y \in S : Min(S) <= y
      /\ Max(S) \in S /\ \A y \in S : y <= Max(S)
  <2> HIDE DEF S
  <2> QED
    BY <1>1, <1>4, MinOf, MaxOf
<1>6. PICK oldest \in Kept(now) : oldest.ts = Min(S)
  BY <1>5
<1>7. /\ Min(S) \in Nat /\ Max(S) \in Nat /\ Min(S) > now - Window /\ Min(S) <= Max(S)
      /\ oldest \in entries /\ oldest.ts = Min(S)
  BY <1>3, <1>4, <1>5, <1>6 DEF Kept
<1>8. \A e \in entries : e.ts > now - Window => e.ts <= Max(S)
  BY <1>5 DEF Kept
<1> DEFINE m == Min(S)
           M == Max(S)
<1>9. RetryAfter(now) = Clamp(m + Window - now) /\ ResetAfter(now) = Clamp(M + Window - now)
  BY DEF RetryAfter, ResetAfter
<1> HIDE DEF S, m, M
<1>10. m \in Nat /\ M \in Nat /\ m > now - Window /\ m <= M /\ oldest.ts = m
       /\ \A e \in entries : e.ts > now - Window => e.ts <= M
  BY <1>7, <1>8 DEF m, M
<1>11. oldest \notin Kept(clock + RetryAfter(now))
  <2>1. CASE m <= now
    <3>1. RetryAfter(now) = m + Window - now
      BY <1>1, <1>9, <1>10, <2>1 DEF Clamp
    <3>2. PICK t \in Int : t = clock + (m + Window - now)
      BY <1>1, <1>10
    <3>3. t - Window \in Int /\ ~(m > t - Window) /\ m \in Int
      BY <1>1, <1>10, <3>2
    <3>4. oldest \notin Kept(t)
      BY <1>10, <3>3, NotKept
    <3> QED
      BY <3>1, <3>2, <3>4
  <2>2. CASE m > now
    <3>1. RetryAfter(now) = Window
      BY <1>1, <1>9, <1>10, <2>2 DEF Clamp
    <3>2. PICK t \in Int : t = clock + Window
      BY <1>1
    <3>3. t - Window \in Int /\ ~(oldest.ts > t - Window) /\ oldest.ts \in Int
      BY <1>1, <1>2, <1>7, <3>2
    <3>4. oldest \notin Kept(t)
      BY <3>3, NotKept
    <3> QED
      BY <3>1, <3>2, <3>4
  <2> QED
    BY <1>1, <1>10, <2>1, <2>2
<1>12. Cardinality(Kept(clock + RetryAfter(now))) < Limit
  <2>1. Kept(clock + RetryAfter(now)) \subseteq entries \ {oldest}
    BY <1>11 DEF Kept
  <2>2. IsFiniteSet(entries) /\ Cardinality(entries) \in Nat /\ Cardinality(entries) <= Limit
    BY FS_CardinalityType DEF IndInv, EntriesWithinLimit
  <2>3. IsFiniteSet(entries \ {oldest}) /\ Cardinality(entries \ {oldest}) = Cardinality(entries) - 1
    BY <1>7, <2>2, FS_RemoveElement
  <2>4. /\ IsFiniteSet(Kept(clock + RetryAfter(now)))
        /\ Cardinality(Kept(clock + RetryAfter(now))) <= Cardinality(entries \ {oldest})
    BY <2>1, <2>3, FS_Subset
  <2>5. Cardinality(Kept(clock + RetryAfter(now))) \in Nat
    BY <2>4, FS_CardinalityType
  <2> QED
    BY <1>1, <2>2, <2>3, <2>4, <2>5
<1>13. ASSUME NEW e \in entries PROVE e \notin Kept(clock + ResetAfter(now))
  <2>1. e.ts \in Nat /\ e.ts <= clock /\ (e.ts > now - Window => e.ts <= M)
    BY <1>2, <1>10
  <2>2. PICK t \in Int : t = clock + (IF M <= now THEN M + Window - now ELSE Window)
    BY <1>1, <1>10
  <2>3. ResetAfter(now) = IF M <= now THEN M + Window - now ELSE Window
    BY <1>1, <1>9, <1>10 DEF Clamp
  <2>4. t - Window \in Int /\ ~(e.ts > t - Window) /\ e.ts \in Int
    BY <1>1, <1>10, <2>1, <2>2
  <2>5. e \notin Kept(t)
    BY <2>4, NotKept
  <2> QED
    BY <2>2, <2>3, <2>5
<1>14. Kept(clock + ResetAfter(now)) = {}
  <2>1. \A e \in entries : e \notin Kept(clock + ResetAfter(now))
    BY <1>13
  <2>2. Kept(clock + ResetAfter(now)) \subseteq entries
    BY DEF Kept
  <2> QED
    BY <2>1, <2>2
<1> QED
  BY <1>12, <1>14

(* A denied caller that waits RetryAfter finds a free slot, and one that waits *)
(* ResetAfter an empty log, however stale the reading its waits are computed   *)
(* from: the clamp of the code never cuts a wait short.                        *)
THEOREM LogWaitsAreEnough == Spec => []WaitsAreEnough
<1>1. IndInv => WaitsAreEnough
  BY DeniedWaits DEF WaitsAreEnough
<1> QED
  BY <1>1, LogInit, LogStep, PTL DEF Spec
-----------------------------------------------------------------------------
(* What the bucket and the counter allowed, f at each tick, up to time n. *)

Spent(f, s, n) == UNION {{i} \X (1..f[i]) : i \in s..n}

Count(f, s, n) == Cardinality(Spent(f, s, n))

Tallied(f, n) ==
    /\ n \in 0..MaxTime
    /\ f \in [0..MaxTime -> Nat]
    /\ \A i \in 0..MaxTime : i > n => f[i] = 0
    /\ \A s \in 0..(n + 1) : IsFiniteSet(Spent(f, s, n))

LEMMA LimitTyped ==
    /\ Limit \in Nat /\ Limit >= 1 /\ Window \in Nat /\ Window >= 1
    /\ MaxTime \in Nat /\ MaxDelay \in Nat
    /\ Limit * Window \in Nat /\ Limit * Window >= Window
BY LimiterAssumption, ClockAssumption

(* A quotient is rounded down by less than its divisor. *)
LEMMA Floor ==
    ASSUME NEW a \in Nat, NEW d \in Nat \ {0}
    PROVE  /\ a \div d \in Nat
           /\ (a \div d) * d \in Nat
           /\ (a \div d) * d <= a /\ a < (a \div d) * d + d
<1>1. (a \div d) * d <= a /\ a < (a \div d) * d + d
  OBVIOUS
<1>2. a \div d \in Nat
  OBVIOUS
<1> QED
  BY <1>1, <1>2

(* One more request at this tick is one more in every span up to it. *)
LEMMA SpentMore ==
    ASSUME NEW n \in 0..MaxTime, NEW f \in [0..MaxTime -> Nat], NEW s \in 0..n,
           IsFiniteSet(Spent(f, s, n)), NEW g, g = [f EXCEPT ![n] = @ + 1]
    PROVE  /\ IsFiniteSet(Spent(g, s, n))
           /\ Cardinality(Spent(g, s, n)) = Cardinality(Spent(f, s, n)) + 1
<1>1. g \in [0..MaxTime -> Nat] /\ g[n] = f[n] + 1 /\ f[n] \in Nat
  OBVIOUS
<1>2. \A i \in s..n : i # n => g[i] = f[i]
  BY LimitTyped
<1>3. \A x : x \in Spent(f, s, n) <=> \E i \in s..n : \E j \in 1..f[i] : x = <<i, j>>
  BY DEF Spent
<1>4. \A x : x \in Spent(g, s, n) <=> \E i \in s..n : \E j \in 1..g[i] : x = <<i, j>>
  BY DEF Spent
<1>5. n \in s..n /\ f[n] + 1 \in 1..g[n]
  BY <1>1
<1>6. <<n, f[n] + 1>> \notin Spent(f, s, n)
  BY <1>1, <1>3
<1>7. ASSUME NEW x \in Spent(g, s, n) PROVE x \in Spent(f, s, n) \cup {<<n, f[n] + 1>>}
  <2>0. PICK i \in s..n : \E j \in 1..g[i] : x = <<i, j>>
    BY <1>4
  <2>1. PICK j \in 1..g[i] : x = <<i, j>>
    BY <2>0
  <2>2. CASE i # n
    BY <1>2, <1>3, <2>0, <2>1, <2>2
  <2>3. CASE i = n
    <3>1. j \in 1..f[n] \/ j = f[n] + 1
      BY <1>1, <2>0, <2>1, <2>3
    <3> QED
      BY <1>3, <1>5, <2>0, <2>1, <2>3, <3>1
  <2> QED
    BY <2>2, <2>3
<1>8. ASSUME NEW x \in Spent(f, s, n) PROVE x \in Spent(g, s, n)
  <2>0. PICK i \in s..n : \E j \in 1..f[i] : x = <<i, j>>
    BY <1>3
  <2>1. PICK j \in 1..f[i] : x = <<i, j>>
    BY <2>0
  <2>2. j \in 1..g[i]
    BY <1>1, <1>2, <2>0, <2>1
  <2> QED
    BY <1>4, <2>0, <2>1, <2>2
<1>9. <<n, f[n] + 1>> \in Spent(g, s, n)
  BY <1>4, <1>5
<1>10. Spent(g, s, n) = Spent(f, s, n) \cup {<<n, f[n] + 1>>}
  BY <1>7, <1>8, <1>9
<1>11. PICK S : S = Spent(f, s, n)
  OBVIOUS
<1>12. PICK y : y = <<n, f[n] + 1>>
  OBVIOUS
<1>13. IsFiniteSet(S) /\ y \notin S /\ Spent(g, s, n) = S \cup {y}
  BY <1>6, <1>10, <1>11, <1>12
<1>14. IsFiniteSet(S \cup {y}) /\ Cardinality(S \cup {y}) = Cardinality(S) + 1
  BY <1>13, FS_AddElement
<1> QED
  BY <1>11, <1>13, <1>14

(* A tick at which nothing has come through adds nothing. *)
LEMMA SpentLater ==
    ASSUME NEW n \in Nat, NEW f, f[n + 1] = 0, NEW s \in 0..(n + 1)
    PROVE  Spent(f, s, n + 1) = Spent(f, s, n)
<1>1. s..(n + 1) = (s..n) \cup {n + 1}
  OBVIOUS
<1>2. {n + 1} \X (1..f[n + 1]) = {}
  OBVIOUS
<1> QED
  BY <1>1, <1>2 DEF Spent

LEMMA SpentNothing ==
    ASSUME NEW n \in Nat, NEW f
    PROVE  Spent(f, n + 1, n) = {} /\ IsFiniteSet(Spent(f, n + 1, n)) /\ Cardinality(Spent(f, n + 1, n)) = 0
<1>1. (n + 1)..n = {}
  OBVIOUS
<1>2. Spent(f, n + 1, n) = {}
  BY <1>1 DEF Spent
<1> QED
  BY <1>2, FS_EmptySet
LEMMA CountTyped ==
    ASSUME NEW f, NEW n, Tallied(f, n), NEW s \in 0..(n + 1)
    PROVE  Count(f, s, n) \in Nat
BY FS_CardinalityType DEF Tallied, Count

(* A request allowed now. *)
LEMMA TallyMore ==
    ASSUME NEW f, NEW n, Tallied(f, n), NEW g, g = [f EXCEPT ![n] = @ + 1]
    PROVE  /\ Tallied(g, n)
           /\ \A s \in 0..n : Count(g, s, n) = Count(f, s, n) + 1
           /\ Count(g, n + 1, n) = 0
<1>1. n \in 0..MaxTime /\ n \in Nat /\ f \in [0..MaxTime -> Nat]
  BY LimitTyped DEF Tallied
<1>2. ASSUME NEW s \in 0..n
      PROVE  IsFiniteSet(Spent(g, s, n)) /\ Count(g, s, n) = Count(f, s, n) + 1
  <2>1. s \in 0..(n + 1) /\ IsFiniteSet(Spent(f, s, n))
    BY <1>1 DEF Tallied
  <2> QED
    BY <1>1, <2>1, SpentMore DEF Count
<1>3. IsFiniteSet(Spent(g, n + 1, n)) /\ Count(g, n + 1, n) = 0
  BY <1>1, SpentNothing DEF Count
<1>4. ASSUME NEW s \in 0..(n + 1) PROVE IsFiniteSet(Spent(g, s, n))
  <2>1. s \in 0..n \/ s = n + 1
    BY <1>1
  <2> QED
    BY <1>2, <1>3, <2>1
<1>5. g \in [0..MaxTime -> Nat] /\ \A i \in 0..MaxTime : i > n => g[i] = 0
  BY <1>1 DEF Tallied
<1> QED
  BY <1>1, <1>2, <1>3, <1>4, <1>5 DEF Tallied

(* A tick. *)
LEMMA TallyTicks ==
    ASSUME NEW f, NEW n, Tallied(f, n), n < MaxTime
    PROVE  /\ Tallied(f, n + 1)
           /\ \A s \in 0..(n + 1) : Count(f, s, n + 1) = Count(f, s, n)
           /\ Count(f, n + 2, n + 1) = 0
<1>1. n \in Nat /\ n + 1 \in 0..MaxTime /\ f[n + 1] = 0
  BY LimitTyped DEF Tallied
<1>2. ASSUME NEW s \in 0..(n + 1) PROVE Spent(f, s, n + 1) = Spent(f, s, n)
  BY <1>1, SpentLater
<1>3. PICK m \in Nat : m = n + 1
  BY <1>1
<1>4. IsFiniteSet(Spent(f, m + 1, m)) /\ Count(f, m + 1, m) = 0
  BY SpentNothing DEF Count
<1>5. ASSUME NEW s \in 0..(m + 1) PROVE IsFiniteSet(Spent(f, s, m))
  <2>1. s \in 0..(n + 1) \/ s = m + 1
    BY <1>1, <1>3
  <2>2. CASE s \in 0..(n + 1)
    BY <1>2, <1>3, <2>2 DEF Tallied
  <2> QED
    BY <1>4, <2>1, <2>2
<1>6. Tallied(f, m)
  BY <1>1, <1>3, <1>5 DEF Tallied
<1>7. m + 1 = n + 2
  BY <1>1, <1>3
<1>8. Count(f, n + 2, n + 1) = 0
  BY <1>3, <1>4, <1>7
<1> QED
  BY <1>2, <1>3, <1>6, <1>8 DEF Count

LEMMA TallyStarts ==
    ASSUME NEW f, f = [t \in 0..MaxTime |-> 0]
    PROVE  Tallied(f, 0) /\ \A s \in 0..1 : Count(f, s, 0) = 0
<1>1. ASSUME NEW s \in 0..1 PROVE Spent(f, s, 0) = {}
  <2>1. \A i \in s..0 : i \in 0..MaxTime
    BY LimitTyped
  <2>2. \A i \in s..0 : {i} \X (1..f[i]) = {}
    BY <2>1
  <2> QED
    BY <2>2 DEF Spent
<1>2. \A s \in 0..1 : IsFiniteSet(Spent(f, s, 0)) /\ Count(f, s, 0) = 0
  BY <1>1, FS_EmptySet DEF Count
<1> QED
  BY <1>2, LimitTyped DEF Tallied
-----------------------------------------------------------------------------
(* The token bucket, with t units left at the reading l of its last call (-1   *)
(* before the first).                                                          *)

Refill(t, l, r) ==
    LET more == t + (r - l) * Limit
    IN  IF l = -1 THEN Limit * Window
        ELSE IF r <= l THEN t
        ELSE IF more > Limit * Window THEN Limit * Window ELSE more

LEMMA RefillTyped ==
    ASSUME NEW t \in 0..(Limit * Window), NEW l \in Nat \cup {-1}, NEW r \in Nat
    PROVE  /\ Refill(t, l, r) \in 0..(Limit * Window)
           /\ l # -1 /\ l <= r => Refill(t, l, r) <= t + (r - l) * Limit
<1>1. CASE l = -1
  BY <1>1, LimitTyped DEF Refill
<1>2. CASE l # -1 /\ r <= l
  <2>1. l = r => (r - l) * Limit = 0
    BY <1>2, LimitTyped
  <2> QED
    BY <1>2, <2>1, LimitTyped DEF Refill
<1>3. CASE l # -1 /\ r > l
  <2>1. PICK m \in Nat : m = (r - l) * Limit
    BY <1>3, LimitTyped
  <2> QED
    BY <1>3, <2>1, LimitTyped DEF Refill
<1> QED
  BY <1>1, <1>2, <1>3

(* What came through since s and what is left fit a full bucket and the refill *)
(* up to the last call's reading, which is no older than MaxDelay.             *)
BucketFits(t, l, f, n) ==
    \A s \in 0..(n + 1) :
        \/ Count(f, s, n) = 0
        \/ /\ l # -1 /\ s <= l + MaxDelay
           /\ Count(f, s, n) * Window + t <= Limit * Window + (l - s + MaxDelay) * Limit

LEMMA BucketTicks ==
    ASSUME NEW t, NEW l, NEW f, NEW n, Tallied(f, n), n < MaxTime, BucketFits(t, l, f, n)
    PROVE  BucketFits(t, l, f, n + 1)
<1>1. n \in Nat
  BY LimitTyped DEF Tallied
<1> SUFFICES ASSUME NEW s \in 0..(n + 1 + 1)
             PROVE  \/ Count(f, s, n + 1) = 0
                    \/ /\ l # -1 /\ s <= l + MaxDelay
                       /\ Count(f, s, n + 1) * Window + t <= Limit * Window + (l - s + MaxDelay) * Limit
  BY DEF BucketFits
<1>2. CASE s \in 0..(n + 1)
  <2>1. Count(f, s, n + 1) = Count(f, s, n)
    BY <1>2, TallyTicks
  <2> QED
    BY <1>2, <2>1 DEF BucketFits
<1>3. CASE s = n + 2
  BY <1>3, TallyTicks
<1> QED
  BY <1>1, <1>2, <1>3

(* A call that no later one has overtaken: the credit is for the time since    *)
(* the last call's reading.                                                    *)
LEMMA BucketRefills ==
    ASSUME NEW t \in 0..(Limit * Window), NEW l \in Nat \cup {-1}, NEW f, NEW n, Tallied(f, n),
           NEW r \in Nat, l <= r, BucketFits(t, l, f, n)
    PROVE  BucketFits(Refill(t, l, r), r, f, n)
<1> SUFFICES ASSUME NEW s \in 0..(n + 1), Count(f, s, n) # 0
             PROVE  /\ r # -1 /\ s <= r + MaxDelay
                    /\ Count(f, s, n) * Window + Refill(t, l, r)
                          <= Limit * Window + (r - s + MaxDelay) * Limit
  BY DEF BucketFits
<1>0. n \in Nat /\ s \in Nat
  BY LimitTyped DEF Tallied
<1>1. /\ l # -1 /\ s <= l + MaxDelay
      /\ Count(f, s, n) * Window + t <= Limit * Window + (l - s + MaxDelay) * Limit
  BY DEF BucketFits
<1>2. PICK j \in Nat : j = Count(f, s, n)
  BY CountTyped
<1>3. PICK u \in Nat : u = j * Window
  BY LimitTyped
<1>4. PICK R \in Nat : R = Refill(t, l, r) /\ R <= t + (r - l) * Limit
  <2>1. Refill(t, l, r) \in 0..(Limit * Window)
    BY RefillTyped
  <2>2. Refill(t, l, r) <= t + (r - l) * Limit
    BY <1>1, RefillTyped
  <2>3. Refill(t, l, r) \in Nat
    BY <2>1
  <2> QED
    BY <2>2, <2>3
<1>5. PICK x \in Nat, y \in Nat : x = l - s + MaxDelay /\ y = r - l
  BY <1>0, <1>1, LimitTyped
<1>6. (x + y) * Limit = x * Limit + y * Limit /\ x * Limit \in Nat /\ y * Limit \in Nat
  BY LimitTyped
<1>7. r - s + MaxDelay = x + y
  BY <1>0, <1>1, <1>5, LimitTyped
<1>8. PICK v \in Nat, w \in Nat : v = x * Limit /\ w = y * Limit
  BY <1>6
<1>9. PICK F \in Nat : F = Limit * Window
  BY LimitTyped
<1>10. u + R <= F + (v + w)
  BY <1>1, <1>2, <1>3, <1>4, <1>5, <1>8, <1>9
<1>11. s <= r + MaxDelay
  BY <1>0, <1>1, LimitTyped
<1> QED
  BY <1>2, <1>3, <1>4, <1>6, <1>7, <1>8, <1>9, <1>10, <1>11

(* A token is taken for a request decided now on a reading r. *)
LEMMA BucketTakes ==
    ASSUME NEW t \in Nat, t >= Window, t <= Limit * Window, NEW f, NEW n, Tallied(f, n),
           NEW r \in Nat, n <= r + MaxDelay, BucketFits(t, r, f, n),
           NEW g, g = [f EXCEPT ![n] = @ + 1]
    PROVE  BucketFits(t - Window, r, g, n)
<1>0. n \in Nat
  BY LimitTyped DEF Tallied
<1> SUFFICES ASSUME NEW s \in 0..(n + 1)
             PROVE  \/ Count(g, s, n) = 0
                    \/ /\ r # -1 /\ s <= r + MaxDelay
                       /\ Count(g, s, n) * Window + (t - Window)
                             <= Limit * Window + (r - s + MaxDelay) * Limit
  BY DEF BucketFits
<1>1. CASE s = n + 1
  BY <1>1, TallyMore
<1>2. CASE s \in 0..n
  <2>1. PICK j \in Nat : j = Count(f, s, n)
    BY <1>2, CountTyped
  <2>2. Count(g, s, n) = j + 1
    BY <1>2, <2>1, TallyMore
  <2>3. PICK u \in Nat : u = j * Window
    BY LimitTyped
  <2>4. (j + 1) * Window = u + Window
    BY <2>3, LimitTyped
  <2>5. PICK x \in Nat : x = r - s + MaxDelay
    BY <1>0, <1>2, LimitTyped
  <2>6. PICK v \in Nat : v = x * Limit
    BY LimitTyped
  <2>7. PICK F \in Nat : F = Limit * Window
    BY LimitTyped
  <2>8. u + t <= F + v
    <3>1. CASE j = 0
      <4>1. u = 0
        BY <2>3, <3>1, LimitTyped
      <4> QED
        BY <2>6, <2>7, <4>1
    <3>2. CASE j # 0
      BY <1>2, <2>1, <2>3, <2>5, <2>6, <2>7, <3>2 DEF BucketFits
    <3> QED
      BY <3>1, <3>2
  <2>9. u + Window + (t - Window) <= F + v
    BY <2>8, LimitTyped
  <2> QED
    BY <1>0, <1>2, <2>2, <2>4, <2>5, <2>6, <2>7, <2>9, LimitTyped
<1> QED
  BY <1>0, <1>1, <1>2

(* The promise, at a time no earlier than the last call's reading. *)
LEMMA BucketKeeps ==
    ASSUME NEW t \in Nat, NEW l \in Nat \cup {-1}, NEW f, NEW n, Tallied(f, n), l <= n,
           BucketFits(t, l, f, n), NEW s \in 0..n
    PROVE  Count(f, s, n) * Window <= Limit * Window + (n - s + MaxDelay) * Limit
<1>0. n \in Nat /\ s \in 0..(n + 1)
  BY LimitTyped DEF Tallied
<1>1. PICK j \in Nat : j = Count(f, s, n)
  BY <1>0, CountTyped
<1>2. PICK u \in Nat : u = j * Window
  BY LimitTyped
<1>3. PICK F \in Nat : F = Limit * Window
  BY LimitTyped
<1>4. PICK z \in Nat : z = n - s + MaxDelay /\ z * Limit \in Nat
  BY <1>0, LimitTyped
<1>5. CASE j = 0
  <2>1. u = 0
    BY <1>2, <1>5, LimitTyped
  <2> QED
    BY <1>1, <1>2, <1>3, <1>4, <2>1
<1>6. CASE j # 0
  <2>1. /\ l # -1 /\ s <= l + MaxDelay
        /\ u + t <= F + (l - s + MaxDelay) * Limit
    BY <1>0, <1>1, <1>2, <1>3, <1>6 DEF BucketFits
  <2>2. PICK x \in Nat, y \in Nat : x = l - s + MaxDelay /\ y = n - l
    BY <1>0, <2>1, LimitTyped
  <2>3. (x + y) * Limit = x * Limit + y * Limit /\ x * Limit \in Nat /\ y * Limit \in Nat
    BY LimitTyped
  <2>4. z = x + y
    BY <1>0, <1>4, <2>1, <2>2, LimitTyped
  <2>5. u <= F + (x * Limit + y * Limit)
    BY <2>1, <2>2, <2>3
  <2> QED
    BY <1>1, <1>2, <1>3, <1>4, <2>3, <2>4, <2>5
<1> QED
  BY <1>5, <1>6

(* durationFor rounds down by less than a tick's refill. *)
LEMMA RetryCovers ==
    ASSUME NEW R \in 0..(Limit * Window), R < Window
    PROVE  R + ((Window - R) \div Limit + 1) * Limit >= Window
<1>1. PICK w \in Nat : w = Window - R
  BY LimitTyped
<1>2. PICK q \in Nat : q = w \div Limit /\ w < q * Limit + Limit /\ q * Limit \in Nat
  BY Floor, LimitTyped
<1>3. (q + 1) * Limit = q * Limit + Limit
  BY LimitTyped
<1> QED
  BY <1>1, <1>2, <1>3, LimitTyped
-----------------------------------------------------------------------------
(* The sliding window counter, whose admission test never lets a window count  *)
(* past the limit, nor to the limit while the window before still weighs in.   *)

Counts(st) ==
    /\ st \in [windowStart : Nat, curr : Nat, prev : Nat]
    /\ st.curr <= Limit /\ st.prev <= Limit
    /\ st.prev > 0 => st.curr < Limit

(* Rolled to a reading, the window contains it. *)
LEMMA RollTyped ==
    ASSUME NEW st, st = Counter!Unseen \/ Counts(st), NEW r \in Nat
    PROVE  /\ Counts(Counter!Roll(st, r))
           /\ Counter!Roll(st, r).windowStart <= r
           /\ r < Counter!Roll(st, r).windowStart + Window
<1>1. CASE st = Counter!Unseen
  <2>1. Counter!Roll(st, r) = [windowStart |-> r, curr |-> 0, prev |-> 0]
    BY <1>1 DEF Counter!Roll, Counter!Unseen
  <2> QED
    BY <2>1, LimitTyped DEF Counts
<1>2. CASE Counts(st) /\ r < st.windowStart
  <2>1. Counter!Roll(st, r) = [st EXCEPT !.windowStart = r]
    BY <1>2 DEF Counter!Roll, Counts
  <2>2. /\ Counter!Roll(st, r) \in [windowStart : Nat, curr : Nat, prev : Nat]
        /\ Counter!Roll(st, r).windowStart = r
        /\ Counter!Roll(st, r).curr = st.curr /\ Counter!Roll(st, r).prev = st.prev
    BY <1>2, <2>1 DEF Counts
  <2> QED
    BY <1>2, <2>2, LimitTyped DEF Counts
<1>3. CASE Counts(st) /\ st.windowStart <= r /\ r - st.windowStart < Window
  <2>1. st # Counter!Unseen
    BY <1>3 DEF Counts, Counter!Unseen
  <2>2. Counter!Roll(st, r) = st
    BY <1>3, <2>1, LimitTyped DEF Counter!Roll, Counts
  <2> QED
    BY <1>3, <2>2, LimitTyped DEF Counts
<1>4. CASE Counts(st) /\ r - st.windowStart >= Window
  <2>1. st # Counter!Unseen
    BY <1>4 DEF Counts, Counter!Unseen
  <2>2. st.windowStart \in Nat /\ st.curr \in Nat
    BY <1>4 DEF Counts
  <2>3. PICK e \in Nat : e = r - st.windowStart /\ e >= Window
    BY <1>4, <2>2, LimitTyped
  <2>4. PICK q \in Nat : /\ q = (e \div Window) * Window
                         /\ q <= e /\ e < q + Window
    BY Floor, LimitTyped
  <2>5. PICK x \in {0, st.curr} :
           Counter!Roll(st, r) = [windowStart |-> st.windowStart + q, curr |-> 0, prev |-> x]
    BY <2>1, <2>2, <2>3, <2>4, LimitTyped DEF Counter!Roll
  <2>6. x \in Nat /\ x <= Limit /\ st.windowStart + q \in Nat
    BY <1>4, <2>2, <2>4, <2>5, LimitTyped DEF Counts
  <2>7. st.windowStart + q <= r /\ r < st.windowStart + q + Window
    BY <2>2, <2>3, <2>4, LimitTyped
  <2> QED
    BY <2>5, <2>6, <2>7, LimitTyped DEF Counts
<1> QED
  BY <1>1, <1>2, <1>3, <1>4, LimitTyped DEF Counts

(* One more request that fits. *)
LEMMA CountsMore ==
    ASSUME NEW st, Counts(st), NEW r \in Nat, st.windowStart <= r, r < st.windowStart + Window,
           Counter!Fits(st, r), NEW su, su = [st EXCEPT !.curr = @ + 1]
    PROVE  /\ Counts(su)
           /\ su.windowStart = st.windowStart /\ su.prev = st.prev /\ su.curr = st.curr + 1
           /\ st.prev * (Window - (r - st.windowStart)) + (st.curr + 1) * Window <= Limit * Window
<1>1. st.windowStart \in Nat /\ st.curr \in Nat /\ st.prev \in Nat /\ st.prev <= Limit
  BY DEF Counts
<1>2. PICK d \in Nat : d = Window - (r - st.windowStart) /\ d >= 1
  BY <1>1, LimitTyped
<1>3. PICK u \in Nat : u = st.prev * d /\ (st.prev > 0 => u > 0)
  <2>1. st.prev * d \in Nat /\ (st.prev > 0 => st.prev * d > 0)
    BY <1>1, <1>2
  <2> QED
    BY <2>1
<1>4. (st.curr + 1) * Window = st.curr * Window + Window /\ st.curr * Window \in Nat
  BY <1>1, LimitTyped
<1>5. u + st.curr * Window + Window <= Limit * Window
  BY <1>2, <1>3 DEF Counter!Fits, Counter!Estimate
<1>6. u + (st.curr + 1) * Window <= Limit * Window
  BY <1>3, <1>4, <1>5, LimitTyped
<1>7. st.curr + 1 <= Limit /\ (st.prev > 0 => st.curr + 1 < Limit)
  <2>1. PICK k \in Nat : k = st.curr + 1
    BY <1>1
  <2>2. k > Limit => k * Window >= Limit * Window + Window
    <3> SUFFICES ASSUME k > Limit PROVE k * Window >= Limit * Window + Window
      OBVIOUS
    <3>0. k - Limit - 1 \in Nat /\ k = Limit + 1 + (k - Limit - 1)
      BY LimitTyped
    <3>1. PICK x \in Nat : k = Limit + 1 + x
      BY <3>0
    <3>2. (Limit + 1 + x) * Window = Limit * Window + Window + x * Window /\ x * Window \in Nat
      BY LimitTyped
    <3> QED
      BY <3>1, <3>2, LimitTyped
  <2>3. k <= Limit
    BY <1>3, <1>6, <2>1, <2>2, LimitTyped
  <2>4. k = Limit => u = 0
    BY <1>3, <1>6, <2>1, LimitTyped
  <2> QED
    BY <1>1, <1>3, <2>1, <2>3, <2>4, LimitTyped
<1>8. /\ su \in [windowStart : Nat, curr : Nat, prev : Nat]
      /\ su.windowStart = st.windowStart /\ su.prev = st.prev /\ su.curr = st.curr + 1
  BY DEF Counts
<1> QED
  BY <1>1, <1>2, <1>3, <1>6, <1>7, <1>8 DEF Counts

(* Readings are no older than the last decision, l, which is in the window: a  *)
(* span since s, its requests read no more than MaxDelay before, is counted by *)
(* curr, or by prev and curr, according to where it starts.                    *)
CounterFits(st, l, f, n) ==
    /\ st.windowStart <= l /\ l < st.windowStart + Window
    /\ st.curr > 0 =>
          st.prev * (Window - (l - st.windowStart)) + st.curr * Window <= Limit * Window
    /\ \A s \in 0..(n + 1) :
          /\ Count(f, s, n) = 0 \/ s <= l + MaxDelay
          /\ s >= st.windowStart + MaxDelay => Count(f, s, n) <= st.curr
          /\ s + Window >= st.windowStart + MaxDelay => Count(f, s, n) <= st.prev + st.curr

LEMMA CounterTicks ==
    ASSUME NEW st, Counts(st), NEW l, NEW f, NEW n, Tallied(f, n), n < MaxTime,
           CounterFits(st, l, f, n)
    PROVE  CounterFits(st, l, f, n + 1)
<1>1. n \in Nat /\ st.curr \in Nat /\ st.prev \in Nat
  BY LimitTyped DEF Tallied, Counts
<1>2. ASSUME NEW s \in 0..(n + 1 + 1)
      PROVE  \/ s \in 0..(n + 1) /\ Count(f, s, n + 1) = Count(f, s, n)
             \/ Count(f, s, n + 1) = 0
  <2>1. s \in 0..(n + 1) \/ s = n + 2
    BY <1>1
  <2> QED
    BY <2>1, TallyTicks
<1>3. ASSUME NEW s \in 0..(n + 1 + 1)
      PROVE  /\ Count(f, s, n + 1) = 0 \/ s <= l + MaxDelay
             /\ s >= st.windowStart + MaxDelay => Count(f, s, n + 1) <= st.curr
             /\ s + Window >= st.windowStart + MaxDelay => Count(f, s, n + 1) <= st.prev + st.curr
  BY <1>1, <1>2 DEF CounterFits
<1> QED
  BY <1>3 DEF CounterFits

(* A key seen for the first time. *)
LEMMA CounterStarts ==
    ASSUME NEW r \in Nat, NEW f, NEW n, \A s \in 0..(n + 1) : Count(f, s, n) = 0
    PROVE  CounterFits(Counter!Roll(Counter!Unseen, r), r, f, n)
<1>1. Counter!Roll(Counter!Unseen, r) = [windowStart |-> r, curr |-> 0, prev |-> 0]
  BY DEF Counter!Roll, Counter!Unseen
<1> QED
  BY <1>1, LimitTyped DEF CounterFits

(* How far a window starts that contains a time e after the start of another. *)
LEMMA WindowsPassed ==
    ASSUME NEW e \in Nat, e >= Window
    PROVE  /\ (e \div Window) * Window \in Nat
           /\ (e \div Window) * Window <= e /\ e < (e \div Window) * Window + Window
           /\ e < 2 * Window => (e \div Window) * Window = Window
           /\ e >= 2 * Window => (e \div Window) * Window >= 2 * Window
<1>1. PICK k \in Nat : /\ k = e \div Window /\ k * Window \in Nat
                       /\ k * Window <= e /\ e < k * Window + Window
  BY Floor, LimitTyped
<1>2. k = 0 => k * Window = 0
  BY LimitTyped
<1>3. k = 1 => k * Window = Window
  BY LimitTyped
<1>4. k >= 2 => k * Window >= 2 * Window
  <2> SUFFICES ASSUME k >= 2 PROVE k * Window >= 2 * Window
    OBVIOUS
  <2>1. k - 2 \in Nat /\ k = 2 + (k - 2)
    OBVIOUS
  <2>2. PICK y \in Nat : k = 2 + y
    BY <2>1
  <2>3. (2 + y) * Window = 2 * Window + y * Window /\ y * Window \in Nat
    BY LimitTyped
  <2> QED
    BY <2>2, <2>3, LimitTyped
<1>5. k = 0 \/ k = 1 \/ k >= 2
  OBVIOUS
<1>6. PICK q \in Nat : q = k * Window
  BY <1>1
<1>7. (e < 2 * Window => q = Window) /\ (e >= 2 * Window => q >= 2 * Window)
  BY <1>1, <1>2, <1>3, <1>4, <1>5, <1>6, LimitTyped
<1> QED
  BY <1>1, <1>6, <1>7

(* Rolling to a reading that is not older moves the window's count to prev, or *)
(* drops what no span that may still matter contains.                          *)
LEMMA CounterRolls ==
    ASSUME NEW st, Counts(st), NEW l \in Nat, NEW r \in Nat, l <= r, NEW f, NEW n, Tallied(f, n),
           CounterFits(st, l, f, n)
    PROVE  CounterFits(Counter!Roll(st, r), r, f, n)
<1>0. /\ n \in Nat /\ st # Counter!Unseen
      /\ st.windowStart \in Nat /\ st.curr \in Nat /\ st.prev \in Nat /\ st.windowStart <= r
      /\ st.windowStart <= l /\ l < st.windowStart + Window
  BY LimitTyped DEF Tallied, Counts, CounterFits, Counter!Unseen
<1>1. ASSUME NEW s \in 0..(n + 1)
      PROVE  /\ s \in Nat /\ Count(f, s, n) \in Nat
             /\ Count(f, s, n) = 0 \/ s <= l + MaxDelay
             /\ s >= st.windowStart + MaxDelay => Count(f, s, n) <= st.curr
             /\ s + Window >= st.windowStart + MaxDelay => Count(f, s, n) <= st.prev + st.curr
  BY <1>0, CountTyped DEF CounterFits
<1>2. CASE r - st.windowStart < Window
  <2>1. Counter!Roll(st, r) = st
    BY <1>0, <1>2, LimitTyped DEF Counter!Roll
  <2>2. st.curr > 0 =>
           st.prev * (Window - (r - st.windowStart)) + st.curr * Window <= Limit * Window
    <3> SUFFICES ASSUME st.curr > 0
                 PROVE  st.prev * (Window - (r - st.windowStart)) + st.curr * Window <= Limit * Window
      OBVIOUS
    <3>1. PICK d \in Nat, x \in Nat : d = Window - (r - st.windowStart) /\ x = r - l
      <4>1. Window - (r - st.windowStart) \in Nat /\ r - l \in Nat
        BY <1>0, <1>2, LimitTyped
      <4> QED
        BY <4>1
    <3>2. Window - (l - st.windowStart) = d + x
      BY <1>0, <3>1, LimitTyped
    <3>3. st.prev * (d + x) = st.prev * d + st.prev * x /\ st.prev * d \in Nat /\ st.prev * x \in Nat
      BY <1>0
    <3>4. st.prev * (d + x) + st.curr * Window <= Limit * Window /\ st.curr * Window \in Nat
      BY <1>0, <3>2, LimitTyped DEF CounterFits
    <3>5. st.prev * d + st.curr * Window <= Limit * Window
      BY <3>3, <3>4, LimitTyped
    <3> QED
      BY <3>1, <3>5
  <2>3. ASSUME NEW s \in 0..(n + 1) PROVE Count(f, s, n) = 0 \/ s <= r + MaxDelay
    BY <1>1, LimitTyped
  <2>4. st.windowStart <= r /\ r < st.windowStart + Window
    BY <1>0, <1>2, LimitTyped
  <2>5. CounterFits(st, r, f, n)
    BY <1>1, <2>2, <2>3, <2>4 DEF CounterFits
  <2> QED
    BY <2>1, <2>5
<1>3. CASE r - st.windowStart >= Window
  <2>1. PICK e \in Nat : e = r - st.windowStart /\ e >= Window
    BY <1>0, <1>3, LimitTyped
  <2>2. PICK q \in Nat : /\ q = (e \div Window) * Window
                         /\ q <= e /\ e < q + Window
                         /\ e < 2 * Window => q = Window
                         /\ e >= 2 * Window => q >= 2 * Window
    BY <2>1, WindowsPassed
  <2>3. q >= Window
    BY <2>1, <2>2, LimitTyped
  <2>4. PICK x \in Nat : x = IF e < 2 * Window THEN st.curr ELSE 0
    BY <1>0
  <2>5. Counter!Roll(st, r) = [windowStart |-> st.windowStart + q, curr |-> 0, prev |-> x]
    <3>1. ~(st = Counter!Unseen \/ e < 0) /\ ~(e < Window)
      BY <1>0, <2>1, LimitTyped
    <3> QED
      BY <2>1, <2>2, <2>4, <3>1 DEF Counter!Roll
  <2>6. PICK su : su = Counter!Roll(st, r)
    OBVIOUS
  <2>7. su.windowStart = st.windowStart + q /\ su.curr = 0 /\ su.prev = x
    BY <2>5, <2>6
  <2>8. su.windowStart <= r /\ r < su.windowStart + Window
    BY <1>0, <2>1, <2>2, <2>7, LimitTyped
  <2>9. ASSUME NEW s \in 0..(n + 1)
        PROVE  /\ Count(f, s, n) = 0 \/ s <= r + MaxDelay
               /\ s >= su.windowStart + MaxDelay => Count(f, s, n) <= su.curr
               /\ s + Window >= su.windowStart + MaxDelay => Count(f, s, n) <= su.prev + su.curr
    <3>1. Count(f, s, n) = 0 \/ s <= r + MaxDelay
      BY <1>1, LimitTyped
    <3>2. s >= su.windowStart + MaxDelay => Count(f, s, n) = 0
      BY <1>0, <1>1, <2>3, <2>7, LimitTyped
    <3>3. CASE e < 2 * Window
      <4>2. q = Window
        BY <2>2, <3>3
      <4>3. s + Window >= su.windowStart + MaxDelay => s >= st.windowStart + MaxDelay
        BY <1>0, <1>1, <2>7, <4>2, LimitTyped
      <4> QED
        BY <1>0, <1>1, <2>4, <2>7, <3>1, <3>2, <3>3, <4>3
    <3>4. CASE e >= 2 * Window
      <4>1. s + Window >= su.windowStart + MaxDelay => s > l + MaxDelay
        BY <1>0, <1>1, <2>2, <2>7, <3>4, LimitTyped
      <4>2. s + Window >= su.windowStart + MaxDelay => Count(f, s, n) = 0
        BY <1>1, <4>1, LimitTyped
      <4> QED
        BY <2>4, <2>7, <3>1, <3>2, <4>2
    <3> QED
      BY <2>1, <3>3, <3>4, LimitTyped
  <2>10. CounterFits(su, r, f, n)
    BY <2>7, <2>8, <2>9 DEF CounterFits
  <2> QED
    BY <2>6, <2>10
<1> QED
  BY <1>0, <1>2, <1>3, LimitTyped
(* A request decided now on a reading r is counted in curr. *)
LEMMA CounterTakes ==
    ASSUME NEW st, Counts(st), NEW r \in Nat, NEW f, NEW n, Tallied(f, n), n <= r + MaxDelay,
           CounterFits(st, r, f, n), Counter!Fits(st, r),
           NEW su, su = [st EXCEPT !.curr = @ + 1], NEW g, g = [f EXCEPT ![n] = @ + 1]
    PROVE  Counts(su) /\ CounterFits(su, r, g, n)
<1>0. /\ n \in Nat /\ st.windowStart \in Nat /\ st.curr \in Nat /\ st.prev \in Nat
      /\ st.windowStart <= r /\ r < st.windowStart + Window
  BY LimitTyped DEF Tallied, Counts, CounterFits
<1>1. /\ Counts(su)
      /\ su.windowStart = st.windowStart /\ su.prev = st.prev /\ su.curr = st.curr + 1
      /\ st.prev * (Window - (r - st.windowStart)) + (st.curr + 1) * Window <= Limit * Window
  BY <1>0, CountsMore
<1>2. ASSUME NEW s \in 0..(n + 1)
      PROVE  /\ Count(g, s, n) = 0 \/ s <= r + MaxDelay
             /\ s >= su.windowStart + MaxDelay => Count(g, s, n) <= su.curr
             /\ s + Window >= su.windowStart + MaxDelay => Count(g, s, n) <= su.prev + su.curr
  <2>1. CASE s = n + 1
    <3>1. Count(g, s, n) = 0
      BY <2>1, TallyMore
    <3> QED
      BY <1>0, <1>1, <3>1
  <2>2. CASE s \in 0..n
    <3>1. Count(f, s, n) \in Nat /\ Count(g, s, n) = Count(f, s, n) + 1
      BY <2>2, CountTyped, TallyMore
    <3>2. /\ s >= st.windowStart + MaxDelay => Count(f, s, n) <= st.curr
          /\ s + Window >= st.windowStart + MaxDelay => Count(f, s, n) <= st.prev + st.curr
      BY DEF CounterFits
    <3>3. s <= r + MaxDelay
      BY <1>0, <2>2, LimitTyped
    <3> QED
      BY <1>0, <1>1, <3>1, <3>2, <3>3
  <2> QED
    BY <1>0, <2>1, <2>2
<1> QED
  BY <1>0, <1>1, <1>2 DEF CounterFits

(* The promise, at a time no earlier than the last call's reading. *)
LEMMA CounterKeeps ==
    ASSUME NEW st, Counts(st), NEW l \in Nat, NEW f, NEW n, Tallied(f, n), l <= n,
           CounterFits(st, l, f, n), NEW s \in 0..n, n - s + MaxDelay <= Window
    PROVE  Count(f, s, n) * Window <= Limit * (Window + (n - s + MaxDelay))
<1>0. /\ n \in Nat /\ s \in Nat /\ s \in 0..(n + 1)
      /\ st.windowStart \in Nat /\ st.curr \in Nat /\ st.prev \in Nat
      /\ st.curr <= Limit /\ st.prev <= Limit
      /\ st.windowStart <= l /\ l < st.windowStart + Window
  BY LimitTyped DEF Tallied, Counts, CounterFits
<1>1. PICK j \in Nat : j = Count(f, s, n)
  BY <1>0, CountTyped
<1>2. PICK z \in Nat : z = n - s + MaxDelay
  BY <1>0, LimitTyped
<1>3. Limit * (Window + z) = Limit * Window + Limit * z /\ Limit * z \in Nat
  BY LimitTyped
<1>4. ASSUME NEW a \in Nat, NEW b \in Nat, a <= b PROVE a * Window <= b * Window
  <2>1. b - a \in Nat /\ b = a + (b - a)
    BY <1>4
  <2>2. PICK y \in Nat : b = a + y
    BY <2>1
  <2>3. (a + y) * Window = a * Window + y * Window /\ a * Window \in Nat /\ y * Window \in Nat
    BY LimitTyped
  <2> QED
    BY <2>2, <2>3
<1>5. CASE j <= Limit
  <2>1. j * Window <= Limit * Window /\ j * Window \in Nat
    BY <1>4, <1>5, LimitTyped
  <2> QED
    BY <1>1, <1>2, <1>3, <2>1, LimitTyped
<1>6. CASE j > Limit
  <2>1. s < st.windowStart + MaxDelay
    BY <1>0, <1>1, <1>6, LimitTyped DEF CounterFits
  <2>2. s + Window >= st.windowStart + MaxDelay
    BY <1>0, LimitTyped
  <2>3. j <= st.prev + st.curr
    BY <1>0, <1>1, <2>2 DEF CounterFits
  <2>4. st.curr > 0
    BY <1>0, <1>6, <2>3, LimitTyped
  <2>5. PICK x \in Nat : x = l - st.windowStart /\ x <= z
    BY <1>0, <1>2, <2>1, LimitTyped
  <2>6. st.prev * (Window - x) + st.curr * Window <= Limit * Window
    BY <2>4, <2>5 DEF CounterFits
  <2>7. /\ st.prev * (Window - x) = st.prev * Window - st.prev * x
        /\ (st.prev + st.curr) * Window = st.prev * Window + st.curr * Window
        /\ st.prev * Window \in Nat /\ st.curr * Window \in Nat /\ st.prev * x \in Nat
    BY <1>0, <2>5, LimitTyped
  <2>8. st.prev * x <= Limit * z
    <3>1. st.prev * x <= Limit * x
      BY <1>0, LimitTyped
    <3>2. Limit * x <= Limit * z
      BY <2>5, LimitTyped
    <3> QED
      BY <2>7, <3>1, <3>2, LimitTyped
  <2>9. j * Window <= (st.prev + st.curr) * Window /\ j * Window \in Nat
    BY <1>0, <1>4, <2>3, LimitTyped
  <2>10. j * Window <= Limit * Window + Limit * z
    BY <1>3, <2>6, <2>7, <2>8, <2>9, LimitTyped
  <2> QED
    BY <1>1, <1>2, <1>3, <2>10
<1> QED
  BY <1>5, <1>6, LimitTyped
(* A quotient rounded up. *)
LEMMA Ceil ==
    ASSUME NEW a \in Nat, NEW b \in Nat \ {0}
    PROVE  /\ Counter!CeilDiv(a, b) \in Nat
           /\ Counter!CeilDiv(a, b) * b \in Nat /\ Counter!CeilDiv(a, b) * b >= a
<1>1. PICK x \in Nat : x = a + b - 1
  <2>1. a + b - 1 \in Nat
    OBVIOUS
  <2> QED
    BY <2>1
<1>2. PICK q \in Nat : q = x \div b /\ q * b \in Nat /\ x < q * b + b
  BY Floor
<1>3. q * b >= a
  BY <1>1, <1>2
<1> QED
  BY <1>1, <1>2, <1>3 DEF Counter!CeilDiv

(* At the rollover a count below the limit leaves room. *)
LEMMA FitsAtRollover ==
    ASSUME NEW st, Counts(st), st.curr < Limit, NEW t, t = st.windowStart + Window
    PROVE  Counter!Fits(Counter!Roll(st, t), t)
<1>1. st.windowStart \in Nat /\ st.curr \in Nat /\ st # Counter!Unseen
  BY DEF Counts, Counter!Unseen
<1>2. (Window \div Window) * Window = Window
  BY WindowsPassed, LimitTyped
<1>3. t - st.windowStart = Window
  BY <1>1, LimitTyped
<1>4. Counter!Roll(st, t) = [windowStart |-> st.windowStart + Window, curr |-> 0, prev |-> st.curr]
  <2>1. ~(st = Counter!Unseen \/ Window < 0) /\ ~(Window < Window) /\ Window < 2 * Window
    BY <1>1, LimitTyped
  <2> QED
    BY <1>2, <1>3, <2>1 DEF Counter!Roll
<1>5. PICK su : su = Counter!Roll(st, t)
  OBVIOUS
<1>6. su.windowStart = t /\ su.curr = 0 /\ su.prev = st.curr
  BY <1>4, <1>5
<1>7. st.curr * (Window - (t - t)) = st.curr * Window /\ 0 * Window = 0
  BY <1>1, LimitTyped
<1>8. st.curr * Window + 0 + Window <= Limit * Window
  <2>1. Limit - (st.curr + 1) \in Nat /\ Limit = st.curr + 1 + (Limit - (st.curr + 1))
    BY <1>1, LimitTyped
  <2>2. PICK y \in Nat : Limit = st.curr + 1 + y
    BY <2>1
  <2>3. /\ (st.curr + 1 + y) * Window = st.curr * Window + Window + y * Window
        /\ y * Window \in Nat /\ st.curr * Window \in Nat
    BY <1>1, LimitTyped
  <2> QED
    BY <2>2, <2>3, LimitTyped
<1>9. Counter!Fits(su, t)
  BY <1>6, <1>7, <1>8 DEF Counter!Fits, Counter!Estimate
<1> QED
  BY <1>5, <1>9

(* retryAfter for a full window with an empty one before it: until the next    *)
(* window's estimate has decayed by one request.                               *)
LEMMA RetryFull ==
    ASSUME NEW st, Counts(st), st.curr = Limit, st.prev = 0, NEW k \in Nat, k * Limit >= Window,
           NEW t, t = st.windowStart + Window + k
    PROVE  Counter!Fits(Counter!Roll(st, t), t)
<1>1. st.windowStart \in Nat /\ st # Counter!Unseen
  BY DEF Counts, Counter!Unseen
<1>2. PICK e \in Nat : e = Window + k /\ e >= Window /\ e = t - st.windowStart
  <2>1. Window + k \in Nat /\ Window + k >= Window /\ Window + k = t - st.windowStart
    BY <1>1, LimitTyped
  <2> QED
    BY <2>1
<1>3. PICK q \in Nat : /\ q = (e \div Window) * Window
                       /\ e < 2 * Window => q = Window
  BY <1>2, WindowsPassed
<1>4. PICK x \in Nat : x = IF e < 2 * Window THEN Limit ELSE 0
  BY LimitTyped
<1>5. Counter!Roll(st, t) = [windowStart |-> st.windowStart + q, curr |-> 0, prev |-> x]
  <2>1. ~(st = Counter!Unseen \/ e < 0) /\ ~(e < Window)
    BY <1>1, <1>2, LimitTyped
  <2> QED
    BY <1>2, <1>3, <1>4, <2>1 DEF Counter!Roll
<1>6. PICK su : su = Counter!Roll(st, t)
  OBVIOUS
<1>7. su.windowStart = st.windowStart + q /\ su.curr = 0 /\ su.prev = x
  BY <1>5, <1>6
<1>8. 0 * Window = 0
  BY LimitTyped
<1>9. CASE e < 2 * Window
  <2>1. x = Limit /\ q = Window
    BY <1>3, <1>4, <1>9
  <2>2. t - su.windowStart = k
    BY <1>1, <1>7, <2>1, LimitTyped
  <2>3. Limit * (Window - k) = Limit * Window - k * Limit /\ k * Limit \in Nat
    BY LimitTyped
  <2>4. Limit * (Window - k) + 0 + Window <= Limit * Window
    BY <2>3, LimitTyped
  <2>5. Counter!Fits(su, t)
    BY <1>7, <1>8, <2>1, <2>2, <2>4 DEF Counter!Fits, Counter!Estimate
  <2> QED
    BY <1>6, <2>5
<1>10. CASE ~(e < 2 * Window)
  <2>1. PICK d \in Int : d = Window - (t - su.windowStart)
    BY <1>1, <1>7, LimitTyped
  <2>2. 0 * d = 0
    OBVIOUS
  <2>3. 0 + 0 + Window <= Limit * Window
    BY LimitTyped
  <2>4. Counter!Fits(su, t)
    BY <1>4, <1>7, <1>8, <1>10, <2>1, <2>2, <2>3 DEF Counter!Fits, Counter!Estimate
  <2> QED
    BY <1>6, <2>4
<1> QED
  BY <1>9, <1>10

(* retryAfter within the window: until prev has decayed by what is missing. *)
LEMMA RetryWithin ==
    ASSUME NEW st, Counts(st), NEW q \in Nat, q < Window,
           q * st.prev >= (st.prev + (st.curr - Limit + 1)) * Window,
           NEW t, t = st.windowStart + q
    PROVE  Counter!Fits(Counter!Roll(st, t), t)
<1>1. st.windowStart \in Nat /\ st.curr \in Nat /\ st.prev \in Nat /\ st # Counter!Unseen
  BY DEF Counts, Counter!Unseen
<1>2. t - st.windowStart = q
  BY <1>1
<1>3. Counter!Roll(st, t) = st
  <2>1. ~(st = Counter!Unseen \/ q < 0)
    BY <1>1
  <2> QED
    BY <1>2, <2>1 DEF Counter!Roll
<1>4. /\ (st.prev + (st.curr - Limit + 1)) * Window
            = st.prev * Window + st.curr * Window - Limit * Window + Window
      /\ st.prev * (Window - q) = st.prev * Window - q * st.prev
      /\ st.prev * Window \in Nat /\ st.curr * Window \in Nat /\ q * st.prev \in Nat
  <2>1. PICK p \in Nat, c \in Nat : p = st.prev /\ c = st.curr
    BY <1>1
  <2>2. (p + (c - Limit + 1)) * Window = p * Window + c * Window - Limit * Window + Window
    BY LimitTyped
  <2>3. p * (Window - q) = p * Window - q * p
    BY LimitTyped
  <2>4. p * Window \in Nat /\ c * Window \in Nat /\ q * p \in Nat
    BY LimitTyped
  <2> QED
    BY <2>1, <2>2, <2>3, <2>4
<1>5. st.prev * (Window - q) + st.curr * Window + Window <= Limit * Window
  BY <1>4, LimitTyped
<1>6. Counter!Fits(st, t)
  BY <1>2, <1>5 DEF Counter!Fits, Counter!Estimate
<1> QED
  BY <1>3, <1>6

(* A denied call that waits RetryAfter fits. *)
LEMMA CounterRetries ==
    ASSUME NEW st, Counts(st), NEW r \in Nat, st.windowStart <= r, r < st.windowStart + Window,
           ~Counter!Fits(st, r), NEW t, t = r + Counter!RetryAfter(st, r)
    PROVE  Counter!Fits(Counter!Roll(st, t), t)
<1>0. /\ st.windowStart \in Nat /\ st.curr \in Nat /\ st.prev \in Nat
      /\ st.curr <= Limit /\ st.prev <= Limit /\ (st.prev > 0 => st.curr < Limit)
  BY DEF Counts
<1>1. PICK e \in Nat : e = r - st.windowStart /\ e < Window
  <2>1. r - st.windowStart \in Nat /\ r - st.windowStart < Window
    BY <1>0, LimitTyped
  <2> QED
    BY <2>1
<1>2. PICK over \in Int : over = st.curr - Limit + 1
  BY <1>0, LimitTyped
<1>3. st.prev * (Window - e) + st.curr * Window + Window > Limit * Window
  <2>1. st.prev * (Window - e) + st.curr * Window + Window \in Int
    BY <1>0, LimitTyped
  <2> QED
    BY <1>1, <2>1, LimitTyped DEF Counter!Fits, Counter!Estimate
<1>4. CASE st.prev = 0
  <2>1. 0 * (Window - e) = 0
    BY LimitTyped
  <2>2. st.curr * Window + Window > Limit * Window /\ st.curr * Window \in Nat
    BY <1>0, <1>3, <1>4, <2>1, LimitTyped
  <2>3. st.curr = Limit
    <3>1. st.curr < Limit => st.curr * Window + Window <= Limit * Window
      <4> SUFFICES ASSUME st.curr < Limit PROVE st.curr * Window + Window <= Limit * Window
        OBVIOUS
      <4>1. Limit - (st.curr + 1) \in Nat /\ Limit = st.curr + 1 + (Limit - (st.curr + 1))
        BY <1>0, LimitTyped
      <4>2. PICK y \in Nat : Limit = st.curr + 1 + y
        BY <4>1
      <4>3. (st.curr + 1 + y) * Window = st.curr * Window + Window + y * Window /\ y * Window \in Nat
        BY <1>0, LimitTyped
      <4> QED
        BY <2>2, <4>2, <4>3, LimitTyped
    <3> QED
      BY <1>0, <2>2, <3>1, LimitTyped
  <2>4. over = 1 /\ 1 * Window = Window
    BY <1>2, <2>3, LimitTyped
  <2>5. PICK k \in Nat : k = Counter!CeilDiv(Window, Limit) /\ k * Limit >= Window
    BY Ceil, LimitTyped
  <2>6. Counter!RetryAfter(st, r) = (Window - e) + k
    <3>1. ~(st.curr = 0 \/ over < 0)
      BY <2>3, <2>4, LimitTyped
    <3> QED
      BY <1>1, <1>2, <1>4, <2>3, <2>4, <2>5, <3>1 DEF Counter!RetryAfter
  <2>7. t = st.windowStart + Window + k
    BY <1>0, <1>1, <2>6, LimitTyped
  <2> QED
    BY <1>4, <2>3, <2>5, <2>7, RetryFull
<1>5. CASE st.prev > 0
  <2>1. ASSUME Counter!RetryAfter(st, r) = Window - e
        PROVE  Counter!Fits(Counter!Roll(st, t), t)
    <3>1. t = st.windowStart + Window
      BY <1>0, <1>1, <2>1, LimitTyped
    <3> QED
      BY <1>0, <1>5, <3>1, FitsAtRollover
  <2>2. CASE over >= 0
    <3>1. Counter!RetryAfter(st, r) = Window - e
      BY <1>1, <1>2, <1>5, <2>2 DEF Counter!RetryAfter
    <3> QED
      BY <2>1, <3>1
  <2>3. CASE over < 0
    <3>1. PICK a \in Nat : a = (st.prev + over) * Window
      <4>1. /\ st.prev * (Window - e) = st.prev * Window - st.prev * e
            /\ st.prev * Window \in Nat /\ st.prev * e \in Nat /\ st.curr * Window \in Nat
        <5>1. PICK p \in Nat, c \in Nat : p = st.prev /\ c = st.curr
          BY <1>0
        <5>2. p * (Window - e) = p * Window - p * e
          BY LimitTyped
        <5>3. p * Window \in Nat /\ p * e \in Nat /\ c * Window \in Nat
          BY LimitTyped
        <5> QED
          BY <5>1, <5>2, <5>3
      <4>2. (st.prev + over) * Window = st.prev * Window + over * Window /\ over * Window \in Int
        BY <1>0, LimitTyped
      <4>3. over * Window = st.curr * Window - Limit * Window + Window
        BY <1>0, <1>2, LimitTyped
      <4>4. st.prev * Window + over * Window \in Nat
        BY <1>3, <4>1, <4>2, <4>3, LimitTyped
      <4> QED
        BY <4>2, <4>4
    <3>2. PICK q \in Nat : q = Counter!CeilDiv(a, st.prev) /\ q * st.prev >= a
      BY <1>0, <1>5, Ceil
    <3>3. CASE q - e > Window - e
      <4>1. Counter!RetryAfter(st, r) = Window - e
        BY <1>1, <1>2, <1>5, <2>3, <3>1, <3>2, <3>3 DEF Counter!RetryAfter
      <4> QED
        BY <2>1, <4>1
    <3>4. CASE ~(q - e > Window - e)
      <4>1. Counter!RetryAfter(st, r) = q - e
        BY <1>1, <1>2, <1>5, <2>3, <3>1, <3>2, <3>4 DEF Counter!RetryAfter
      <4>2. CASE q = Window
        BY <2>1, <4>1, <4>2
      <4>3. CASE q < Window
        <5>1. t = st.windowStart + q
          BY <1>0, <1>1, <4>1
        <5>2. q * st.prev >= (st.prev + (st.curr - Limit + 1)) * Window
          BY <1>2, <3>1, <3>2
        <5> QED
          BY <4>3, <5>1, <5>2, RetryWithin
      <4> QED
        BY <3>4, <4>2, <4>3, LimitTyped
    <3> QED
      BY <3>3, <3>4
  <2> QED
    BY <2>2, <2>3
<1> QED
  BY <1>0, <1>4, <1>5
-----------------------------------------------------------------------------
(* The limiters behind the one interface. *)

BucketInv ==
    algorithm = "bucket" =>
        /\ lastSeen = -1 \/ lastSeen = latest
        /\ overtaken \/ BucketFits(tokens, lastSeen, tally, clock)

CounterInv ==
    algorithm = "counter" =>
        \/ overtaken
        \/ state = Counter!Unseen /\ \A s \in 0..(clock + 1) : Count(tally, s, clock) = 0
        \/ state # Counter!Unseen /\ CounterFits(state, latest, tally, clock)

(* The inductive invariant: what each of them keeps, and that the bucket and   *)
(* the counter follow the reading of the last decision until it is overtaken.  *)
LimiterInv ==
    /\ IndInv
    /\ latest \in 0..clock
    /\ overtaken \in BOOLEAN
    /\ Tallied(tally, clock)
    /\ tokens \in 0..(Limit * Window)
    /\ lastSeen \in Nat \cup {-1} /\ lastSeen <= clock
    /\ state = Counter!Unseen \/ Counts(state)
    /\ BucketInv
    /\ CounterInv

LEMMA LimiterStart == LimiterInit => LimiterInv
<1> SUFFICES ASSUME LimiterInit PROVE LimiterInv
  OBVIOUS
<1>1. IndInv
  BY LogInit DEF LimiterInit
<1>2. clock = 0 /\ latest = 0 /\ overtaken = FALSE
  BY DEF LimiterInit, Init, ClockInit
<1>3. /\ tally = [t \in 0..MaxTime |-> 0] /\ lastSeen = -1 /\ tokens = Limit * Window
      /\ state = Counter!Unseen
  BY DEF LimiterInit, Bucket!Init, Counter!Init, Bucket!Full, Bucket!Token, Bucket!Capacity,
         Bucket!Interval, Bucket!Unseen
<1>4. Tallied(tally, 0) /\ \A s \in 0..1 : Count(tally, s, 0) = 0
  BY <1>3, TallyStarts
<1>5. BucketFits(tokens, lastSeen, tally, 0)
  BY <1>4 DEF BucketFits
<1>6. \A s \in 0..(clock + 1) : Count(tally, s, clock) = 0
  BY <1>2, <1>4
<1>7. BucketInv
  BY <1>2, <1>3, <1>5 DEF BucketInv
<1>8. CounterInv
  BY <1>3, <1>6 DEF CounterInv
<1>9. tokens \in 0..(Limit * Window) /\ lastSeen \in Nat \cup {-1} /\ lastSeen <= clock
  BY <1>2, <1>3, LimitTyped
<1>10. latest \in 0..clock
  BY <1>2
<1>11. overtaken \in BOOLEAN
  BY <1>2, Zenon
<1>12. Tallied(tally, clock)
  BY <1>2, <1>4
<1> QED
  BY <1>1, <1>3, <1>7, <1>8, <1>9, <1>10, <1>11, <1>12 DEF LimiterInv

(* A call that takes the mutex decides on its reading. *)
LEMMA Decided ==
    ASSUME NEW c \in Callers, Waiting(c), reading \in [Callers -> {NotCalling} \cup 0..MaxTime],
           reading' = [reading EXCEPT ![c] = NotCalling], Observe
    PROVE  /\ latest' = reading[c]
           /\ overtaken' = (overtaken \/ reading[c] < latest)
<1>1. {reading[x] : x \in {x \in Callers : Waiting(x) /\ reading'[x] = NotCalling}} = {reading[c]}
  <2>1. {x \in Callers : Waiting(x) /\ reading'[x] = NotCalling} = {c}
    BY DEF Waiting
  <2> QED
    BY <2>1
<1>2. reading[c] \in Nat
  BY LimitTyped DEF Waiting
<1>3. Max({reading[c]}) = reading[c]
  BY <1>2 DEF Max
<1> QED
  BY <1>1, <1>3 DEF Observe

(* Nothing else is a decision. *)
LEMMA Undecided ==
    ASSUME \A x \in Callers : Waiting(x) => reading'[x] = reading[x], Observe,
           overtaken \in BOOLEAN
    PROVE  latest' = latest /\ overtaken' = overtaken
<1>1. {reading[x] : x \in {x \in Callers : Waiting(x) /\ reading'[x] = NotCalling}} = {}
  BY DEF Waiting
<1> QED
  BY <1>1 DEF Observe

(* A caller of one of the others leaves the log as it is. *)
LEMMA ReturnKeeps ==
    ASSUME IndInv, NEW c \in Callers, Returned(c), UNCHANGED <<entries, allowed, serial>>
    PROVE  IndInv'
<1>1. TypeOK'
  BY ClockAssumption DEF IndInv, TypeOK, ClockTypeOK, Returned, Waiting
<1> QED
  BY <1>1 DEF IndInv, EntriesWithinLimit, Returned

(* What a step on the clock leaves true of the bucket and the counter. *)
LEMMA ReadKeepsLimiters ==
    ASSUME LimiterInv, IndInv', clock' = clock, latest' = latest, overtaken' = overtaken,
           UNCHANGED <<tokens, lastSeen, state, tally, algorithm>>
    PROVE  LimiterInv'
BY DEF LimiterInv, BucketInv, CounterInv

LEMMA TickKeepsLimiters ==
    ASSUME LimiterInv, IndInv', clock < MaxTime, clock' = clock + 1,
           latest' = latest, overtaken' = overtaken,
           UNCHANGED <<tokens, lastSeen, state, tally, algorithm>>
    PROVE  LimiterInv'
<1>1. PICK n \in Nat : n = clock /\ Tallied(tally, n) /\ n < MaxTime
  BY LimitTyped DEF LimiterInv, Tallied
<1>2. Tallied(tally, n + 1)
  BY <1>1, TallyTicks
<1>3. latest \in 0..(n + 1) /\ lastSeen <= n + 1
  BY <1>1 DEF LimiterInv
<1>4. BucketInv'
  <2> SUFFICES ASSUME algorithm = "bucket"
               PROVE  /\ lastSeen = -1 \/ lastSeen = latest
                      /\ overtaken \/ BucketFits(tokens, lastSeen, tally, n + 1)
    BY <1>1 DEF BucketInv
  <2> QED
    BY <1>1, BucketTicks DEF LimiterInv, BucketInv
<1>5. CounterInv'
  <2> SUFFICES ASSUME algorithm = "counter", ~overtaken
               PROVE  \/ state = Counter!Unseen /\ \A s \in 0..(n + 1 + 1) : Count(tally, s, n + 1) = 0
                      \/ state # Counter!Unseen /\ CounterFits(state, latest, tally, n + 1)
    BY <1>1 DEF CounterInv
  <2>1. CASE state = Counter!Unseen
    <3>1. \A s \in 0..(n + 1) : Count(tally, s, n) = 0
      BY <1>1, <2>1 DEF LimiterInv, CounterInv
    <3>2. ASSUME NEW s \in 0..(n + 1 + 1) PROVE Count(tally, s, n + 1) = 0
      <4>1. s \in 0..(n + 1) \/ s = n + 2
        OBVIOUS
      <4> QED
        BY <1>1, <3>1, <4>1, TallyTicks
    <3> QED
      BY <2>1, <3>2
  <2>2. CASE state # Counter!Unseen
    <3>1. Counts(state) /\ CounterFits(state, latest, tally, n)
      BY <1>1, <2>2 DEF LimiterInv, CounterInv
    <3> QED
      BY <1>1, <2>2, <3>1, CounterTicks
  <2> QED
    BY <2>1, <2>2
<1> QED
  BY <1>1, <1>2, <1>3, <1>4, <1>5 DEF LimiterInv
(* The instances' calls on the clock are the log's. *)
LEMMA SameClock ==
    /\ \A c : Bucket!ReadClock(c) = ReadClock(c) /\ Counter!ReadClock(c) = ReadClock(c)
    /\ \A c : Bucket!Returned(c) = Returned(c) /\ Counter!Returned(c) = Returned(c)
    /\ \A c : Bucket!Waiting(c) = Waiting(c) /\ Counter!Waiting(c) = Waiting(c)
    /\ Bucket!Tick = Tick /\ Counter!Tick = Tick
BY DEF Bucket!ReadClock, Counter!ReadClock, ReadClock, Bucket!Returned, Counter!Returned, Returned,
       Bucket!Waiting, Counter!Waiting, Waiting, Bucket!Tick, Counter!Tick, Tick,
       Bucket!NotCalling, Counter!NotCalling

LEMMA BucketIs ==
    /\ Bucket!Token = Window /\ Bucket!Full = Limit * Window /\ Bucket!Capacity = Limit
    /\ \A r : Bucket!Refilled(r) = Refill(tokens, lastSeen, r)
    /\ \A s : Bucket!AllowedFrom(s) = Spent(tally, s, clock)
    /\ \A s : Counter!AllowedFrom(s) = Spent(tally, s, clock)
BY DEF Bucket!Token, Bucket!Full, Bucket!Capacity, Bucket!Interval, Bucket!Refilled, Bucket!Unseen,
       Refill, Bucket!AllowedFrom, Counter!AllowedFrom, Spent

(* Allow of the token bucket. *)
LEMMA BucketAllowKeeps ==
    ASSUME LimiterInv, algorithm = "bucket", NEW c \in Callers, Bucket!Allow(c), Observe,
           UNCHANGED <<logVars, state, algorithm>>
    PROVE  LimiterInv'
<1>1. Waiting(c) /\ Returned(c)
  BY SameClock DEF Bucket!Allow
<1>2. reading \in [Callers -> {NotCalling} \cup 0..MaxTime]
  BY DEF LimiterInv, IndInv, TypeOK, ClockTypeOK
<1>3. PICK r \in Nat : r = reading[c] /\ r \in 0..MaxTime /\ r <= clock /\ clock <= r + MaxDelay
  BY <1>1, LimitTyped DEF LimiterInv, IndInv, TypeOK, ClockTypeOK, Waiting
<1>4. clock' = clock /\ reading' = [reading EXCEPT ![c] = NotCalling]
  BY <1>1 DEF Returned
<1>5. latest' = r /\ overtaken' = (overtaken \/ r < latest)
  BY <1>1, <1>2, <1>3, <1>4, Decided
<1>6. IndInv'
  BY <1>1, ReturnKeeps DEF LimiterInv, logVars
<1>7. PICK n \in Nat : n = clock /\ Tallied(tally, n)
  BY LimitTyped DEF LimiterInv, Tallied
<1>8. /\ tokens \in 0..(Limit * Window) /\ lastSeen \in Nat \cup {-1} /\ latest \in Nat
      /\ lastSeen = -1 \/ lastSeen = latest
  BY <1>7 DEF LimiterInv, BucketInv
<1>9. PICK R \in 0..(Limit * Window) : R = Refill(tokens, lastSeen, r)
  BY <1>8, RefillTyped
<1>10. lastSeen' = r
  BY <1>3 DEF Bucket!Allow
<1>11. \/ R >= Window /\ tokens' = R - Window /\ tally' = [tally EXCEPT ![n] = @ + 1]
       \/ tokens' = R /\ tally' = tally
  BY <1>3, <1>7, <1>9, BucketIs DEF Bucket!Allow
<1>12. ~overtaken' => ~overtaken /\ lastSeen <= r
  <2>1. ~overtaken' => ~overtaken /\ ~(r < latest)
    BY <1>5
  <2>2. ~(r < latest) => lastSeen <= r
    BY <1>8
  <2> QED
    BY <2>1, <2>2
<1>13. ~overtaken' => BucketFits(R, r, tally, n)
  BY <1>7, <1>8, <1>9, <1>12, BucketRefills DEF LimiterInv, BucketInv
<1>14. ~overtaken' => BucketFits(tokens', r, tally', n)
  <2>1. CASE R >= Window /\ tokens' = R - Window /\ tally' = [tally EXCEPT ![n] = @ + 1]
    <3>1. R \in Nat /\ R <= Limit * Window /\ n <= r + MaxDelay
      BY <1>3, <1>7, LimitTyped
    <3> QED
      BY <1>7, <1>13, <2>1, <3>1, BucketTakes
  <2>2. CASE tokens' = R /\ tally' = tally
    BY <1>13, <2>2
  <2> QED
    BY <1>11, <2>1, <2>2
<1>15. Tallied(tally', n)
  BY <1>7, <1>11, TallyMore
<1>16. tokens' \in 0..(Limit * Window)
  BY <1>11, LimitTyped
<1>17. BucketInv'
  BY <1>4, <1>5, <1>7, <1>10, <1>14 DEF BucketInv
<1>18. CounterInv'
  BY DEF CounterInv
<1>19. overtaken' \in BOOLEAN
  BY <1>5, Zenon
<1>20. latest' \in 0..clock' /\ lastSeen' \in Nat \cup {-1} /\ lastSeen' <= clock'
  BY <1>3, <1>4, <1>5, <1>7, <1>10
<1>21. (state = Counter!Unseen \/ Counts(state))'
  BY DEF LimiterInv, Counts, Counter!Unseen
<1> QED
  BY <1>4, <1>6, <1>7, <1>15, <1>16, <1>17, <1>18, <1>19, <1>20, <1>21 DEF LimiterInv

(* Allow of the sliding window counter. *)
LEMMA CounterAllowKeeps ==
    ASSUME LimiterInv, algorithm = "counter", NEW c \in Callers, Counter!Allow(c), Observe,
           UNCHANGED <<logVars, bucketVars, algorithm>>
    PROVE  LimiterInv'
<1>1. Waiting(c) /\ Returned(c)
  BY SameClock DEF Counter!Allow
<1>2. reading \in [Callers -> {NotCalling} \cup 0..MaxTime]
  BY DEF LimiterInv, IndInv, TypeOK, ClockTypeOK
<1>3. PICK r \in Nat : r = reading[c] /\ r \in 0..MaxTime /\ r <= clock /\ clock <= r + MaxDelay
  BY <1>1, LimitTyped DEF LimiterInv, IndInv, TypeOK, ClockTypeOK, Waiting
<1>4. clock' = clock /\ reading' = [reading EXCEPT ![c] = NotCalling]
  BY <1>1 DEF Returned
<1>5. latest' = r /\ overtaken' = (overtaken \/ r < latest)
  BY <1>1, <1>2, <1>3, <1>4, Decided
<1>6. IndInv'
  BY <1>1, ReturnKeeps DEF LimiterInv, logVars
<1>7. PICK n \in Nat : n = clock /\ Tallied(tally, n)
  BY LimitTyped DEF LimiterInv, Tallied
<1>8. (state = Counter!Unseen \/ Counts(state)) /\ latest \in Nat
  BY <1>7 DEF LimiterInv
<1>9. PICK st : st = Counter!Roll(state, r)
  OBVIOUS
<1>10. Counts(st) /\ st.windowStart <= r /\ r < st.windowStart + Window
  BY <1>8, <1>9, RollTyped
<1>11. PICK su : su = [st EXCEPT !.curr = @ + 1]
  OBVIOUS
<1>12. \/ Counter!Fits(st, r) /\ state' = su /\ tally' = [tally EXCEPT ![n] = @ + 1]
       \/ state' = st /\ tally' = tally
  BY <1>3, <1>7, <1>9, <1>11 DEF Counter!Allow
<1>13. ~overtaken' => ~overtaken /\ latest <= r
  <2>1. ~overtaken' => ~overtaken /\ ~(r < latest)
    BY <1>5
  <2>2. ~(r < latest) => latest <= r
    BY <1>8
  <2> QED
    BY <2>1, <2>2
<1>14. ~overtaken' => CounterFits(st, r, tally, n)
  <2> SUFFICES ASSUME ~overtaken' PROVE CounterFits(st, r, tally, n)
    OBVIOUS
  <2>1. CASE state = Counter!Unseen
    BY <1>7, <1>9, <1>13, <2>1, CounterStarts DEF LimiterInv, CounterInv
  <2>2. CASE state # Counter!Unseen
    BY <1>7, <1>8, <1>9, <1>13, <2>2, CounterRolls DEF LimiterInv, CounterInv
  <2> QED
    BY <2>1, <2>2
<1>15. Counts(state') /\ (~overtaken' => CounterFits(state', r, tally', n))
  <2>1. CASE Counter!Fits(st, r) /\ state' = su /\ tally' = [tally EXCEPT ![n] = @ + 1]
    <3>1. Counts(su)
      BY <1>10, <1>11, <2>1, CountsMore
    <3>2. n <= r + MaxDelay
      BY <1>3, <1>7
    <3> QED
      BY <1>7, <1>10, <1>11, <1>14, <2>1, <3>1, <3>2, CounterTakes
  <2>2. CASE state' = st /\ tally' = tally
    BY <1>10, <1>14, <2>2
  <2> QED
    BY <1>12, <2>1, <2>2
<1>16. Tallied(tally', n)
  BY <1>7, <1>12, TallyMore
<1>17. state' # Counter!Unseen
  BY <1>15 DEF Counts, Counter!Unseen
<1>18. CounterInv'
  <2>1. (state # Counter!Unseen)'
    BY <1>17 DEF Counter!Unseen
  <2> QED
    BY <1>4, <1>5, <1>7, <1>15, <2>1 DEF CounterInv
<1>19. BucketInv'
  BY DEF BucketInv
<1>20. overtaken' \in BOOLEAN
  BY <1>5, Zenon
<1>21. /\ latest' \in 0..clock' /\ tokens' \in 0..(Limit * Window)
       /\ lastSeen' \in Nat \cup {-1} /\ lastSeen' <= clock'
  BY <1>3, <1>4, <1>5, <1>7 DEF LimiterInv, bucketVars
<1> QED
  BY <1>4, <1>6, <1>7, <1>15, <1>16, <1>18, <1>19, <1>20, <1>21 DEF LimiterInv
(* Reading the clock and waiting for the mutex, whichever the limiter. *)
LEMMA ReadClockKeepsLimiters ==
    ASSUME LimiterInv, NEW c \in Callers, ReadClock(c), Observe,
           UNCHANGED <<logVars, bucketVars, state, tally, algorithm>>
    PROVE  LimiterInv'
<1>1. IndInv'
  BY ReadClockKeeps DEF LimiterInv, logVars
<1>2. \A x \in Callers : Waiting(x) => reading'[x] = reading[x]
  BY DEF ReadClock, LimiterInv, IndInv, TypeOK, ClockTypeOK
<1>3. latest' = latest /\ overtaken' = overtaken
  BY <1>2, Undecided DEF LimiterInv
<1> QED
  BY <1>1, <1>3, ReadKeepsLimiters DEF ReadClock, bucketVars

LEMMA ClockTickKeepsLimiters ==
    ASSUME LimiterInv, Tick, Observe,
           UNCHANGED <<logVars, bucketVars, state, tally, algorithm>>
    PROVE  LimiterInv'
<1>1. IndInv'
  BY TickKeeps DEF LimiterInv, logVars
<1>2. \A x \in Callers : Waiting(x) => reading'[x] = reading[x]
  BY DEF Tick
<1>3. latest' = latest /\ overtaken' = overtaken
  BY <1>2, Undecided DEF LimiterInv
<1> QED
  BY <1>1, <1>3, TickKeepsLimiters DEF Tick, bucketVars

(* A step of the log says nothing of the other two. *)
LEMMA LogKeepsLimiters ==
    ASSUME LimiterInv, algorithm = "log", Next, Observe,
           UNCHANGED <<bucketVars, state, tally, algorithm>>
    PROVE  LimiterInv'
<1>1. IndInv'
  BY LogStep DEF LimiterInv
<1>2. CASE Tick /\ UNCHANGED logVars
  BY <1>2, ClockTickKeepsLimiters
<1>3. ASSUME NEW c \in Callers, ReadClock(c), UNCHANGED logVars PROVE LimiterInv'
  BY <1>3, ReadClockKeepsLimiters
<1>4. ASSUME NEW c \in Callers, Waiting(c), Returned(c) PROVE LimiterInv'
  <2>1. reading \in [Callers -> {NotCalling} \cup 0..MaxTime]
    BY DEF LimiterInv, IndInv, TypeOK, ClockTypeOK
  <2>2. reading[c] \in 0..clock
    BY <1>4, LimitTyped DEF LimiterInv, IndInv, TypeOK, ClockTypeOK, Waiting
  <2>3. clock' = clock /\ latest' = reading[c] /\ overtaken' = (overtaken \/ reading[c] < latest)
    BY <1>4, <2>1, Decided DEF Returned
  <2>4. overtaken' \in BOOLEAN
    BY <2>3, Zenon
  <2>5. BucketInv' /\ CounterInv'
    BY DEF BucketInv, CounterInv
  <2>6. latest' \in 0..clock'
    BY <2>2, <2>3
  <2>7. (state = Counter!Unseen \/ Counts(state))'
    BY DEF LimiterInv, Counts, Counter!Unseen
  <2> QED
    BY <1>1, <2>3, <2>4, <2>5, <2>6, <2>7 DEF LimiterInv, bucketVars
<1> QED
  BY <1>2, <1>3, <1>4 DEF Next, Allow, logVars

LEMMA LimiterStep == LimiterInv /\ [LimiterNext]_limiterVars => LimiterInv'
<1> SUFFICES ASSUME LimiterInv, [LimiterNext]_limiterVars PROVE LimiterInv'
  OBVIOUS
<1>1. CASE LimiterNext /\ algorithm = "log" /\ Next /\ UNCHANGED <<bucketVars, state, tally>>
  BY <1>1, LogKeepsLimiters DEF LimiterNext
<1>2. CASE LimiterNext /\ algorithm = "bucket" /\ Bucket!Next /\ UNCHANGED <<logVars, state>>
  <2>1. Observe /\ algorithm' = algorithm
    BY <1>2 DEF LimiterNext
  <2>2. ASSUME NEW c \in Callers, Bucket!Allow(c) PROVE LimiterInv'
    BY <1>2, <2>1, <2>2, BucketAllowKeeps
  <2>3. ASSUME NEW c \in Callers, Bucket!ReadClock(c), UNCHANGED <<tokens, lastSeen, tally>>
        PROVE  LimiterInv'
    BY <1>2, <2>1, <2>3, SameClock, ReadClockKeepsLimiters DEF bucketVars
  <2>4. CASE Bucket!Tick /\ UNCHANGED <<tokens, lastSeen, tally>>
    BY <1>2, <2>1, <2>4, SameClock, ClockTickKeepsLimiters DEF bucketVars
  <2> QED
    BY <1>2, <2>2, <2>3, <2>4 DEF Bucket!Next
<1>3. CASE LimiterNext /\ algorithm = "counter" /\ Counter!Next /\ UNCHANGED <<logVars, bucketVars>>
  <2>1. Observe /\ algorithm' = algorithm
    BY <1>3 DEF LimiterNext
  <2>2. ASSUME NEW c \in Callers, Counter!Allow(c) PROVE LimiterInv'
    BY <1>3, <2>1, <2>2, CounterAllowKeeps
  <2>3. ASSUME NEW c \in Callers, Counter!ReadClock(c), UNCHANGED <<state, tally>>
        PROVE  LimiterInv'
    BY <1>3, <2>1, <2>3, SameClock, ReadClockKeepsLimiters
  <2>4. CASE Counter!Tick /\ UNCHANGED <<state, tally>>
    BY <1>3, <2>1, <2>4, SameClock, ClockTickKeepsLimiters
  <2> QED
    BY <1>3, <2>2, <2>3, <2>4 DEF Counter!Next
<1>4. CASE UNCHANGED limiterVars
  <2>1. IndInv'
    BY <1>4, LogStep DEF LimiterInv, limiterVars, logVars, lvars
  <2> QED
    BY <1>4, <2>1, ReadKeepsLimiters DEF limiterVars, bucketVars
<1> QED
  BY <1>1, <1>2, <1>3, <1>4 DEF LimiterNext

LEMMA LimiterHolds == LimiterSpec => []LimiterInv
BY LimiterStart, LimiterStep, PTL DEF LimiterSpec

(* The instances count as this module does. *)
LEMMA SameCardinality ==
    \A S : Bucket!Cardinality(S) = Cardinality(S) /\ Counter!Cardinality(S) = Cardinality(S)
BY DEF Bucket!Cardinality, Counter!Cardinality, Cardinality

(* TokenBucket.Allow: for any capacity, interval, delay and number of callers  *)
(* a key spends a full bucket and its refill in any span, up to the delay, as  *)
(* long as no call is decided after one with a later reading.                  *)
THEOREM BucketThrottlesToRefill == LimiterSpec => []ThrottledToRefill
<1>1. LimiterInv => ThrottledToRefill
  <2> SUFFICES ASSUME LimiterInv, algorithm = "bucket", ~overtaken
               PROVE  Bucket!ThrottledToRefill
    BY DEF ThrottledToRefill
  <2> SUFFICES ASSUME NEW s \in 0..clock
               PROVE  Cardinality(Bucket!AllowedFrom(s)) * Bucket!Token
                         <= Bucket!Full + (clock - s + MaxDelay) * Bucket!Capacity
    BY SameCardinality, Zenon DEF Bucket!ThrottledToRefill
  <2> SUFFICES Cardinality(Spent(tally, s, clock)) * Window
                  <= Limit * Window + (clock - s + MaxDelay) * Limit
    BY BucketIs
  <2>1. /\ tokens \in Nat /\ lastSeen \in Nat \cup {-1} /\ lastSeen <= clock
        /\ Tallied(tally, clock) /\ BucketFits(tokens, lastSeen, tally, clock)
    BY LimitTyped DEF LimiterInv, BucketInv
  <2> QED
    BY <2>1, BucketKeeps DEF Count
<1> QED
  BY <1>1, LimiterHolds, PTL

(* SlidingWindowCounter.Allow: no burst across the boundary of two windows,    *)
(* for any limit, window, delay and number of callers, as long as no call is   *)
(* decided after one with a later reading.                                     *)
THEOREM CounterHasNoBoundaryBurst == LimiterSpec => []NoBoundaryBurst
<1>1. LimiterInv => NoBoundaryBurst
  <2> SUFFICES ASSUME LimiterInv, algorithm = "counter", ~overtaken
               PROVE  Counter!NoBoundaryBurst
    BY DEF NoBoundaryBurst
  <2> SUFFICES ASSUME NEW s \in 0..clock, clock - s + MaxDelay <= Window
               PROVE  Cardinality(Counter!AllowedFrom(s)) * Window
                         <= Limit * (Window + (clock - s + MaxDelay))
    BY SameCardinality, Zenon DEF Counter!NoBoundaryBurst
  <2> SUFFICES Cardinality(Spent(tally, s, clock)) * Window
                  <= Limit * (Window + (clock - s + MaxDelay))
    BY BucketIs
  <2>1. Tallied(tally, clock) /\ latest \in Nat /\ latest <= clock /\ clock \in Nat
    BY LimitTyped DEF LimiterInv, Tallied
  <2>2. CASE state = Counter!Unseen
    <3>1. Count(tally, s, clock) = 0
      BY <2>1, <2>2 DEF LimiterInv, CounterInv
    <3>2. PICK z \in Nat : z = clock - s + MaxDelay
      BY <2>1, LimitTyped
    <3>3. 0 * Window = 0 /\ Limit * (Window + z) \in Nat
      BY LimitTyped
    <3> QED
      BY <3>1, <3>2, <3>3 DEF Count
  <2>3. CASE state # Counter!Unseen
    <3>1. Counts(state) /\ CounterFits(state, latest, tally, clock)
      BY <2>3 DEF LimiterInv, CounterInv
    <3> QED
      BY <2>1, <3>1, CounterKeeps DEF Count
  <2> QED
    BY <2>2, <2>3
<1> QED
  BY <1>1, LimiterHolds, PTL

(* Result.RetryAfter of the bucket and of the counter, from any state, after   *)
(* calls that were overtaken too: one who is denied and waits it out is        *)
(* allowed, the bucket's truncation making up less than a tick.                *)
THEOREM LimitersRetryIsEnough == LimiterSpec => []RetryIsEnough
<1>1. LimiterInv => RetryIsEnough
  <2> SUFFICES ASSUME LimiterInv PROVE RetryIsEnough
    OBVIOUS
  <2>1. ASSUME NEW c \in Callers, Waiting(c) PROVE reading[c] \in Nat
    BY <2>1, LimitTyped DEF LimiterInv, IndInv, TypeOK, ClockTypeOK, Waiting
  <2>2. Bucket!RetryWithinATick
    <3> SUFFICES ASSUME NEW c \in Callers, Waiting(c), Bucket!Refilled(reading[c]) < Window
                 PROVE  Bucket!Refilled(reading[c])
                          + (Bucket!RetryAfter(reading[c]) + 1) * Limit >= Window
      BY SameClock, BucketIs DEF Bucket!RetryWithinATick
    <3>1. PICK R \in 0..(Limit * Window) : R = Bucket!Refilled(reading[c]) /\ R < Window
      BY <2>1, BucketIs, RefillTyped DEF LimiterInv
    <3>2. Bucket!RetryAfter(reading[c]) = (Window - R) \div Limit
      <4>1. ~(Window - R <= 0)
        BY <3>1, LimitTyped
      <4> QED
        BY <3>1, <4>1, BucketIs DEF Bucket!RetryAfter, Bucket!DurationFor
    <3> QED
      BY <3>1, <3>2, RetryCovers
  <2>3. Counter!RetryIsEnough
    <3> SUFFICES ASSUME NEW c \in Callers, Waiting(c), NEW r, r = reading[c],
                        NEW st, st = Counter!Roll(state, r), ~Counter!Fits(st, r),
                        NEW t, t = r + Counter!RetryAfter(st, r)
                 PROVE  Counter!Fits(Counter!Roll(st, t), t)
      BY SameClock DEF Counter!RetryIsEnough
    <3>1. r \in Nat
      BY <2>1
    <3>2. Counts(st) /\ st.windowStart <= r /\ r < st.windowStart + Window
      BY <3>1, RollTyped DEF LimiterInv
    <3> QED
      BY <3>1, <3>2, CounterRetries
  <2> QED
    BY <2>2, <2>3 DEF RetryIsEnough
<1> QED
  BY <1>1, LimiterHolds, PTL

(* The log behind the interface keeps its promises whichever limiter was       *)
(* picked: the ones proved of its own specification above.                     *)
THEOREM LimiterLogKeeps == LimiterSpec => [](TypeOK /\ CeilingWithinDelay /\ WaitsAreEnough)
<1>1. LimiterInv => TypeOK /\ CeilingWithinDelay /\ WaitsAreEnough
  BY LogCeilingStep, DeniedWaits DEF LimiterInv, IndInv, WaitsAreEnough
<1> QED
  BY <1>1, LimiterHolds, PTL
=============================================================================
