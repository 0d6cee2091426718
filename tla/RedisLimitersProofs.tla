------------------------ MODULE RedisLimitersProofs ------------------------
(***************************************************************************)
(* What the Redis scripts promise, for every limit, window, margin and     *)
(* precision, while TIME is set back any number of times and the key       *)
(* expires in between.                                                     *)
(***************************************************************************)
EXTENDS RedisLimiters, FiniteSetTheorems, WellFoundedInduction, TLAPS

LEMMA LimitTyped ==
    /\ Limit \in Nat /\ Limit >= 1 /\ Window \in Nat /\ Window >= 1
    /\ Start \in Nat /\ MaxTime \in Nat /\ Margin \in Nat
    /\ Limit * Window \in Nat /\ Limit * Window >= Window
BY RedisLimiterAssumption, RedisAssumption

(* The scripts' modules count as this one does, on the same server. *)
LEMMA SameCardinality ==
    /\ \A S : Log!Cardinality(S) = Cardinality(S)
    /\ \A S : Bucket!Cardinality(S) = Cardinality(S)
    /\ \A S : Counter!Cardinality(S) = Cardinality(S)
BY DEF Log!Cardinality, Bucket!Cardinality, Counter!Cardinality, Cardinality

LEMMA SameServer ==
    /\ Bucket!Expired = Expired /\ Log!Expired = Expired /\ Counter!Expired = Expired
    /\ Bucket!Tick = Tick /\ Log!Tick = Tick /\ Counter!Tick = Tick
    /\ Bucket!SetBack = SetBack /\ Log!SetBack = SetBack /\ Counter!SetBack = SetBack
    /\ Bucket!serverVars = serverVars /\ Log!serverVars = serverVars
    /\ Counter!serverVars = serverVars
BY DEF Bucket!Expired, Log!Expired, Counter!Expired, Expired, Bucket!Tick, Log!Tick, Counter!Tick,
       Tick, Bucket!SetBack, Log!SetBack, Counter!SetBack, SetBack, Bucket!serverVars,
       Log!serverVars, Counter!serverVars, serverVars

-----------------------------------------------------------------------------
(* TIME never runs ahead of the time: until it is set back it shows the time   *)
(* since the start, and afterwards less.                                       *)
ServerInv ==
    /\ time \in 0..MaxTime /\ clock \in Nat /\ steps \in Nat
    /\ expireAt \in Nat \cup {-1}
    /\ clock <= Start + time
    /\ steps = 0 => clock = Start + time

LEMMA TickServes ==
    ASSUME ServerInv, Tick
    PROVE  ServerInv' /\ clock' = clock + 1 /\ time' = time + 1 /\ time < MaxTime
BY LimitTyped DEF ServerInv, Tick

LEMMA SetBackServes ==
    ASSUME ServerInv, SetBack
    PROVE  ServerInv' /\ clock' < clock /\ time' = time /\ steps' # 0
<1>1. PICK d \in 1..clock : clock' = clock - d
  BY DEF SetBack
<1>2. clock' \in Nat /\ clock' < clock
  BY <1>1 DEF ServerInv
<1> QED
  BY <1>2, LimitTyped DEF ServerInv, SetBack

-----------------------------------------------------------------------------
(* A nonempty set of naturals has a least element ... *)
LEMMA MinOf ==
    ASSUME NEW S, S \subseteq Nat, S # {}
    PROVE  Log!Min(S) \in S /\ \A y \in S : Log!Min(S) <= y
<1>1. PICK x \in S : \A y \in S : ~(<<y, x>> \in OpToRel(<, Nat))
  BY NatLessThanWellFounded, WFMin
<1>2. \A y \in S : ~(y < x)
  BY <1>1 DEF OpToRel
<1>3. \A y \in S : x <= y
  BY <1>2
<1> QED
  BY <1>3 DEF Log!Min

(* ... and a bounded one a greatest. *)
LEMMA MaxOf ==
    ASSUME NEW N \in Nat, NEW S, S \subseteq 0..N, S # {}
    PROVE  Log!Max(S) \in S /\ \A y \in S : y <= Log!Max(S)
<1> DEFINE T == {x \in 0..N : N - x \in S}
<1>1. \A y \in S : N - y \in T
  <2>1. TAKE y \in S
  <2>2. y \in 0..N /\ N - y \in 0..N /\ N - (N - y) = y
    OBVIOUS
  <2> QED
    BY <2>2
<1>2. T \subseteq Nat /\ T # {} /\ \A t \in T : t \in 0..N /\ N - t \in S
  <2>1. PICK s : s \in S
    OBVIOUS
  <2>2. N - s \in T
    BY <1>1, <2>1
  <2> QED
    BY <2>2
<1> HIDE DEF T
<1>3. PICK t \in T : \A y \in T : t <= y
  BY <1>2, MinOf
<1>4. ASSUME NEW y \in S PROVE N - t >= y
  <2>1. t <= N - y /\ t \in Nat /\ y \in Nat
    BY <1>1, <1>2, <1>3
  <2> QED
    BY <2>1
<1>5. N - t \in S
  BY <1>2
<1> QED
  BY <1>4, <1>5 DEF Log!Max

(* The sliding window log.  A member's score is TIME when it was allowed, and  *)
(* TIME has not moved on by more than the time since: a request of the last    *)
(* window is therefore still a member, and it keeps its key alive.             *)
Entry == [score : 0..(Start + MaxTime), at : 0..MaxTime, n : Nat]

LogInv ==
    /\ serial \in Nat /\ entries \subseteq allowed /\ allowed \subseteq Entry
    /\ IsFiniteSet(entries) /\ Cardinality(entries) <= Limit
    /\ \A e \in allowed : e.at <= time /\ clock + e.at <= e.score + time
    /\ \A e \in allowed : e.at + Window > time => e \in entries
    /\ algorithm = "log" => \A e \in entries : e.score + Window <= expireAt
    /\ algorithm # "log" => entries = {} /\ allowed = {}

LEMMA EntryTyped ==
    ASSUME LogInv
    PROVE  /\ \A e \in allowed : e.score \in Nat /\ e.score <= Start + MaxTime /\ e.at \in Nat
           /\ \A e \in entries : e \in allowed
BY LimitTyped DEF LogInv, Entry

LEMMA LogTicks ==
    ASSUME ServerInv, LogInv, Tick, UNCHANGED <<logVars, algorithm>>
    PROVE  LogInv'
<1>1. /\ clock' = clock + 1 /\ time' = time + 1 /\ clock \in Nat /\ time \in Nat
      /\ expireAt' = expireAt
  BY LimitTyped, TickServes DEF ServerInv, Tick
<1>2. entries' = entries /\ allowed' = allowed /\ serial' = serial /\ algorithm' = algorithm
  BY DEF logVars
<1>3. \A e \in allowed : e.at <= time' /\ clock' + e.at <= e.score + time'
  BY <1>1, EntryTyped DEF LogInv
<1>4. \A e \in allowed : e.at + Window > time' => e \in entries
  BY <1>1, EntryTyped, LimitTyped DEF LogInv
<1> QED
  BY <1>1, <1>2, <1>3, <1>4 DEF LogInv

LEMMA LogSetBack ==
    ASSUME ServerInv, LogInv, SetBack, UNCHANGED <<logVars, algorithm>>
    PROVE  LogInv'
<1>1. clock' < clock /\ time' = time /\ clock' \in Nat /\ clock \in Nat /\ time \in Nat
  BY LimitTyped, SetBackServes DEF ServerInv
<1>2. entries' = entries /\ allowed' = allowed /\ serial' = serial /\ algorithm' = algorithm
      /\ expireAt' = expireAt
  BY DEF logVars, SetBack
<1>3. \A e \in allowed : clock' + e.at <= e.score + time'
  BY <1>1, EntryTyped DEF LogInv
<1> QED
  BY <1>1, <1>2, <1>3 DEF LogInv

(* The other scripts never touch the sorted set. *)
LEMMA LogUnused ==
    ASSUME LogInv, algorithm # "log",
           UNCHANGED <<logVars, algorithm, time, clock>>
    PROVE  LogInv'
BY DEF LogInv, logVars

(* What the script keeps. *)
LEMMA KeptTyped ==
    ASSUME ServerInv, LogInv, algorithm = "log"
    PROVE  /\ Log!Kept \subseteq entries
           /\ \A e \in Log!Kept : e.score > clock - Window
           /\ IsFiniteSet(Log!Kept) /\ Cardinality(Log!Kept) \in Nat
           /\ Cardinality(Log!Kept) <= Limit
           /\ \A e \in allowed : e.at + Window > time => e \in Log!Kept
<1>1. Log!Kept \subseteq entries /\ \A e \in Log!Kept : e.score > clock - Window
  BY DEF Log!Kept
<1>2. IsFiniteSet(Log!Kept) /\ Cardinality(Log!Kept) <= Cardinality(entries)
  BY <1>1, FS_Subset DEF LogInv
<1>3. Cardinality(Log!Kept) \in Nat /\ Cardinality(entries) \in Nat
  BY <1>2, FS_CardinalityType DEF LogInv
<1>4. ASSUME NEW e \in allowed, e.at + Window > time PROVE e \in Log!Kept
  <2>1. e \in entries /\ e.score \in Nat /\ e.at \in Nat /\ clock + e.at <= e.score + time
        /\ e.score + Window <= expireAt
    BY <1>4, EntryTyped DEF LogInv
  <2>2. clock \in Nat /\ time \in Nat /\ expireAt \in Int
    BY LimitTyped DEF ServerInv
  <2>3. e.score > clock - Window /\ ~(clock > expireAt)
    BY <1>4, <2>1, <2>2, LimitTyped
  <2>4. ~Log!Expired
    BY <2>3, SameServer DEF Expired
  <2> QED
    BY <2>1, <2>3, <2>4 DEF Log!Kept
<1> QED
  BY <1>1, <1>2, <1>3, <1>4, LimitTyped DEF LogInv

(* PEXPIRE outlives the youngest member. *)
LEMMA TtlCovers ==
    ASSUME ServerInv, NEW M, M # {}, \A e \in M : e.score \in Nat /\ e.score <= Start + MaxTime
    PROVE  /\ Log!Ttl(M) \in Nat
           /\ \A e \in M : e.score + Window <= clock + Log!Ttl(M)
<1> DEFINE S == {e.score : e \in M}
<1>1. S \subseteq 0..(Start + MaxTime) /\ S # {} /\ \A e \in M : e.score \in S
  BY LimitTyped
<1>2. PICK x : x = Log!Max(S)
  OBVIOUS
<1> HIDE DEF S
<1>3. x \in S /\ \A y \in S : y <= x
  <2>1. Start + MaxTime \in Nat
    BY LimitTyped
  <2> QED
    BY <1>1, <1>2, <2>1, MaxOf
<1>4. x \in Nat
  BY <1>1, <1>3
<1>5. Log!Ttl(M) = (IF x + Window - clock < 0 THEN 0 ELSE x + Window - clock) + Margin
  BY <1>2 DEF Log!Ttl, Log!ResetAfter, Log!NotNegative, S
<1>6. clock \in Nat
  BY DEF ServerInv
<1>7. Log!Ttl(M) \in Nat /\ x + Window <= clock + Log!Ttl(M)
  BY <1>4, <1>5, <1>6, LimitTyped
<1>8. \A e \in M : e.score \in Nat /\ e.score <= x
  BY <1>1, <1>3
<1> QED
  BY <1>4, <1>6, <1>7, <1>8, LimitTyped

LEMMA ServerKept ==
    ASSUME ServerInv, UNCHANGED serverVars, expireAt' \in Nat \cup {-1}
    PROVE  ServerInv'
BY DEF ServerInv, serverVars

(* slidingwindowlog.lua. *)
LEMMA LogAllows ==
    ASSUME ServerInv, LogInv, algorithm = "log", Log!Allow, algorithm' = algorithm
    PROVE  ServerInv' /\ LogInv'
<1> DEFINE entry == [score |-> clock, at |-> time, n |-> serial]
<1>1. /\ Log!Kept \subseteq entries
      /\ IsFiniteSet(Log!Kept) /\ Cardinality(Log!Kept) \in Nat
      /\ Cardinality(Log!Kept) <= Limit
      /\ \A e \in allowed : e.at + Window > time => e \in Log!Kept
  BY KeptTyped
<1>2. /\ clock \in Nat /\ time \in 0..MaxTime /\ clock <= Start + time /\ serial \in Nat
      /\ time' = time /\ clock' = clock /\ UNCHANGED serverVars
  BY DEF ServerInv, LogInv, Log!Allow, Log!serverVars, serverVars
<1>3. entry \in Entry /\ entry.score = clock /\ entry.at = time
  BY <1>2, LimitTyped DEF Entry
<1>4. expireAt' = clock + Log!Ttl(entries')
  BY DEF Log!Allow
<1>5. ASSUME entries' # {}, entries' \subseteq Entry
      PROVE  expireAt' \in Nat /\ \A e \in entries' : e.score + Window <= expireAt'
  <2>1. \A e \in entries' : e.score \in Nat /\ e.score <= Start + MaxTime
    BY <1>5, LimitTyped DEF Entry
  <2>2. PICK M : M = entries'
    OBVIOUS
  <2>3. Log!Ttl(M) \in Nat /\ \A e \in M : e.score + Window <= clock + Log!Ttl(M)
    BY <1>5, <2>1, <2>2, TtlCovers
  <2> QED
    BY <1>2, <1>4, <2>2, <2>3
<1>6. CASE Cardinality(Log!Kept) < Limit
  <2>1. /\ entries' = Log!Kept \cup {entry}
        /\ allowed' = allowed \cup {entry}
        /\ serial' = serial + 1
    BY <1>6, SameCardinality DEF Log!Allow
  <2>2. entries' \subseteq allowed' /\ allowed' \subseteq Entry /\ entries' # {}
        /\ entries' \subseteq Entry /\ serial' \in Nat
    BY <1>1, <1>2, <1>3, <2>1 DEF LogInv
  <2>3. IsFiniteSet(entries') /\ Cardinality(entries') <= Limit
    <3>1. /\ IsFiniteSet(Log!Kept \cup {entry})
          /\ \/ Cardinality(Log!Kept \cup {entry}) = Cardinality(Log!Kept)
             \/ Cardinality(Log!Kept \cup {entry}) = Cardinality(Log!Kept) + 1
      BY <1>1, FS_AddElement
    <3> QED
      BY <1>1, <1>6, <2>1, <3>1, LimitTyped
  <2>4. ASSUME NEW e \in allowed'
        PROVE  e.at <= time' /\ clock' + e.at <= e.score + time'
    <3>1. CASE e \in allowed
      BY <1>2, <3>1 DEF LogInv
    <3>2. CASE e = entry
      BY <1>2, <1>3, <3>2
    <3> QED
      BY <2>1, <3>1, <3>2
  <2>5. \A e \in allowed' : e.at + Window > time' => e \in entries'
    BY <1>1, <1>2, <2>1
  <2>6. expireAt' \in Nat /\ \A e \in entries' : e.score + Window <= expireAt'
    BY <1>5, <2>2
  <2>7. LogInv'
    BY <2>2, <2>3, <2>4, <2>5, <2>6 DEF LogInv
  <2> QED
    BY <1>2, <2>6, <2>7, ServerKept
<1>7. CASE ~(Cardinality(Log!Kept) < Limit)
  <2>1. entries' = Log!Kept /\ allowed' = allowed /\ serial' = serial
    BY <1>7, SameCardinality DEF Log!Allow
  <2>2. Log!Kept # {}
    BY <1>1, <1>7, FS_EmptySet, LimitTyped
  <2>3. entries' \subseteq allowed' /\ allowed' \subseteq Entry /\ entries' # {}
        /\ entries' \subseteq Entry /\ serial' \in Nat
    BY <1>1, <1>2, <2>1, <2>2 DEF LogInv
  <2>4. \A e \in allowed' : e.at <= time' /\ clock' + e.at <= e.score + time'
    BY <1>2, <2>1 DEF LogInv
  <2>5. \A e \in allowed' : e.at + Window > time' => e \in entries'
    BY <1>1, <1>2, <2>1
  <2>6. expireAt' \in Nat /\ \A e \in entries' : e.score + Window <= expireAt'
    BY <1>5, <2>3
  <2>7. LogInv'
    BY <1>1, <2>1, <2>3, <2>4, <2>5, <2>6 DEF LogInv
  <2> QED
    BY <1>2, <2>6, <2>7, ServerKept
<1> QED
  BY <1>6, <1>7

(* The requests of the last window are all members. *)
LEMMA LogIsExact ==
    ASSUME ServerInv, LogInv
    PROVE  CeilingIsExact
<1> DEFINE recent == {e \in allowed : e.at > time - Window}
<1>1. recent \subseteq entries
  BY EntryTyped, LimitTyped DEF LogInv, ServerInv
<1>2. IsFiniteSet(recent) /\ Cardinality(recent) <= Cardinality(entries)
  BY <1>1, FS_Subset DEF LogInv
<1>3. Cardinality(recent) \in Nat /\ Cardinality(entries) \in Nat
  BY <1>2, FS_CardinalityType DEF LogInv
<1>4. Cardinality(recent) <= Limit
  BY <1>2, <1>3, LimitTyped DEF LogInv
<1> QED
  BY <1>4, SameCardinality DEF CeilingIsExact, Log!CeilingIsExact

(* At RetryAfter the oldest member is as old as the window, at ResetAfter the  *)
(* youngest is.                                                                *)
LEMMA LogWaitsEnough ==
    ASSUME ServerInv, LogInv
    PROVE  WaitsAreEnough
<1> DEFINE after(wait) == {e \in Log!Kept : e.score > clock + wait - Window}
           S == {e.score : e \in Log!Kept}
<1> SUFFICES ASSUME algorithm = "log", Cardinality(Log!Kept) >= Limit
             PROVE  /\ Cardinality(after(Log!RetryAfter(Log!Kept))) < Limit
                    /\ after(Log!ResetAfter(Log!Kept)) = {}
  BY SameCardinality, Zenon DEF WaitsAreEnough, Log!WaitsAreEnough
<1>1. /\ Log!Kept \subseteq entries
      /\ \A e \in Log!Kept : e.score > clock - Window
      /\ IsFiniteSet(Log!Kept) /\ Cardinality(Log!Kept) \in Nat
      /\ Cardinality(Log!Kept) <= Limit
  BY KeptTyped
<1>2. \A e \in Log!Kept : e.score \in Nat /\ e.score <= Start + MaxTime
  BY <1>1, EntryTyped
<1>3. Log!Kept # {}
  BY <1>1, FS_EmptySet, LimitTyped
<1>4. S # {} /\ S \subseteq Nat /\ S \subseteq 0..(Start + MaxTime) /\ Start + MaxTime \in Nat
  BY <1>2, <1>3, LimitTyped
<1>5. PICK m, x : m = Log!Min(S) /\ x = Log!Max(S)
  OBVIOUS
<1>6. m \in S /\ x \in S /\ (\A y \in S : m <= y) /\ (\A y \in S : y <= x)
  <2> HIDE DEF S
  <2> QED
    BY <1>4, <1>5, MinOf, MaxOf
<1>7. PICK oldest \in Log!Kept : oldest.score = m
  BY <1>6
<1>8. m \in Nat /\ x \in Nat /\ clock \in Nat /\ m > clock - Window /\ x > clock - Window
  BY <1>1, <1>4, <1>6 DEF ServerInv
<1>9. /\ Log!RetryAfter(Log!Kept) = m + Window - clock
      /\ Log!ResetAfter(Log!Kept) = x + Window - clock
  <2>1. ~(m + Window - clock < 0) /\ ~(x + Window - clock < 0)
    BY <1>8, LimitTyped
  <2> QED
    BY <1>5, <2>1 DEF Log!RetryAfter, Log!ResetAfter, Log!NotNegative
<1>10. after(Log!ResetAfter(Log!Kept)) = {}
  <2>1. \A e \in Log!Kept : e.score \in Nat /\ e.score <= x
    BY <1>2, <1>6
  <2>2. clock + (x + Window - clock) - Window = x
    BY <1>8, LimitTyped
  <2> QED
    BY <1>8, <1>9, <2>1, <2>2
<1>11. after(Log!RetryAfter(Log!Kept)) \subseteq Log!Kept \ {oldest}
  <2>1. clock + (m + Window - clock) - Window = m
    BY <1>8, LimitTyped
  <2> QED
    BY <1>7, <1>8, <1>9, <2>1
<1>12. PICK A : A = after(Log!RetryAfter(Log!Kept))
  OBVIOUS
<1>13. /\ IsFiniteSet(Log!Kept \ {oldest})
       /\ Cardinality(Log!Kept \ {oldest}) = Cardinality(Log!Kept) - 1
  BY <1>1, FS_RemoveElement
<1>14. Cardinality(A) <= Cardinality(Log!Kept \ {oldest}) /\ Cardinality(A) \in Nat
  BY <1>11, <1>12, <1>13, FS_Subset, FS_CardinalityType
<1>15. Cardinality(A) < Limit
  BY <1>1, <1>13, <1>14, LimitTyped
<1> QED
  BY <1>10, <1>12, <1>15
-----------------------------------------------------------------------------
(* What a count f of units at each tick amounts to from s up to time n. *)

Spent(f, s, n) == UNION {{i} \X (1..f[i]) : i \in s..n}

Count(f, s, n) == Cardinality(Spent(f, s, n))

Tallied(f, n) ==
    /\ n \in 0..MaxTime
    /\ f \in [0..MaxTime -> Nat]
    /\ \A i \in 0..MaxTime : i > n => f[i] = 0
    /\ \A s \in 0..(n + 1) : IsFiniteSet(Spent(f, s, n))

(* A quotient is rounded down by less than its divisor. *)
LEMMA Floor ==
    ASSUME NEW a \in Nat, NEW d \in Nat \ {0}
    PROVE  /\ a \div d \in Nat
           /\ (a \div d) * d \in Nat
           /\ (a \div d) * d <= a /\ a < (a \div d) * d + d
<1>1. (a \div d) * d <= a /\ a < (a \div d) * d + d
  OBVIOUS
<1>2. a \div d \in Nat
  OBVIOUS
<1> QED
  BY <1>1, <1>2

(* k units more now. *)
More(f, n, k) == [f EXCEPT ![n] = @ + k]

(* They are k more in every span up to now. *)
LEMMA SpentMore ==
    ASSUME NEW n \in 0..MaxTime, NEW f \in [0..MaxTime -> Nat], NEW s \in 0..n, NEW k \in Nat,
           IsFiniteSet(Spent(f, s, n)), NEW g, g = More(f, n, k)
    PROVE  /\ IsFiniteSet(Spent(g, s, n))
           /\ Cardinality(Spent(g, s, n)) = Cardinality(Spent(f, s, n)) + k
<1> DEFINE I == (f[n] + 1)..(f[n] + k)
           N == {n} \X I
<1>1. g \in [0..MaxTime -> Nat] /\ g[n] = f[n] + k /\ f[n] \in Nat /\ n \in Nat
  BY LimitTyped DEF More
<1>2. \A i \in s..n : i # n => g[i] = f[i]
  BY LimitTyped DEF More
<1>3. \A x : x \in Spent(f, s, n) <=> \E i \in s..n : \E j \in 1..f[i] : x = <<i, j>>
  BY DEF Spent
<1>4. \A x : x \in Spent(g, s, n) <=> \E i \in s..n : \E j \in 1..g[i] : x = <<i, j>>
  BY DEF Spent
<1>5. \A x : x \in N <=> \E j \in I : x = <<n, j>>
  OBVIOUS
<1>6. n \in s..n /\ \A j : j \in 1..g[n] <=> j \in 1..f[n] \/ j \in I
  BY <1>1
<1>7. \A j \in I : j \notin 1..f[n]
  BY <1>1
<1> HIDE DEF I, N
<1>8. Spent(f, s, n) \cap N = {}
  BY <1>3, <1>5, <1>7
<1>9. ASSUME NEW x \in Spent(g, s, n) PROVE x \in Spent(f, s, n) \cup N
  <2>0. PICK i \in s..n : \E j \in 1..g[i] : x = <<i, j>>
    BY <1>4
  <2>1. PICK j \in 1..g[i] : x = <<i, j>>
    BY <2>0
  <2>2. CASE i # n
    BY <1>2, <1>3, <2>0, <2>1, <2>2
  <2>3. CASE i = n
    BY <1>3, <1>5, <1>6, <2>0, <2>1, <2>3
  <2> QED
    BY <2>2, <2>3
<1>10. ASSUME NEW x \in Spent(f, s, n) PROVE x \in Spent(g, s, n)
  <2>0. PICK i \in s..n : \E j \in 1..f[i] : x = <<i, j>>
    BY <1>3
  <2>1. PICK j \in 1..f[i] : x = <<i, j>>
    BY <2>0
  <2>2. j \in 1..g[i]
    BY <1>2, <1>6, <2>0, <2>1
  <2> QED
    BY <1>4, <2>0, <2>1, <2>2
<1>11. N \subseteq Spent(g, s, n)
  BY <1>4, <1>5, <1>6
<1>12. Spent(g, s, n) = Spent(f, s, n) \cup N
  BY <1>9, <1>10, <1>11
<1>13. IsFiniteSet(N) /\ Cardinality(N) = k
  <2>1. IsFiniteSet(I) /\ Cardinality(I) = k
    <3>1. PICK a \in Int, b \in Int : a = f[n] + 1 /\ b = f[n] + k
      BY <1>1
    <3>2. (IF a > b THEN 0 ELSE b - a + 1) = k
      BY <1>1, <3>1
    <3> QED
      BY <3>1, <3>2, FS_Interval DEF I
  <2>2. IsFiniteSet({n}) /\ Cardinality({n}) = 1
    BY FS_Singleton
  <2>3. 1 * k = k
    OBVIOUS
  <2> QED
    BY <2>1, <2>2, <2>3, FS_Product DEF N
<1>14. PICK S : S = Spent(f, s, n)
  OBVIOUS
<1>15. IsFiniteSet(S) /\ S \cap N = {} /\ Spent(g, s, n) = S \cup N /\ Cardinality(S) \in Nat
  BY <1>8, <1>12, <1>14, FS_CardinalityType
<1>16. IsFiniteSet(S \cup N) /\ Cardinality(S \cup N) = Cardinality(S) + k - Cardinality({})
  BY <1>13, <1>15, FS_Union
<1>17. Cardinality(S) + k - Cardinality({}) = Cardinality(S) + k
  <2>1. Cardinality({}) = 0
    BY FS_EmptySet
  <2>2. PICK c \in Nat : c = Cardinality(S)
    BY <1>15
  <2> QED
    BY <2>1, <2>2
<1> QED
  BY <1>14, <1>15, <1>16, <1>17

(* A tick at which nothing has come through adds nothing. *)
LEMMA SpentLater ==
    ASSUME NEW n \in Nat, NEW f, f[n + 1] = 0, NEW s \in 0..(n + 1)
    PROVE  Spent(f, s, n + 1) = Spent(f, s, n)
<1>1. s..(n + 1) = (s..n) \cup {n + 1}
  OBVIOUS
<1>2. {n + 1} \X (1..f[n + 1]) = {}
  OBVIOUS
<1> QED
  BY <1>1, <1>2 DEF Spent

LEMMA SpentNothing ==
    ASSUME NEW n \in Nat, NEW f
    PROVE  Spent(f, n + 1, n) = {} /\ IsFiniteSet(Spent(f, n + 1, n)) /\ Cardinality(Spent(f, n + 1, n)) = 0
<1>1. (n + 1)..n = {}
  OBVIOUS
<1>2. Spent(f, n + 1, n) = {}
  BY <1>1 DEF Spent
<1> QED
  BY <1>2, FS_EmptySet

LEMMA CountTyped ==
    ASSUME NEW f, NEW n, Tallied(f, n), NEW s \in 0..(n + 1)
    PROVE  Count(f, s, n) \in Nat
BY FS_CardinalityType DEF Tallied, Count

LEMMA TallyMore ==
    ASSUME NEW f, NEW n, Tallied(f, n), NEW k \in Nat
    PROVE  /\ Tallied(More(f, n, k), n)
           /\ \A s \in 0..n : Count(More(f, n, k), s, n) = Count(f, s, n) + k
           /\ Count(More(f, n, k), n + 1, n) = 0
<1>0. PICK g : g = More(f, n, k)
  OBVIOUS
<1>1. n \in 0..MaxTime /\ n \in Nat /\ f \in [0..MaxTime -> Nat]
  BY LimitTyped DEF Tallied
<1>2. ASSUME NEW s \in 0..n
      PROVE  IsFiniteSet(Spent(g, s, n)) /\ Count(g, s, n) = Count(f, s, n) + k
  <2>1. s \in 0..(n + 1) /\ IsFiniteSet(Spent(f, s, n))
    BY <1>1 DEF Tallied
  <2> QED
    BY <1>0, <1>1, <2>1, SpentMore DEF Count
<1>3. IsFiniteSet(Spent(g, n + 1, n)) /\ Count(g, n + 1, n) = 0
  BY <1>1, SpentNothing DEF Count
<1>4. ASSUME NEW s \in 0..(n + 1) PROVE IsFiniteSet(Spent(g, s, n))
  <2>1. s \in 0..n \/ s = n + 1
    BY <1>1
  <2> QED
    BY <1>2, <1>3, <2>1
<1>5. g \in [0..MaxTime -> Nat] /\ \A i \in 0..MaxTime : i > n => g[i] = 0
  BY <1>0, <1>1 DEF Tallied, More
<1> QED
  BY <1>0, <1>1, <1>2, <1>3, <1>4, <1>5 DEF Tallied

(* A tick. *)
LEMMA TallyTicks ==
    ASSUME NEW f, NEW n, Tallied(f, n), n < MaxTime
    PROVE  /\ Tallied(f, n + 1)
           /\ \A s \in 0..(n + 1) : Count(f, s, n + 1) = Count(f, s, n)
           /\ Count(f, n + 2, n + 1) = 0
<1>1. n \in Nat /\ n + 1 \in 0..MaxTime /\ f[n + 1] = 0
  BY LimitTyped DEF Tallied
<1>2. ASSUME NEW s \in 0..(n + 1) PROVE Spent(f, s, n + 1) = Spent(f, s, n)
  BY <1>1, SpentLater
<1>3. PICK m \in Nat : m = n + 1
  BY <1>1
<1>4. IsFiniteSet(Spent(f, m + 1, m)) /\ Count(f, m + 1, m) = 0
  BY SpentNothing DEF Count
<1>5. ASSUME NEW s \in 0..(m + 1) PROVE IsFiniteSet(Spent(f, s, m))
  <2>1. s \in 0..(n + 1) \/ s = m + 1
    BY <1>1, <1>3
  <2>2. CASE s \in 0..(n + 1)
    BY <1>2, <1>3, <2>2 DEF Tallied
  <2> QED
    BY <1>4, <2>1, <2>2
<1>6. Tallied(f, m)
  BY <1>1, <1>3, <1>5 DEF Tallied
<1>7. m + 1 = n + 2
  BY <1>1, <1>3
<1>8. Count(f, n + 2, n + 1) = 0
  BY <1>3, <1>4, <1>7
<1> QED
  BY <1>2, <1>3, <1>6, <1>8 DEF Count

LEMMA TallyStarts ==
    ASSUME NEW f, f = [t \in 0..MaxTime |-> 0]
    PROVE  Tallied(f, 0) /\ \A s \in 0..1 : Count(f, s, 0) = 0
<1>1. ASSUME NEW s \in 0..1 PROVE Spent(f, s, 0) = {}
  <2>1. \A i \in s..0 : i \in 0..MaxTime
    BY LimitTyped
  <2>2. \A i \in s..0 : {i} \X (1..f[i]) = {}
    BY <2>1
  <2> QED
    BY <2>2 DEF Spent
<1>2. \A s \in 0..1 : IsFiniteSet(Spent(f, s, 0)) /\ Count(f, s, 0) = 0
  BY <1>1, FS_EmptySet DEF Count
<1> QED
  BY <1>2, LimitTyped DEF Tallied
-----------------------------------------------------------------------------
(* The token bucket.  t tokens were left by the last call, and o is no later   *)
(* than that call and than the ts it stored: a call at c may find no more than *)
(* this, whether or not the key, which expires at x, is still there.           *)
Level(t, o, x, c) ==
    LET more == t + (c - o) * Limit
    IN  IF c > x THEN Limit * Window
        ELSE IF c <= o THEN t
        ELSE IF more > Limit * Window THEN Limit * Window ELSE more

(* The key does not expire before the bucket would be full. *)
Lives(t, o, x) == x = -1 \/ t + (x + 1 - o) * Limit >= Limit * Window

LEMMA Products ==
    ASSUME NEW d \in Int
    PROVE  /\ d * Limit \in Int /\ (d >= 0 => d * Limit \in Nat)
           /\ (d + 1) * Limit = d * Limit + Limit
           /\ d <= 0 => d * Limit <= 0
<1>1. d * Limit \in Int /\ (d + 1) * Limit = d * Limit + Limit
  BY LimitTyped
<1>2. d >= 0 => d * Limit \in Nat
  BY LimitTyped
<1>3. ASSUME d <= 0 PROVE d * Limit <= 0
  <2>1. PICK k \in Nat : d = 0 - k
    <3>1. 0 - d \in Nat /\ d = 0 - (0 - d)
      BY <1>3
    <3> QED
      BY <3>1
  <2>2. (0 - k) * Limit = 0 - k * Limit /\ k * Limit \in Nat
    BY LimitTyped
  <2> QED
    BY <2>1, <2>2
<1> QED
  BY <1>1, <1>2, <1>3

LEMMA LevelTyped ==
    ASSUME NEW t \in 0..(Limit * Window), NEW o \in Int, NEW x \in Int, NEW c \in Nat
    PROVE  Level(t, o, x, c) \in 0..(Limit * Window)
<1>1. CASE c > o
  <2>1. PICK m \in Nat : m = (c - o) * Limit
    <3>1. c - o \in Int /\ c - o >= 0
      BY <1>1
    <3> QED
      BY <3>1, Products
  <2> QED
    BY <2>1, LimitTyped DEF Level
<1>2. CASE ~(c > o)
  BY <1>2, LimitTyped DEF Level
<1> QED
  BY <1>1, <1>2

(* A tick refills Limit units at most, the expiry of the key included. *)
LEMMA LevelTicks ==
    ASSUME NEW t \in 0..(Limit * Window), NEW o \in Int, NEW x \in Nat \cup {-1}, NEW c \in Nat,
           Lives(t, o, x)
    PROVE  Level(t, o, x, c + 1) <= Level(t, o, x, c) + Limit
<1>1. PICK F \in Nat : F = Limit * Window
  BY LimitTyped
<1>2. PICK m \in Int : /\ m = (c - o) * Limit /\ (c > o => m >= 0) /\ (c <= o => m <= 0)
                       /\ (c + 1 - o) * Limit = m + Limit
  <2>1. PICK d \in Int : d = c - o /\ d + 1 = c + 1 - o
    OBVIOUS
  <2>2. d * Limit \in Int /\ (d + 1) * Limit = d * Limit + Limit
        /\ (d >= 0 => d * Limit \in Nat) /\ (d <= 0 => d * Limit <= 0)
    BY Products
  <2> QED
    BY <2>1, <2>2
<1>3. CASE c > x
  <2>1. Level(t, o, x, c) = F /\ Level(t, o, x, c + 1) = F
    BY <1>1, <1>3 DEF Level
  <2> QED
    BY <1>1, <2>1, LimitTyped
<1>4. CASE c = x
  <2>1. t + (m + Limit) >= F
    BY <1>1, <1>2, <1>4 DEF Lives
  <2>2. Level(t, o, x, c + 1) = F
    BY <1>1, <1>4 DEF Level
  <2>3. CASE c <= o
    <3>1. Level(t, o, x, c) = t
      BY <1>4, <2>3 DEF Level
    <3> QED
      BY <1>1, <1>2, <2>1, <2>2, <2>3, <3>1, LimitTyped
  <2>4. CASE c > o
    <3>1. Level(t, o, x, c) = IF t + m > F THEN F ELSE t + m
      BY <1>1, <1>2, <1>4, <2>4 DEF Level
    <3> QED
      BY <1>1, <1>2, <2>1, <2>2, <3>1, LimitTyped
  <2> QED
    BY <2>3, <2>4
<1>5. CASE c < x
  <2>1. CASE c <= o
    <3>1. Level(t, o, x, c) = t
      BY <1>5, <2>1 DEF Level
    <3>2. Level(t, o, x, c + 1) <= t + Limit
      <4>1. CASE c + 1 <= o
        BY <1>5, <4>1, LimitTyped DEF Level
      <4>2. CASE c + 1 > o
        <5>1. Level(t, o, x, c + 1) = IF t + (m + Limit) > F THEN F ELSE t + (m + Limit)
          BY <1>1, <1>2, <1>5, <4>2 DEF Level
        <5> QED
          BY <1>1, <1>2, <2>1, <5>1, LimitTyped
      <4> QED
        BY <4>1, <4>2
    <3> QED
      BY <3>1, <3>2
  <2>2. CASE c > o
    <3>1. Level(t, o, x, c) = IF t + m > F THEN F ELSE t + m
      BY <1>1, <1>2, <1>5, <2>2 DEF Level
    <3>2. Level(t, o, x, c + 1) = IF t + (m + Limit) > F THEN F ELSE t + (m + Limit)
      BY <1>1, <1>2, <1>5, <2>2 DEF Level
    <3> QED
      BY <1>1, <1>2, <3>1, <3>2, LimitTyped
  <2> QED
    BY <2>1, <2>2
<1> QED
  BY <1>3, <1>4, <1>5

(* At an earlier time there is no more. *)
LEMMA LevelBack ==
    ASSUME NEW t \in 0..(Limit * Window), NEW o \in Int, NEW x \in Int, NEW c \in Nat,
           NEW b \in Nat, b < c
    PROVE  Level(t, o, x, b) <= Level(t, o, x, c)
<1>1. PICK F \in Nat : F = Limit * Window
  BY LimitTyped
<1>2. CASE c > x
  <2>1. Level(t, o, x, c) = F
    BY <1>1, <1>2 DEF Level
  <2>2. Level(t, o, x, b) \in 0..F
    BY <1>1, LevelTyped
  <2> QED
    BY <1>1, <2>1, <2>2
<1>3. CASE ~(c > x) /\ b <= o
  <2>1. Level(t, o, x, b) = t
    BY <1>3 DEF Level
  <2>2. c > o => (c - o) * Limit \in Nat
    BY Products
  <2>3. Level(t, o, x, c) >= t
    BY <1>3, <2>2 DEF Level
  <2> QED
    BY <2>1, <2>3
<1>4. CASE ~(c > x) /\ b > o
  <2>1. PICK y \in Nat, z \in Nat : y = b - o /\ z = c - b
    <3>1. b - o \in Nat /\ c - b \in Nat
      BY <1>4
    <3> QED
      BY <3>1
  <2>2. (y + z) * Limit = y * Limit + z * Limit /\ y * Limit \in Nat /\ z * Limit \in Nat
    BY LimitTyped
  <2>3. c - o = y + z
    BY <2>1
  <2>4. PICK v \in Nat, w \in Nat : v = y * Limit /\ w = z * Limit
    BY <2>2
  <2>5. Level(t, o, x, b) = IF t + v > F THEN F ELSE t + v
    BY <1>1, <1>4, <2>1, <2>4 DEF Level
  <2>6. Level(t, o, x, c) = IF t + (v + w) > F THEN F ELSE t + (v + w)
    BY <1>1, <1>4, <2>2, <2>3, <2>4 DEF Level
  <2> QED
    BY <1>1, <2>5, <2>6
<1> QED
  BY <1>2, <1>3, <1>4

(* What came through since s and what may be found now fit a full bucket, the  *)
(* refill since s and what was stored too early since s.                       *)
BucketFits(P, f, e, n) ==
    \A s \in 0..n :
        Count(f, s, n) * Window + P <= Limit * Window + (n - s + Count(e, s, n)) * Limit

LEMMA BucketTicks ==
    ASSUME NEW P \in Nat, NEW Q \in Nat, Q <= P + Limit, Q <= Limit * Window,
           NEW f, NEW e, NEW n, Tallied(f, n), Tallied(e, n), n < MaxTime, BucketFits(P, f, e, n)
    PROVE  BucketFits(Q, f, e, n + 1)
<1>0. n \in Nat
  BY LimitTyped DEF Tallied
<1>a. PICK m \in Nat : m = n + 1
  BY <1>0
<1> SUFFICES ASSUME NEW s \in 0..m
             PROVE  Count(f, s, m) * Window + Q
                       <= Limit * Window + (m - s + Count(e, s, m)) * Limit
  <2>1. BucketFits(Q, f, e, m)
    BY Zenon DEF BucketFits
  <2> QED
    BY <1>a, <2>1
<1>1. PICK j \in Nat, k \in Nat : /\ j = Count(f, s, n) /\ k = Count(e, s, n)
                                  /\ Count(f, s, m) = j /\ Count(e, s, m) = k
  <2>1. s \in 0..(n + 1)
    BY <1>a
  <2>2. /\ Count(f, s, n) \in Nat /\ Count(e, s, n) \in Nat
        /\ Count(f, s, n + 1) = Count(f, s, n) /\ Count(e, s, n + 1) = Count(e, s, n)
    BY <2>1, CountTyped, TallyTicks
  <2> QED
    BY <1>a, <2>2
<1>2. CASE s \in 0..n
  <2>1. PICK d \in Nat : d = n - s + k
    BY <1>0, <1>2
  <2>2. m - s + k = d + 1
    BY <1>0, <1>2, <1>a, <2>1
  <2>3. (d + 1) * Limit = d * Limit + Limit /\ d * Limit \in Nat /\ j * Window \in Nat
    BY LimitTyped
  <2>4. j * Window + P <= Limit * Window + d * Limit
    BY <1>1, <1>2, <2>1 DEF BucketFits
  <2>5. j * Window + Q <= Limit * Window + (d + 1) * Limit
    BY <2>3, <2>4, LimitTyped
  <2> QED
    BY <1>1, <2>2, <2>5
<1>3. CASE s = m
  <2>1. j = 0 /\ m - s + k = k
    <3>1. Count(f, n + 1, n) = 0
      BY <1>0, SpentNothing DEF Count
    <3> QED
      BY <1>0, <1>1, <1>3, <1>a, <3>1
  <2>2. 0 * Window = 0 /\ k * Limit \in Nat
    BY LimitTyped
  <2>3. 0 * Window + Q <= Limit * Window + k * Limit
    BY <2>2, LimitTyped
  <2> QED
    BY <1>1, <2>1, <2>3
<1> QED
  BY <1>0, <1>2, <1>3, <1>a

LEMMA BucketFalls ==
    ASSUME NEW P \in Nat, NEW Q \in Nat, Q <= P, NEW f, NEW e, NEW n, Tallied(f, n), Tallied(e, n),
           BucketFits(P, f, e, n)
    PROVE  BucketFits(Q, f, e, n)
<1>0. n \in Nat
  BY LimitTyped DEF Tallied
<1> SUFFICES ASSUME NEW s \in 0..n
             PROVE  Count(f, s, n) * Window + Q
                       <= Limit * Window + (n - s + Count(e, s, n)) * Limit
  BY DEF BucketFits
<1>1. s \in 0..(n + 1)
  BY <1>0
<1>2. PICK j \in Nat, k \in Nat : j = Count(f, s, n) /\ k = Count(e, s, n)
  BY <1>1, CountTyped
<1>3. PICK u \in Nat : u = j * Window
  BY LimitTyped
<1>4. PICK d \in Nat : d = n - s + k
  BY <1>0
<1>5. u + P <= Limit * Window + d * Limit /\ d * Limit \in Nat
  BY <1>2, <1>3, <1>4, LimitTyped DEF BucketFits
<1>6. u + Q <= Limit * Window + d * Limit
  BY <1>5, LimitTyped
<1> QED
  BY <1>2, <1>3, <1>4, <1>6

(* A call: a requests are allowed, for a token each, and the ts is stored k    *)
(* ticks too early.                                                            *)
LEMMA BucketTakes ==
    ASSUME NEW P \in Nat, NEW Q \in Nat, NEW a \in {0, 1}, NEW k \in Nat,
           Q + a * Window <= P + k * Limit,
           NEW f, NEW e, NEW n, Tallied(f, n), Tallied(e, n), BucketFits(P, f, e, n),
           NEW g, \A s \in 0..n : Count(g, s, n) = Count(f, s, n) + a,
           NEW h, \A s \in 0..n : Count(h, s, n) = Count(e, s, n) + k
    PROVE  BucketFits(Q, g, h, n)
<1>0. n \in Nat
  BY LimitTyped DEF Tallied
<1> SUFFICES ASSUME NEW s \in 0..n
             PROVE  Count(g, s, n) * Window + Q
                       <= Limit * Window + (n - s + Count(h, s, n)) * Limit
  BY DEF BucketFits
<1>1. s \in 0..(n + 1)
  BY <1>0
<1>2. PICK j \in Nat, i \in Nat : j = Count(f, s, n) /\ i = Count(e, s, n)
  BY <1>1, CountTyped
<1>3. Count(g, s, n) = j + a /\ Count(h, s, n) = i + k
  BY <1>2
<1>4. PICK d \in Nat : d = n - s + i /\ n - s + (i + k) = d + k
  BY <1>0
<1>5. (j + a) * Window = j * Window + a * Window /\ j * Window \in Nat /\ a * Window \in Nat
  BY LimitTyped
<1>6. (d + k) * Limit = d * Limit + k * Limit /\ d * Limit \in Nat /\ k * Limit \in Nat
  BY LimitTyped
<1>7. j * Window + P <= Limit * Window + d * Limit
  BY <1>2, <1>4 DEF BucketFits
<1>8. (j + a) * Window + Q <= Limit * Window + (d + k) * Limit
  BY <1>5, <1>6, <1>7, LimitTyped
<1> QED
  BY <1>3, <1>4, <1>8

LEMMA BucketIs ==
    /\ Bucket!Token = Window /\ Bucket!Full = Limit * Window /\ Bucket!Capacity = Limit
    /\ \A f, s : Bucket!From(f, s) = Spent(f, s, time)
BY DEF Bucket!Token, Bucket!Full, Bucket!Capacity, Bucket!Interval, Bucket!From, Spent

(* tostring rounds to a time. *)
LEMMA StoredTyped ==
    ASSUME NEW c \in Nat
    PROVE  Bucket!Stored(c) \in Nat
<1>1. Grain \in Nat \ {0} /\ 2 \in Nat \ {0}
  BY RedisLimiterAssumption
<1>2. PICK h \in Nat : h = Grain \div 2
  BY <1>1, Floor
<1>3. PICK y \in Nat : y = c + h
  OBVIOUS
<1>4. (y \div Grain) * Grain \in Nat
  BY <1>1, Floor
<1> QED
  BY <1>2, <1>3, <1>4 DEF Bucket!Stored

(* PEXPIRE: a bucket with t tokens is full by then. *)
LEMMA BucketTtl ==
    ASSUME NEW t \in 0..(Limit * Window)
    PROVE  /\ Bucket!Ttl(t) \in Nat
           /\ t + Bucket!Ttl(t) * Limit >= Limit * Window
<1>1. PICK F \in Nat : F = Limit * Window
  BY LimitTyped
<1>2. PICK y \in Nat : y = F - t + Limit - 1
  <2>1. F - t + Limit - 1 \in Nat
    BY <1>1, LimitTyped
  <2> QED
    BY <2>1
<1>3. PICK q \in Nat : q = y \div Limit /\ q * Limit \in Nat /\ y < q * Limit + Limit
  <2>1. Limit \in Nat \ {0}
    BY LimitTyped
  <2> QED
    BY <2>1, Floor
<1>4. Bucket!Ttl(t) = q + Margin
  BY <1>1, <1>2, <1>3, BucketIs DEF Bucket!Ttl
<1>5. (q + Margin) * Limit = q * Limit + Margin * Limit /\ Margin * Limit \in Nat
  BY LimitTyped
<1>6. t + q * Limit >= F
  BY <1>1, <1>2, <1>3, LimitTyped
<1> QED
  BY <1>1, <1>3, <1>4, <1>5, <1>6, LimitTyped

BucketInv ==
    /\ bucket \in [tokens : 0..(Limit * Window), ts : Nat]
    /\ Tallied(tally, time) /\ Tallied(early, time)
    /\ algorithm = "bucket" =>
          \E o \in Nat :
              /\ o <= bucket.ts
              /\ Lives(bucket.tokens, o, expireAt)
              /\ BucketFits(Level(bucket.tokens, o, expireAt, clock), tally, early, time)

LEMMA LevelNow ==
    ASSUME ServerInv, bucket.tokens \in 0..(Limit * Window), NEW o \in Nat, NEW b, b \in Nat
    PROVE  Level(bucket.tokens, o, expireAt, b) \in 0..(Limit * Window)
<1>1. PICK t, x : t = bucket.tokens /\ x = expireAt
  OBVIOUS
<1>2. t \in 0..(Limit * Window) /\ x \in Int /\ o \in Int
  BY <1>1 DEF ServerInv
<1>3. Level(t, o, x, b) \in 0..(Limit * Window)
  BY <1>2, LevelTyped
<1> QED
  BY <1>1, <1>3

(* HMGET and the credit find no more than the level. *)
LEMMA RefilledWithin ==
    ASSUME ServerInv, bucket \in [tokens : 0..(Limit * Window), ts : Nat], NEW o \in Nat, o <= bucket.ts
    PROVE  /\ Bucket!Refilled \in 0..(Limit * Window)
           /\ Bucket!Refilled <= Level(bucket.tokens, o, expireAt, clock)
<1>1. PICK F \in Nat : F = Limit * Window
  BY LimitTyped
<1>2. PICK t \in 0..F, u \in Nat, c \in Nat, x \in Int :
         t = bucket.tokens /\ u = bucket.ts /\ c = clock /\ x = expireAt
  BY <1>1 DEF ServerInv
<1>3. Bucket!Refilled = IF c > x THEN F
                        ELSE IF c - u <= 0 THEN t
                        ELSE IF t + (c - u) * Limit > F THEN F ELSE t + (c - u) * Limit
  BY <1>1, <1>2, BucketIs DEF Bucket!Refilled, Bucket!Expired
<1>4. CASE c > x
  <2>1. Bucket!Refilled = F /\ Level(t, o, x, c) = F
    BY <1>1, <1>3, <1>4 DEF Level
  <2> QED
    BY <1>1, <1>2, <2>1
<1>5. CASE ~(c > x) /\ c - u <= 0
  <2>1. Bucket!Refilled = t
    BY <1>3, <1>5
  <2>2. Level(t, o, x, c) >= t
    <3>1. c > o => (c - o) * Limit \in Nat
      BY Products
    <3> QED
      BY <1>1, <1>5, <3>1 DEF Level
  <2> QED
    BY <1>1, <1>2, <2>1, <2>2
<1>6. CASE ~(c > x) /\ ~(c - u <= 0)
  <2>1. PICK y \in Nat, z \in Nat : y = c - u /\ z = u - o
    <3>1. c - u \in Nat /\ u - o \in Nat
      BY <1>2, <1>6
    <3> QED
      BY <3>1
  <2>2. (y + z) * Limit = y * Limit + z * Limit /\ y * Limit \in Nat /\ z * Limit \in Nat
    BY LimitTyped
  <2>3. PICK v \in Nat, w \in Nat : v = y * Limit /\ w = z * Limit
    BY <2>2
  <2>4. c - o = y + z /\ c > o
    BY <1>2, <1>6, <2>1
  <2>5. Bucket!Refilled = IF t + v > F THEN F ELSE t + v
    BY <1>3, <1>6, <2>1, <2>3
  <2>6. Level(t, o, x, c) = IF t + (v + w) > F THEN F ELSE t + (v + w)
    BY <1>1, <1>6, <2>2, <2>3, <2>4 DEF Level
  <2> QED
    BY <1>1, <1>2, <2>5, <2>6
<1> QED
  BY <1>4, <1>5, <1>6

(* A bucket just stored. *)
LEMMA StoredLevel ==
    ASSUME NEW t \in 0..(Limit * Window), NEW c \in Nat, NEW u \in Nat, NEW x, x = c + Bucket!Ttl(t),
           NEW k, k = IF c > u THEN c - u ELSE 0
    PROVE  /\ x \in Nat /\ k \in Nat
           /\ \E o \in Nat : /\ o <= u /\ Lives(t, o, x)
                             /\ Level(t, o, x, c) \in Nat
                             /\ Level(t, o, x, c) <= t + k * Limit
<1>1. PICK F \in Nat : F = Limit * Window
  BY LimitTyped
<1>2. PICK q \in Nat : q = Bucket!Ttl(t) /\ t + q * Limit >= F /\ q * Limit \in Nat
  BY <1>1, BucketTtl, LimitTyped
<1>3. PICK o \in Nat : o = IF c > u THEN u ELSE c
  OBVIOUS
<1>4. k \in Nat /\ c - o = k /\ o <= u /\ o <= c /\ x \in Nat /\ x = c + q
  BY <1>2, <1>3
<1>5. Lives(t, o, x)
  <2>1. x + 1 - o = q + (k + 1) /\ k + 1 \in Nat
    BY <1>2, <1>4
  <2>2. PICK y \in Nat : y = k + 1
    BY <2>1
  <2>3. (q + y) * Limit = q * Limit + y * Limit /\ y * Limit \in Nat
    BY LimitTyped
  <2>4. t + (q + y) * Limit >= F
    BY <1>1, <1>2, <2>3
  <2> QED
    BY <1>1, <2>1, <2>2, <2>4 DEF Lives
<1>6. Level(t, o, x, c) \in Nat /\ Level(t, o, x, c) <= t + k * Limit
  <2>1. PICK v \in Nat : v = k * Limit
    BY <1>4, LimitTyped
  <2>2. ~(c > x)
    BY <1>2, <1>4
  <2>3. Level(t, o, x, c) = IF c <= o THEN t ELSE IF t + v > F THEN F ELSE t + v
    BY <1>1, <1>4, <2>1, <2>2 DEF Level
  <2> QED
    BY <1>1, <2>1, <2>3
<1> QED
  BY <1>4, <1>5, <1>6

(* tokenbucket.lua. *)
LEMMA BucketAllows ==
    ASSUME ServerInv, BucketInv, algorithm = "bucket", Bucket!Allow, algorithm' = algorithm
    PROVE  ServerInv' /\ BucketInv'
<1>1. PICK o \in Nat : /\ o <= bucket.ts
                       /\ Lives(bucket.tokens, o, expireAt)
                       /\ BucketFits(Level(bucket.tokens, o, expireAt, clock), tally, early, time)
  BY DEF BucketInv
<1>2. /\ clock \in Nat /\ time \in 0..MaxTime /\ expireAt \in Int
      /\ bucket.tokens \in 0..(Limit * Window)
  BY DEF ServerInv, BucketInv
<1>3. PICK P \in Nat : P = Level(bucket.tokens, o, expireAt, clock)
  <2>1. Level(bucket.tokens, o, expireAt, clock) \in 0..(Limit * Window)
    BY <1>2, LevelNow
  <2> QED
    BY <2>1, LimitTyped
<1>4. PICK R \in 0..(Limit * Window) : R = Bucket!Refilled /\ R <= P
  BY <1>1, <1>3, RefilledWithin DEF BucketInv
<1>5. PICK left \in 0..(Limit * Window), a \in {0, 1} :
         /\ left = IF R >= Window THEN R - Window ELSE R
         /\ a = IF R >= Window THEN 1 ELSE 0
         /\ left + a * Window = R
  <2>1. CASE R >= Window
    <3>1. R - Window \in 0..(Limit * Window) /\ (R - Window) + 1 * Window = R
      BY <2>1, LimitTyped
    <3> QED
      BY <2>1, <3>1
  <2>2. CASE ~(R >= Window)
    <3>1. R + 0 * Window = R
      BY LimitTyped
    <3> QED
      BY <2>2, <3>1
  <2> QED
    BY <2>1, <2>2
<1>6. PICK u \in Nat : u = Bucket!Stored(clock)
  BY <1>2, StoredTyped
<1>7. PICK k : k = IF clock > u THEN clock - u ELSE 0
  OBVIOUS
<1>8. PICK x : x = clock + Bucket!Ttl(left)
  OBVIOUS
<1>9. /\ bucket' = [tokens |-> left, ts |-> u] /\ expireAt' = x
      /\ early' = [early EXCEPT ![time] = @ + k]
      /\ tally' = IF R >= Window THEN [tally EXCEPT ![time] = @ + 1] ELSE tally
      /\ time' = time /\ clock' = clock /\ UNCHANGED serverVars
  BY <1>4, <1>5, <1>6, <1>7, <1>8, BucketIs DEF Bucket!Allow, Bucket!serverVars, serverVars
<1>10. x \in Nat /\ k \in Nat
  BY <1>2, <1>6, <1>7, <1>8, StoredLevel
<1>11. PICK oo \in Nat : /\ oo <= u /\ Lives(left, oo, x)
                         /\ Level(left, oo, x, clock) \in Nat
                         /\ Level(left, oo, x, clock) <= left + k * Limit
  BY <1>2, <1>6, <1>7, <1>8, StoredLevel
<1>12. PICK Q \in Nat : Q = Level(left, oo, x, clock) /\ Q <= left + k * Limit
  BY <1>11
<1>13. Q + a * Window <= P + k * Limit
  <2>1. k * Limit \in Nat /\ a * Window \in Nat
    BY <1>10, LimitTyped
  <2> QED
    BY <1>4, <1>5, <1>12, <2>1, LimitTyped
<1>14. Tallied(early', time) /\ \A s \in 0..time : Count(early', s, time) = Count(early, s, time) + k
  <2>1. PICK e, n, g : e = early /\ n = time /\ g = early'
    OBVIOUS
  <2>2. Tallied(e, n) /\ g = More(e, n, k)
    BY <1>9, <2>1 DEF BucketInv, More
  <2>3. Tallied(g, n) /\ \A s \in 0..n : Count(g, s, n) = Count(e, s, n) + k
    BY <1>10, <2>2, TallyMore
  <2> QED
    BY <2>1, <2>3
<1>15. Tallied(tally', time) /\ \A s \in 0..time : Count(tally', s, time) = Count(tally, s, time) + a
  <2>1. CASE R >= Window
    <3>1. tally' = [tally EXCEPT ![time] = @ + 1] /\ a = 1 /\ 1 \in Nat
      BY <1>5, <1>9, <2>1
    <3>2. PICK f, n, g : f = tally /\ n = time /\ g = tally'
      OBVIOUS
    <3>3. Tallied(f, n) /\ g = More(f, n, 1)
      BY <3>1, <3>2 DEF BucketInv, More
    <3>4. Tallied(g, n) /\ \A s \in 0..n : Count(g, s, n) = Count(f, s, n) + 1
      BY <3>1, <3>3, TallyMore
    <3> QED
      BY <3>1, <3>2, <3>4
  <2>2. CASE ~(R >= Window)
    <3>1. tally' = tally /\ a = 0
      BY <1>5, <1>9, <2>2
    <3>2. \A s \in 0..time : Count(tally, s, time) + 0 = Count(tally, s, time)
      BY <1>2, CountTyped, LimitTyped DEF BucketInv
    <3> QED
      BY <3>1, <3>2 DEF BucketInv
  <2> QED
    BY <2>1, <2>2
<1>16. BucketFits(Q, tally', early', time)
  <2>1. PICK g, h : g = tally' /\ h = early'
    OBVIOUS
  <2>2. BucketFits(P, tally, early, time)
    BY <1>1, <1>3
  <2>3. BucketFits(Q, g, h, time)
    BY <1>10, <1>13, <1>14, <1>15, <2>1, <2>2, BucketTakes DEF BucketInv
  <2> QED
    BY <2>1, <2>3
<1>17. bucket' \in [tokens : 0..(Limit * Window), ts : Nat] /\ bucket'.tokens = left /\ bucket'.ts = u
  BY <1>9
<1>18. BucketInv'
  BY <1>9, <1>11, <1>12, <1>14, <1>15, <1>16, <1>17 DEF BucketInv
<1> QED
  BY <1>9, <1>10, <1>18, ServerKept

LEMMA BucketInvTicks ==
    ASSUME ServerInv, BucketInv, Tick, UNCHANGED <<bucket, tally, early, algorithm>>
    PROVE  BucketInv'
<1>1. clock' = clock + 1 /\ time' = time + 1 /\ time < MaxTime /\ expireAt' = expireAt
  BY TickServes DEF Tick
<1>2. /\ clock \in Nat /\ expireAt \in Nat \cup {-1} /\ bucket.tokens \in 0..(Limit * Window)
      /\ Tallied(tally, time) /\ Tallied(early, time)
  BY DEF ServerInv, BucketInv
<1>3. Tallied(tally, time + 1) /\ Tallied(early, time + 1)
  BY <1>1, <1>2, TallyTicks
<1>4. ASSUME algorithm = "bucket"
      PROVE  \E o \in Nat :
                /\ o <= bucket.ts
                /\ Lives(bucket.tokens, o, expireAt)
                /\ BucketFits(Level(bucket.tokens, o, expireAt, clock + 1), tally, early, time + 1)
  <2>1. PICK o \in Nat : /\ o <= bucket.ts
                         /\ Lives(bucket.tokens, o, expireAt)
                         /\ BucketFits(Level(bucket.tokens, o, expireAt, clock), tally, early, time)
    BY <1>4 DEF BucketInv
  <2>2. PICK P \in 0..(Limit * Window) : P = Level(bucket.tokens, o, expireAt, clock)
    BY <1>2, LevelNow
  <2>3. PICK Q \in 0..(Limit * Window) : Q = Level(bucket.tokens, o, expireAt, clock + 1)
    <3>1. clock + 1 \in Nat
      BY <1>2
    <3> QED
      BY <1>2, <3>1, LevelNow
  <2>4. Q <= P + Limit
    <3>1. PICK t, x, c : t = bucket.tokens /\ x = expireAt /\ c = clock
      OBVIOUS
    <3>2. t \in 0..(Limit * Window) /\ x \in Nat \cup {-1} /\ c \in Nat /\ o \in Int /\ Lives(t, o, x)
      BY <1>2, <2>1, <3>1
    <3>3. Level(t, o, x, c + 1) <= Level(t, o, x, c) + Limit
      BY <3>2, LevelTicks
    <3> QED
      BY <2>2, <2>3, <3>1, <3>3
  <2>5. P \in Nat /\ Q \in Nat /\ Q <= Limit * Window /\ BucketFits(P, tally, early, time)
    BY <2>1, <2>2, <2>3, LimitTyped
  <2>6. BucketFits(Q, tally, early, time + 1)
    BY <1>1, <1>2, <2>4, <2>5, BucketTicks
  <2> QED
    BY <2>1, <2>3, <2>6
<1> QED
  BY <1>1, <1>3, <1>4 DEF BucketInv

LEMMA BucketInvSetBack ==
    ASSUME ServerInv, BucketInv, SetBack, UNCHANGED <<bucket, tally, early, algorithm>>
    PROVE  BucketInv'
<1>1. clock' < clock /\ clock' \in Nat /\ time' = time /\ expireAt' = expireAt
  BY SetBackServes DEF SetBack, ServerInv
<1>2. /\ clock \in Nat /\ expireAt \in Int /\ bucket.tokens \in 0..(Limit * Window)
      /\ Tallied(tally, time) /\ Tallied(early, time)
  BY DEF ServerInv, BucketInv
<1>3. ASSUME algorithm = "bucket"
      PROVE  \E o \in Nat :
                /\ o <= bucket.ts
                /\ Lives(bucket.tokens, o, expireAt)
                /\ BucketFits(Level(bucket.tokens, o, expireAt, clock'), tally, early, time)
  <2>1. PICK o \in Nat : /\ o <= bucket.ts
                         /\ Lives(bucket.tokens, o, expireAt)
                         /\ BucketFits(Level(bucket.tokens, o, expireAt, clock), tally, early, time)
    BY <1>3 DEF BucketInv
  <2>2. PICK b \in Nat : b = clock' /\ b < clock
    BY <1>1
  <2>3. PICK P \in 0..(Limit * Window) : P = Level(bucket.tokens, o, expireAt, clock)
    BY <1>2, LevelNow
  <2>4. PICK Q \in 0..(Limit * Window) : Q = Level(bucket.tokens, o, expireAt, b)
    BY <1>2, LevelNow
  <2>5. Q <= P
    <3>1. PICK t, x, c : t = bucket.tokens /\ x = expireAt /\ c = clock
      OBVIOUS
    <3>2. t \in 0..(Limit * Window) /\ x \in Int /\ c \in Nat /\ o \in Int /\ b < c
      BY <1>2, <2>2, <3>1
    <3>3. Level(t, o, x, b) <= Level(t, o, x, c)
      BY <3>2, LevelBack
    <3> QED
      BY <2>3, <2>4, <3>1, <3>3
  <2>6. P \in Nat /\ Q \in Nat /\ BucketFits(P, tally, early, time)
    BY <2>1, <2>3, <2>4, LimitTyped
  <2>7. BucketFits(Q, tally, early, time)
    BY <1>2, <2>5, <2>6, BucketFalls
  <2> QED
    BY <2>1, <2>2, <2>4, <2>7
<1> QED
  BY <1>1, <1>3 DEF BucketInv

LEMMA BucketThrottles ==
    ASSUME ServerInv, BucketInv
    PROVE  ThrottledToRefill
<1> SUFFICES ASSUME algorithm = "bucket" PROVE Bucket!ThrottledToRefill
  BY DEF ThrottledToRefill
<1> SUFFICES ASSUME NEW s \in 0..time
             PROVE  Cardinality(Bucket!From(tally, s)) * Bucket!Token <=
                       Bucket!Full + (time - s + Cardinality(Bucket!From(early, s))) * Bucket!Capacity
  BY SameCardinality, Zenon DEF Bucket!ThrottledToRefill
<1> SUFFICES Count(tally, s, time) * Window <=
                Limit * Window + (time - s + Count(early, s, time)) * Limit
  BY BucketIs DEF Count
<1>1. PICK o \in Nat : BucketFits(Level(bucket.tokens, o, expireAt, clock), tally, early, time)
  BY DEF BucketInv
<1>2. PICK P \in 0..(Limit * Window) : P = Level(bucket.tokens, o, expireAt, clock)
  <2>1. clock \in Nat /\ bucket.tokens \in 0..(Limit * Window)
    BY DEF ServerInv, BucketInv
  <2> QED
    BY <2>1, LevelNow
<1>3. Count(tally, s, time) * Window + P <= Limit * Window + (time - s + Count(early, s, time)) * Limit
  BY <1>1, <1>2 DEF BucketFits
<1>4. time \in Nat /\ s \in 0..(time + 1) /\ s \in Nat
  BY LimitTyped DEF ServerInv
<1>5. PICK j \in Nat, k \in Nat : j = Count(tally, s, time) /\ k = Count(early, s, time)
  BY <1>4, CountTyped DEF BucketInv
<1>6. j * Window \in Nat /\ (time - s + k) * Limit \in Int /\ P \in Nat
  BY <1>2, <1>4, LimitTyped
<1> QED
  BY <1>3, <1>5, <1>6, LimitTyped

-----------------------------------------------------------------------------
(* The sliding window counter, over windows on one grid. *)

(* The window of a time. *)
LEMMA Grid ==
    ASSUME NEW c \in Nat
    PROVE  /\ Counter!CurrentWindow(c) \in Nat /\ Counter!CurrentWindow(c) * Window \in Nat
           /\ Counter!CurrentWindow(c) * Window <= c
           /\ c < Counter!CurrentWindow(c) * Window + Window
           /\ Counter!Elapsed(c) = c - Counter!CurrentWindow(c) * Window
<1>1. PICK d \in Nat : /\ d = c \div Window /\ d * Window \in Nat
                       /\ d * Window <= c /\ c < d * Window + Window
  BY Floor, LimitTyped
<1>2. c % Window = c - d * Window
  BY <1>1, LimitTyped
<1> QED
  BY <1>1, <1>2 DEF Counter!CurrentWindow, Counter!Elapsed

(* Where windows start. *)
LEMMA Starts ==
    ASSUME NEW d \in Nat, NEW k \in Nat
    PROVE  /\ d * Window \in Nat /\ k * Window \in Nat
           /\ k = d + 1 => k * Window = d * Window + Window
           /\ k >= d + 1 => k * Window >= d * Window + Window
           /\ k >= d + 2 => k * Window >= d * Window + 2 * Window
<1>1. d * Window \in Nat /\ k * Window \in Nat /\ (d + 1) * Window = d * Window + Window
  BY LimitTyped
<1>2. ASSUME NEW a \in {1, 2}, k >= d + a PROVE k * Window >= d * Window + a * Window
  <2>1. k - d - a \in Nat /\ k = d + a + (k - d - a)
    BY <1>2
  <2>2. PICK y \in Nat : k = d + a + y
    BY <2>1
  <2>3. (d + a + y) * Window = d * Window + a * Window + y * Window /\ y * Window \in Nat
    BY LimitTyped
  <2> QED
    BY <1>1, <2>2, <2>3, LimitTyped
<1>3. 1 * Window = Window
  BY LimitTyped
<1> QED
  BY <1>1, <1>2, <1>3

(* Two windows are the same when each starts before the other's end. *)
LEMMA SameWindow ==
    ASSUME NEW d \in Nat, NEW c \in Nat, d * Window <= c, c < d * Window + Window
    PROVE  Counter!CurrentWindow(c) = d /\ Counter!Elapsed(c) = c - d * Window
<1>1. PICK k \in Nat : /\ k = Counter!CurrentWindow(c) /\ k * Window \in Nat /\ k * Window <= c
                       /\ c < k * Window + Window /\ Counter!Elapsed(c) = c - k * Window
  BY Grid
<1>2. d * Window \in Nat
  BY Starts
<1>3. ~(k >= d + 1)
  BY <1>1, <1>2, Starts, LimitTyped
<1>4. ~(d >= k + 1)
  BY <1>1, <1>2, Starts, LimitTyped
<1>5. k = d
  BY <1>3, <1>4
<1> QED
  BY <1>1, <1>5

(* The admission test never lets a window count past the limit, nor to the     *)
(* limit while the window before still weighs in.                              *)
Counts(st) ==
    /\ st \in [window : Nat, curr : Nat, prev : Nat]
    /\ st.curr <= Limit /\ st.prev <= Limit
    /\ st.prev > 0 => st.curr < Limit

LEMMA NoneCounts ==
    ASSUME NEW w \in Nat
    PROVE  /\ Counts(Counter!NoCounts(w)) /\ Counter!NoCounts(w).window = w
           /\ Counter!NoCounts(w).curr = 0 /\ Counter!NoCounts(w).prev = 0
BY LimitTyped DEF Counts, Counter!NoCounts

LEMMA RolledTyped ==
    ASSUME NEW st, Counts(st), NEW c \in Nat
    PROVE  /\ Counts(Counter!Rolled(st, c))
           /\ Counter!Rolled(st, c).window = Counter!CurrentWindow(c)
<1>1. PICK w \in Nat : w = Counter!CurrentWindow(c)
  BY Grid
<1>2. CASE st.window < w - 1
  BY <1>1, <1>2, NoneCounts DEF Counter!Rolled
<1>3. CASE st.window = w - 1
  <2>1. Counter!Rolled(st, c) = [window |-> w, curr |-> 0, prev |-> st.curr]
    BY <1>1, <1>3 DEF Counter!Rolled
  <2> QED
    BY <1>1, <2>1, LimitTyped DEF Counts
<1>4. CASE ~(st.window < w - 1) /\ st.window # w - 1
  <2>1. Counter!Rolled(st, c) = [st EXCEPT !.window = w]
    BY <1>1, <1>4 DEF Counter!Rolled
  <2>2. /\ Counter!Rolled(st, c) \in [window : Nat, curr : Nat, prev : Nat]
        /\ Counter!Rolled(st, c).window = w
        /\ Counter!Rolled(st, c).curr = st.curr /\ Counter!Rolled(st, c).prev = st.prev
    BY <2>1 DEF Counts
  <2> QED
    BY <1>1, <2>2 DEF Counts
<1> QED
  BY <1>2, <1>3, <1>4

LEMMA ReadTyped ==
    ASSUME ServerInv, Counts(state)
    PROVE  Counts(Counter!Read) /\ Counter!Read.window = Counter!CurrentWindow(clock)
<1>1. PICK c, st : c = clock /\ st = state /\ c \in Nat
  BY DEF ServerInv
<1>2. CASE Counter!Expired
  <2>1. Counter!Read = Counter!NoCounts(Counter!CurrentWindow(c))
    BY <1>1, <1>2 DEF Counter!Read
  <2>2. Counter!CurrentWindow(c) \in Nat
    BY <1>1, Grid
  <2> QED
    BY <1>1, <2>1, <2>2, NoneCounts
<1>3. CASE ~Counter!Expired
  <2>1. Counter!Read = Counter!Rolled(st, c)
    BY <1>1, <1>3 DEF Counter!Read
  <2>2. Counts(Counter!Rolled(st, c)) /\ Counter!Rolled(st, c).window = Counter!CurrentWindow(c)
    BY <1>1, RolledTyped
  <2> QED
    BY <1>1, <2>1, <2>2
<1> QED
  BY <1>2, <1>3

(* One more request that fits. *)
LEMMA CountsMore ==
    ASSUME NEW st, Counts(st), NEW c \in Nat, st.window = Counter!CurrentWindow(c),
           Counter!Fits(st, c), NEW su, su = [st EXCEPT !.curr = @ + 1]
    PROVE  /\ Counts(su)
           /\ su.window = st.window /\ su.prev = st.prev /\ su.curr = st.curr + 1
           /\ st.prev * (Window - (c - st.window * Window)) + (st.curr + 1) * Window <= Limit * Window
<1>1. st.window \in Nat /\ st.curr \in Nat /\ st.prev \in Nat /\ st.prev <= Limit
  BY DEF Counts
<1>2. PICK d \in Nat : /\ d = Window - (c - st.window * Window) /\ d >= 1
                       /\ d = Window - Counter!Elapsed(c)
  <2>1. PICK w \in Nat : w = st.window * Window
    BY <1>1, Starts
  <2>2. w <= c /\ c < w + Window /\ Counter!Elapsed(c) = c - w
    BY <2>1, Grid
  <2>3. Window - (c - w) \in Nat /\ Window - (c - w) >= 1
    BY <2>2, LimitTyped
  <2> QED
    BY <2>1, <2>2, <2>3
<1>3. PICK u \in Nat : u = st.prev * d /\ (st.prev > 0 => u > 0)
  <2>1. st.prev * d \in Nat /\ (st.prev > 0 => st.prev * d > 0)
    BY <1>1, <1>2
  <2> QED
    BY <2>1
<1>4. (st.curr + 1) * Window = st.curr * Window + Window /\ st.curr * Window \in Nat
  BY <1>1, LimitTyped
<1>5. u + st.curr * Window + Window <= Limit * Window
  BY <1>2, <1>3 DEF Counter!Fits, Counter!Estimate
<1>6. u + (st.curr + 1) * Window <= Limit * Window
  BY <1>3, <1>4, <1>5, LimitTyped
<1>7. st.curr + 1 <= Limit /\ (st.prev > 0 => st.curr + 1 < Limit)
  <2>1. PICK k \in Nat : k = st.curr + 1
    BY <1>1
  <2>2. k > Limit => k * Window >= Limit * Window + Window
    BY Starts, LimitTyped
  <2>3. k * Window \in Nat /\ u + k * Window <= Limit * Window
    BY <1>6, <2>1, LimitTyped
  <2>4. k <= Limit
    BY <2>2, <2>3, LimitTyped
  <2>5. k = Limit => u = 0
    BY <2>3, LimitTyped
  <2> QED
    BY <1>1, <1>3, <2>1, <2>4, <2>5, LimitTyped
<1>8. /\ su \in [window : Nat, curr : Nat, prev : Nat]
      /\ su.window = st.window /\ su.prev = st.prev /\ su.curr = st.curr + 1
  BY DEF Counts
<1> QED
  BY <1>1, <1>2, <1>3, <1>6, <1>7, <1>8 DEF Counts

(* While TIME shows the time, tick s is at Start + s: a span since s is counted *)
(* by curr, or by prev and curr, according to where it starts.  l is the time  *)
(* of the last call, which is in the window.                                   *)
CounterFits(st, l, f, n) ==
    LET begin == st.window * Window
    IN  /\ begin <= l /\ l < begin + Window
        /\ st.curr > 0 => st.prev * (Window - (l - begin)) + st.curr * Window <= Limit * Window
        /\ \A s \in 0..(n + 1) :
              /\ Count(f, s, n) = 0 \/ Start + s <= l
              /\ Start + s >= begin => Count(f, s, n) <= st.curr
              /\ Start + s + Window >= begin => Count(f, s, n) <= st.prev + st.curr

LEMMA CounterTicks ==
    ASSUME NEW st, Counts(st), NEW l, NEW f, NEW n, Tallied(f, n), n < MaxTime,
           CounterFits(st, l, f, n)
    PROVE  CounterFits(st, l, f, n + 1)
<1>1. n \in Nat /\ st.curr \in Nat /\ st.prev \in Nat
  BY LimitTyped DEF Tallied, Counts
<1>2. ASSUME NEW s \in 0..(n + 1 + 1)
      PROVE  \/ s \in 0..(n + 1) /\ Count(f, s, n + 1) = Count(f, s, n)
             \/ Count(f, s, n + 1) = 0
  <2>1. s \in 0..(n + 1) \/ s = n + 2
    BY <1>1
  <2> QED
    BY <2>1, TallyTicks
<1>3. ASSUME NEW s \in 0..(n + 1 + 1)
      PROVE  /\ Count(f, s, n + 1) = 0 \/ Start + s <= l
             /\ Start + s >= st.window * Window => Count(f, s, n + 1) <= st.curr
             /\ Start + s + Window >= st.window * Window => Count(f, s, n + 1) <= st.prev + st.curr
  BY <1>1, <1>2 DEF CounterFits
<1> QED
  BY <1>3 DEF CounterFits

(* Nothing stored, and nothing allowed that a window to come may count. *)
LEMMA CounterStarts ==
    ASSUME NEW r \in Nat, NEW f, NEW n,
           \A s \in 0..(n + 1) : /\ Count(f, s, n) = 0 \/ Start + s <= r
                                 /\ Start + s + Window >= Counter!CurrentWindow(r) * Window
                                       => Count(f, s, n) = 0,
           n \in Nat
    PROVE  CounterFits(Counter!NoCounts(Counter!CurrentWindow(r)), r, f, n)
<1>1. PICK w \in Nat, b \in Nat : /\ w = Counter!CurrentWindow(r) /\ b = w * Window
                                  /\ b <= r /\ r < b + Window
  BY Grid
<1>2. PICK st : st = Counter!NoCounts(w) /\ st.window = w /\ st.curr = 0 /\ st.prev = 0
  BY NoneCounts
<1>3. ASSUME NEW s \in 0..(n + 1)
      PROVE  /\ Count(f, s, n) = 0 \/ Start + s <= r
             /\ Start + s >= b => Count(f, s, n) <= st.curr
             /\ Start + s + Window >= b => Count(f, s, n) <= st.prev + st.curr
  <2>1. Start + s >= b => Start + s + Window >= b
    BY LimitTyped
  <2>2. Start + s + Window >= b => Count(f, s, n) = 0
    BY <1>1
  <2> QED
    BY <1>2, <2>1, <2>2
<1>4. CounterFits(st, r, f, n)
  BY <1>1, <1>2, <1>3 DEF CounterFits
<1> QED
  BY <1>1, <1>2, <1>4

(* Rolling to a later time moves the window's count to prev, or drops what no  *)
(* span that may still matter contains.                                        *)
LEMMA CounterRolls ==
    ASSUME NEW st, Counts(st), NEW l \in Nat, NEW r \in Nat, l <= r, NEW f, NEW n, Tallied(f, n),
           CounterFits(st, l, f, n)
    PROVE  /\ CounterFits(Counter!Rolled(st, r), r, f, n)
           /\ r > l + 2 * Window => CounterFits(Counter!NoCounts(Counter!CurrentWindow(r)), r, f, n)
<1>0. /\ n \in Nat /\ st.window \in Nat /\ st.curr \in Nat /\ st.prev \in Nat
  BY LimitTyped DEF Tallied, Counts
<1>a. PICK d \in Nat, b \in Nat : d = st.window /\ b = d * Window /\ b <= l /\ l < b + Window
  BY <1>0, Starts DEF CounterFits
<1>b. PICK w \in Nat, a \in Nat : /\ w = Counter!CurrentWindow(r) /\ a = w * Window
                                  /\ a <= r /\ r < a + Window
  BY Grid
<1>c. w >= d
  <2>1. d >= w + 1 => b >= a + Window
    BY <1>a, <1>b, Starts
  <2> QED
    BY <1>a, <1>b, <2>1, LimitTyped
<1>1. ASSUME NEW s \in 0..(n + 1)
      PROVE  /\ s \in Nat /\ Count(f, s, n) \in Nat
             /\ Count(f, s, n) = 0 \/ Start + s <= l
             /\ Count(f, s, n) = 0 \/ Start + s <= r
             /\ Start + s >= b => Count(f, s, n) <= st.curr
             /\ Start + s + Window >= b => Count(f, s, n) <= st.prev + st.curr
  <2>1. s \in Nat /\ Count(f, s, n) \in Nat
    BY <1>0, CountTyped
  <2>2. /\ Count(f, s, n) = 0 \/ Start + s <= l
        /\ Start + s >= b => Count(f, s, n) <= st.curr
        /\ Start + s + Window >= b => Count(f, s, n) <= st.prev + st.curr
    BY <1>a DEF CounterFits
  <2> QED
    BY <2>1, <2>2, LimitTyped
<1>2. ASSUME w >= d + 2 PROVE CounterFits(Counter!NoCounts(w), r, f, n)
  <2>1. a >= b + 2 * Window
    BY <1>2, <1>a, <1>b, Starts
  <2>2. ASSUME NEW s \in 0..(n + 1), Start + s + Window >= a PROVE Count(f, s, n) = 0
    <3>1. Start + s > l
      BY <1>1, <1>a, <2>1, <2>2, LimitTyped
    <3> QED
      BY <1>1, <3>1, LimitTyped
  <2> QED
    BY <1>0, <1>1, <1>b, <2>2, CounterStarts
<1>3. CASE w = d
  <2>1. Counter!Rolled(st, r) = [st EXCEPT !.window = d]
    <3>1. ~(d < d - 1) /\ d # d - 1
      OBVIOUS
    <3> QED
      BY <1>3, <1>a, <1>b, <3>1 DEF Counter!Rolled
  <2>2. Counter!Rolled(st, r) = st
    BY <1>a, <2>1 DEF Counts
  <2>3. st.curr > 0 => st.prev * (Window - (r - b)) + st.curr * Window <= Limit * Window
    <3> SUFFICES ASSUME st.curr > 0
                 PROVE  st.prev * (Window - (r - b)) + st.curr * Window <= Limit * Window
      OBVIOUS
    <3>1. PICK y \in Nat, x \in Nat : y = Window - (r - b) /\ x = r - l
      <4>1. Window - (r - b) \in Nat /\ r - l \in Nat
        BY <1>3, <1>a, <1>b, LimitTyped
      <4> QED
        BY <4>1
    <3>2. Window - (l - b) = y + x
      BY <1>a, <3>1, LimitTyped
    <3>3. st.prev * (y + x) = st.prev * y + st.prev * x /\ st.prev * y \in Nat /\ st.prev * x \in Nat
      BY <1>0
    <3>4. st.prev * (y + x) + st.curr * Window <= Limit * Window /\ st.curr * Window \in Nat
      BY <1>0, <1>a, <3>2, LimitTyped DEF CounterFits
    <3>5. st.prev * y + st.curr * Window <= Limit * Window
      BY <3>3, <3>4, LimitTyped
    <3> QED
      BY <3>1, <3>5
  <2>4. b <= r /\ r < b + Window
    BY <1>3, <1>a, <1>b
  <2>5. CounterFits(st, r, f, n)
    BY <1>1, <1>a, <2>3, <2>4 DEF CounterFits
  <2>6. ~(r > l + 2 * Window)
    BY <1>a, <2>4, LimitTyped
  <2> QED
    BY <2>2, <2>5, <2>6
<1>4. CASE w = d + 1
  <2>1. Counter!Rolled(st, r) = [window |-> w, curr |-> 0, prev |-> st.curr]
    <3>1. ~(d < w - 1) /\ d = w - 1
      BY <1>4
    <3> QED
      BY <1>a, <1>b, <3>1 DEF Counter!Rolled
  <2>2. PICK su : su = Counter!Rolled(st, r)
    OBVIOUS
  <2>3. su.window = w /\ su.curr = 0 /\ su.prev = st.curr
    BY <2>1, <2>2
  <2>4. a = b + Window
    BY <1>4, <1>a, <1>b, Starts
  <2>5. ASSUME NEW s \in 0..(n + 1)
        PROVE  /\ Start + s >= a => Count(f, s, n) <= su.curr
               /\ Start + s + Window >= a => Count(f, s, n) <= su.prev + su.curr
    <3>1. Start + s >= a => Count(f, s, n) = 0
      BY <1>1, <1>a, <2>4, LimitTyped
    <3>2. Start + s + Window >= a => Start + s >= b
      BY <1>1, <2>4, LimitTyped
    <3> QED
      BY <1>0, <1>1, <2>3, <3>1, <3>2
  <2>6. CounterFits(su, r, f, n)
    BY <1>1, <1>b, <2>3, <2>5 DEF CounterFits
  <2>7. ~(r > l + 2 * Window)
    BY <1>a, <1>b, <2>4, LimitTyped
  <2> QED
    BY <2>2, <2>6, <2>7
<1>5. CASE w >= d + 2
  <2>1. Counter!Rolled(st, r) = Counter!NoCounts(w)
    <3>1. d < w - 1
      BY <1>5
    <3> QED
      BY <1>a, <1>b, <3>1 DEF Counter!Rolled
  <2> QED
    BY <1>2, <1>5, <1>b, <2>1
<1> QED
  BY <1>c, <1>3, <1>4, <1>5

(* A request allowed now is counted in curr. *)
LEMMA CounterTakes ==
    ASSUME NEW st, Counts(st), NEW r \in Nat, NEW f, NEW n, Tallied(f, n), r = Start + n,
           st.window = Counter!CurrentWindow(r),
           CounterFits(st, r, f, n), Counter!Fits(st, r),
           NEW su, su = [st EXCEPT !.curr = @ + 1]
    PROVE  Counts(su) /\ CounterFits(su, r, More(f, n, 1), n)
<1>0. /\ n \in Nat /\ st.window \in Nat /\ st.curr \in Nat /\ st.prev \in Nat
  BY LimitTyped DEF Tallied, Counts
<1>1. /\ Counts(su)
      /\ su.window = st.window /\ su.prev = st.prev /\ su.curr = st.curr + 1
      /\ st.prev * (Window - (r - st.window * Window)) + (st.curr + 1) * Window <= Limit * Window
  BY CountsMore
<1>2. PICK g, b : g = More(f, n, 1) /\ b = st.window * Window
  OBVIOUS
<1>3. ASSUME NEW s \in 0..(n + 1)
      PROVE  /\ Count(g, s, n) = 0 \/ Start + s <= r
             /\ Start + s >= b => Count(g, s, n) <= su.curr
             /\ Start + s + Window >= b => Count(g, s, n) <= su.prev + su.curr
  <2>1. CASE s = n + 1
    <3>1. Count(g, s, n) = 0
      BY <1>2, <2>1, TallyMore
    <3> QED
      BY <1>0, <1>1, <3>1
  <2>2. CASE s \in 0..n
    <3>1. Count(f, s, n) \in Nat /\ Count(g, s, n) = Count(f, s, n) + 1
      <4>1. Count(f, s, n) \in Nat
        BY CountTyped
      <4>2. PICK k \in Nat : k = 1
        OBVIOUS
      <4>3. Count(More(f, n, k), s, n) = Count(f, s, n) + k
        BY <2>2, TallyMore
      <4> QED
        BY <1>2, <4>1, <4>2, <4>3
    <3>2. /\ Start + s >= b => Count(f, s, n) <= st.curr
          /\ Start + s + Window >= b => Count(f, s, n) <= st.prev + st.curr
      BY <1>2 DEF CounterFits
    <3>3. Start + s <= r
      BY <1>0, <2>2, LimitTyped
    <3> QED
      BY <1>0, <1>1, <3>1, <3>2, <3>3
  <2> QED
    BY <1>0, <2>1, <2>2
<1>4. b <= r /\ r < b + Window
  BY <1>2 DEF CounterFits
<1>5. CounterFits(su, r, g, n)
  BY <1>1, <1>2, <1>3, <1>4 DEF CounterFits
<1> QED
  BY <1>1, <1>2, <1>5

(* The promise, at a time no earlier than the last call's. *)
LEMMA CounterKeeps ==
    ASSUME NEW st, Counts(st), NEW l \in Nat, NEW f, NEW n, Tallied(f, n), l <= Start + n,
           CounterFits(st, l, f, n), NEW s \in 0..n, n - s <= Window
    PROVE  Count(f, s, n) * Window <= Limit * (Window + (n - s))
<1>0. /\ n \in Nat /\ s \in Nat /\ s \in 0..(n + 1)
      /\ st.window \in Nat /\ st.curr \in Nat /\ st.prev \in Nat
      /\ st.curr <= Limit /\ st.prev <= Limit
  BY LimitTyped DEF Tallied, Counts
<1>a. PICK b \in Nat : b = st.window * Window /\ b <= l /\ l < b + Window
  BY <1>0, Starts DEF CounterFits
<1>1. PICK j \in Nat : j = Count(f, s, n)
  BY <1>0, CountTyped
<1>2. PICK z \in Nat : z = n - s
  BY <1>0, LimitTyped
<1>3. Limit * (Window + z) = Limit * Window + Limit * z /\ Limit * z \in Nat
  BY LimitTyped
<1>4. ASSUME NEW x \in Nat, NEW y \in Nat, x <= y PROVE x * Window <= y * Window
  <2>1. x = y \/ y >= x + 1
    BY <1>4
  <2> QED
    BY <2>1, Starts, LimitTyped
<1>5. CASE j <= Limit
  <2>1. j * Window <= Limit * Window /\ j * Window \in Nat
    BY <1>4, <1>5, LimitTyped
  <2> QED
    BY <1>1, <1>2, <1>3, <2>1, LimitTyped
<1>6. CASE j > Limit
  <2>1. Start + s < b
    <3>1. Start + s >= b => j <= st.curr
      BY <1>0, <1>1, <1>a DEF CounterFits
    <3> QED
      BY <1>0, <1>6, <1>a, <3>1, LimitTyped
  <2>2. Start + s + Window >= b
    BY <1>0, <1>a, LimitTyped
  <2>3. j <= st.prev + st.curr
    BY <1>0, <1>1, <1>a, <2>2 DEF CounterFits
  <2>4. st.curr > 0
    BY <1>0, <1>6, <2>3, LimitTyped
  <2>5. PICK x \in Nat : x = l - b /\ x <= z
    <3>1. l - b \in Nat /\ l - b <= z
      BY <1>0, <1>2, <1>a, <2>1, LimitTyped
    <3> QED
      BY <3>1
  <2>6. st.prev * (Window - x) + st.curr * Window <= Limit * Window
    BY <1>a, <2>4, <2>5 DEF CounterFits
  <2>7. /\ st.prev * (Window - x) = st.prev * Window - st.prev * x
        /\ (st.prev + st.curr) * Window = st.prev * Window + st.curr * Window
        /\ st.prev * Window \in Nat /\ st.curr * Window \in Nat /\ st.prev * x \in Nat
    BY <1>0, <2>5, LimitTyped
  <2>8. st.prev * x <= Limit * z
    <3>1. st.prev * x <= Limit * x
      BY <1>0, LimitTyped
    <3>2. Limit * x <= Limit * z
      BY <2>5, LimitTyped
    <3> QED
      BY <2>7, <3>1, <3>2, LimitTyped
  <2>9. j * Window <= (st.prev + st.curr) * Window /\ j * Window \in Nat
    BY <1>0, <1>4, <2>3, LimitTyped
  <2>10. j * Window <= Limit * Window + Limit * z
    BY <1>3, <2>6, <2>7, <2>8, <2>9, LimitTyped
  <2> QED
    BY <1>1, <1>2, <1>3, <2>10
<1> QED
  BY <1>5, <1>6, LimitTyped


(* A wait rounded up to whole milliseconds. *)
LEMMA CeilsMs ==
    ASSUME NEW a \in Nat, NEW b \in Nat \ {0}
    PROVE  Counter!CeilMs(a, b) \in Nat /\ Counter!CeilMs(a, b) * b >= a
<1>1. PICK m \in Nat : m = b * Millisecond /\ m >= 1
  <2>1. Millisecond \in Nat \ {0}
    BY RedisLimiterAssumption
  <2>2. b * Millisecond \in Nat /\ b * Millisecond >= 1
    BY <2>1
  <2> QED
    BY <2>2
<1>2. PICK x \in Nat : x = a + m - 1
  <2>1. a + m - 1 \in Nat
    BY <1>1
  <2> QED
    BY <2>1
<1>3. PICK q \in Nat : q = x \div m /\ q * m \in Nat /\ x < q * m + m
  <2>1. m \in Nat \ {0}
    BY <1>1
  <2> QED
    BY <2>1, Floor
<1>4. q * m >= a
  BY <1>1, <1>2, <1>3
<1>5. Counter!CeilMs(a, b) = q * Millisecond
  BY <1>1, <1>2, <1>3 DEF Counter!CeilMs
<1>6. Millisecond \in Nat /\ q * Millisecond \in Nat
  BY RedisLimiterAssumption
<1>7. (q * Millisecond) * b = q * m
  BY <1>1, <1>6
<1> QED
  BY <1>4, <1>5, <1>6, <1>7

(* At the rollover a count below the limit leaves room. *)
LEMMA FitsAtRollover ==
    ASSUME NEW st, Counts(st), st.curr < Limit, NEW t, t = st.window * Window + Window
    PROVE  Counter!Fits(Counter!Rolled(st, t), t)
<1>1. st.window \in Nat /\ st.curr \in Nat
  BY DEF Counts
<1>2. PICK w \in Nat : w = st.window + 1
  BY <1>1
<1>3. t \in Nat /\ w * Window = t /\ t < w * Window + Window
  BY <1>1, <1>2, Starts, LimitTyped
<1>4. Counter!CurrentWindow(t) = w /\ Counter!Elapsed(t) = 0
  <2>1. Counter!CurrentWindow(t) = w /\ Counter!Elapsed(t) = t - w * Window
    BY <1>3, SameWindow
  <2> QED
    BY <1>3, <2>1
<1>5. PICK su : su = Counter!Rolled(st, t) /\ su.curr = 0 /\ su.prev = st.curr
  <2>1. Counter!Rolled(st, t) = [window |-> w, curr |-> 0, prev |-> st.curr]
    <3>1. ~(st.window < w - 1) /\ st.window = w - 1
      BY <1>1, <1>2
    <3> QED
      BY <1>4, <3>1 DEF Counter!Rolled
  <2> QED
    BY <2>1
<1>6. st.curr * (Window - 0) = st.curr * Window /\ 0 * Window = 0 /\ st.curr * Window \in Nat
  BY <1>1, LimitTyped
<1>7. st.curr * Window + 0 + Window <= Limit * Window
  <2>1. Limit >= st.curr + 1
    BY <1>1, LimitTyped
  <2>2. Limit * Window >= st.curr * Window + Window
    BY <1>1, <2>1, Starts, LimitTyped
  <2> QED
    BY <1>6, <2>2, LimitTyped
<1>8. Counter!Fits(su, t)
  BY <1>4, <1>5, <1>6, <1>7 DEF Counter!Fits, Counter!Estimate
<1> QED
  BY <1>5, <1>8

(* The wait for a full window with an empty one before it: until the next      *)
(* window's estimate has decayed by one request.                               *)
LEMMA RetryFull ==
    ASSUME NEW st, Counts(st), st.curr = Limit, NEW k \in Nat, k * Limit >= Window,
           NEW t, t = st.window * Window + Window + k
    PROVE  Counter!Fits(Counter!Rolled(st, t), t)
<1>1. st.window \in Nat
  BY DEF Counts
<1>2. PICK b \in Nat : b = st.window * Window /\ t = b + Window + k
  BY <1>1, Starts
<1>3. t \in Nat
  BY <1>2, LimitTyped
<1>4. PICK w \in Nat, a \in Nat : /\ w = Counter!CurrentWindow(t) /\ a = w * Window
                                  /\ a <= t /\ t < a + Window /\ Counter!Elapsed(t) = t - a
  BY <1>3, Grid
<1>5. w >= st.window + 1
  <2>1. PICK d \in Nat : d = st.window /\ b = d * Window
    BY <1>1, <1>2
  <2>2. w = d => a = b
    BY <1>4, <2>1
  <2>3. d >= w + 1 => b >= a + Window
    BY <1>4, <2>1, Starts
  <2>4. w # d /\ ~(d >= w + 1)
    BY <1>2, <1>4, <2>2, <2>3, LimitTyped
  <2> QED
    BY <2>1, <2>4
<1>6. 0 * Window = 0
  BY LimitTyped
<1>7. CASE w = st.window + 1
  <2>1. PICK su : su = Counter!Rolled(st, t) /\ su.curr = 0 /\ su.prev = Limit
    <3>1. Counter!Rolled(st, t) = [window |-> w, curr |-> 0, prev |-> Limit]
      <4>1. ~(st.window < w - 1) /\ st.window = w - 1
        BY <1>1, <1>7
      <4> QED
        BY <1>4, <4>1 DEF Counter!Rolled
    <3> QED
      BY <3>1
  <2>2. a = b + Window
    BY <1>1, <1>2, <1>4, <1>7, Starts
  <2>3. Counter!Elapsed(t) = k
    BY <1>2, <1>4, <2>2, LimitTyped
  <2>4. Limit * (Window - k) = Limit * Window - k * Limit /\ k * Limit \in Nat
    BY LimitTyped
  <2>5. Limit * (Window - k) + 0 + Window <= Limit * Window
    BY <2>4, LimitTyped
  <2>6. Counter!Fits(su, t)
    BY <1>6, <2>1, <2>3, <2>5 DEF Counter!Fits, Counter!Estimate
  <2> QED
    BY <2>1, <2>6
<1>8. CASE w >= st.window + 2
  <2>1. PICK su : su = Counter!Rolled(st, t) /\ su.curr = 0 /\ su.prev = 0
    <3>1. Counter!Rolled(st, t) = Counter!NoCounts(w)
      <4>1. st.window < w - 1
        BY <1>1, <1>8
      <4> QED
        BY <1>4, <4>1 DEF Counter!Rolled
    <3> QED
      BY <3>1, NoneCounts
  <2>2. PICK d \in Int : d = Window - Counter!Elapsed(t)
    BY <1>3, <1>4, LimitTyped
  <2>3. 0 * d = 0 /\ 0 + 0 + Window <= Limit * Window
    BY LimitTyped
  <2>4. Counter!Fits(su, t)
    BY <1>6, <2>1, <2>2, <2>3 DEF Counter!Fits, Counter!Estimate
  <2> QED
    BY <2>1, <2>4
<1> QED
  BY <1>1, <1>5, <1>7, <1>8

(* The wait within the window: until prev has decayed by what is missing. *)
LEMMA RetryWithin ==
    ASSUME NEW st, Counts(st), NEW q \in Nat, q < Window,
           q * st.prev >= (st.prev + (st.curr - Limit + 1)) * Window,
           NEW t, t = st.window * Window + q
    PROVE  Counter!Fits(Counter!Rolled(st, t), t)
<1>1. st.window \in Nat /\ st.curr \in Nat /\ st.prev \in Nat
  BY DEF Counts
<1>2. PICK d \in Nat, b \in Nat : d = st.window /\ b = d * Window /\ t = b + q
  BY <1>1, Starts
<1>3. t \in Nat /\ b <= t /\ t < b + Window /\ t - b = q
  BY <1>2, LimitTyped
<1>4. Counter!CurrentWindow(t) = d /\ Counter!Elapsed(t) = q
  BY <1>2, <1>3, SameWindow
<1>5. Counter!Rolled(st, t) = st
  <2>1. ~(d < d - 1) /\ d # d - 1
    OBVIOUS
  <2>2. Counter!Rolled(st, t) = [st EXCEPT !.window = d]
    BY <1>2, <1>4, <2>1 DEF Counter!Rolled
  <2> QED
    BY <1>2, <2>2 DEF Counts
<1>6. /\ (st.prev + (st.curr - Limit + 1)) * Window
            = st.prev * Window + st.curr * Window - Limit * Window + Window
      /\ st.prev * (Window - q) = st.prev * Window - q * st.prev
      /\ st.prev * Window \in Nat /\ st.curr * Window \in Nat /\ q * st.prev \in Nat
  <2>1. PICK p \in Nat, c \in Nat : p = st.prev /\ c = st.curr
    BY <1>1
  <2>2. (p + (c - Limit + 1)) * Window = p * Window + c * Window - Limit * Window + Window
    BY LimitTyped
  <2>3. p * (Window - q) = p * Window - q * p
    BY LimitTyped
  <2>4. p * Window \in Nat /\ c * Window \in Nat /\ q * p \in Nat
    BY LimitTyped
  <2> QED
    BY <2>1, <2>2, <2>3, <2>4
<1>7. st.prev * (Window - q) + st.curr * Window + Window <= Limit * Window
  BY <1>6, LimitTyped
<1>8. Counter!Fits(st, t)
  BY <1>4, <1>7 DEF Counter!Fits, Counter!Estimate
<1> QED
  BY <1>5, <1>8

(* A denied call that waits RetryAfter fits. *)
LEMMA CounterRetries ==
    ASSUME NEW st, Counts(st), NEW r \in Nat, st.window = Counter!CurrentWindow(r),
           ~Counter!Fits(st, r), NEW t, t = r + Counter!RetryAfter(st, r)
    PROVE  Counter!Fits(Counter!Rolled(st, t), t)
<1>0. /\ st.window \in Nat /\ st.curr \in Nat /\ st.prev \in Nat
      /\ st.curr <= Limit /\ st.prev <= Limit /\ (st.prev > 0 => st.curr < Limit)
  BY DEF Counts
<1>1. PICK e \in Nat, b \in Nat : /\ b = st.window * Window /\ e = Counter!Elapsed(r)
                                  /\ e < Window /\ r = b + e
  <2>1. PICK b \in Nat : b = st.window * Window /\ b <= r /\ r < b + Window
                        /\ Counter!Elapsed(r) = r - b
    BY Grid
  <2>2. r - b \in Nat /\ r - b < Window /\ r = b + (r - b)
    BY <2>1, LimitTyped
  <2> QED
    BY <2>1, <2>2
<1>2. PICK over \in Int : over = st.curr - Limit + 1
  BY <1>0, LimitTyped
<1>3. st.prev * (Window - e) + st.curr * Window + Window > Limit * Window
  <2>1. st.prev * (Window - e) + st.curr * Window + Window \in Int
    BY <1>0, LimitTyped
  <2> QED
    BY <1>1, <2>1, LimitTyped DEF Counter!Fits, Counter!Estimate
<1>4. CASE st.prev = 0
  <2>1. 0 * (Window - e) = 0
    BY LimitTyped
  <2>2. st.curr * Window + Window > Limit * Window /\ st.curr * Window \in Nat
    BY <1>0, <1>3, <1>4, <2>1, LimitTyped
  <2>3. st.curr = Limit
    <3>1. Limit >= st.curr + 1 => Limit * Window >= st.curr * Window + Window
      BY <1>0, Starts, LimitTyped
    <3> QED
      BY <1>0, <2>2, <3>1, LimitTyped
  <2>4. over = 1 /\ 1 * Window = Window
    BY <1>2, <2>3, LimitTyped
  <2>5. PICK k \in Nat : k = Counter!CeilMs(Window, Limit) /\ k * Limit >= Window
    BY CeilsMs, LimitTyped
  <2>6. Counter!RetryAfter(st, r) = (Window - e) + k
    <3>1. ~(st.curr = 0 \/ over < 0)
      BY <2>3, <2>4, LimitTyped
    <3> QED
      BY <1>1, <1>2, <1>4, <2>3, <2>4, <2>5, <3>1 DEF Counter!RetryAfter
  <2>7. t = st.window * Window + Window + k
    BY <1>0, <1>1, <2>6, LimitTyped
  <2> QED
    BY <2>3, <2>5, <2>7, RetryFull
<1>5. CASE st.prev > 0
  <2>1. ASSUME Counter!RetryAfter(st, r) = Window - e
        PROVE  Counter!Fits(Counter!Rolled(st, t), t)
    <3>1. t = st.window * Window + Window
      BY <1>0, <1>1, <2>1, LimitTyped
    <3> QED
      BY <1>0, <1>5, <3>1, FitsAtRollover
  <2>2. CASE over >= 0
    <3>1. Counter!RetryAfter(st, r) = Window - e
      BY <1>1, <1>2, <1>5, <2>2 DEF Counter!RetryAfter
    <3> QED
      BY <2>1, <3>1
  <2>3. CASE over < 0
    <3>1. PICK a \in Nat : a = (st.prev + over) * Window
      <4>1. /\ st.prev * (Window - e) = st.prev * Window - st.prev * e
            /\ st.prev * Window \in Nat /\ st.prev * e \in Nat /\ st.curr * Window \in Nat
        <5>1. PICK p \in Nat, c \in Nat : p = st.prev /\ c = st.curr
          BY <1>0
        <5>2. p * (Window - e) = p * Window - p * e
          BY LimitTyped
        <5>3. p * Window \in Nat /\ p * e \in Nat /\ c * Window \in Nat
          BY LimitTyped
        <5> QED
          BY <5>1, <5>2, <5>3
      <4>2. (st.prev + over) * Window = st.prev * Window + over * Window /\ over * Window \in Int
        BY <1>0, LimitTyped
      <4>3. over * Window = st.curr * Window - Limit * Window + Window
        BY <1>0, <1>2, LimitTyped
      <4>4. st.prev * Window + over * Window \in Nat
        BY <1>3, <4>1, <4>2, <4>3, LimitTyped
      <4> QED
        BY <4>2, <4>4
    <3>2. PICK q \in Nat : q = Counter!CeilMs(a, st.prev) /\ q * st.prev >= a
      BY <1>0, <1>5, CeilsMs
    <3>3. CASE q - e > Window - e
      <4>1. Counter!RetryAfter(st, r) = Window - e
        BY <1>1, <1>2, <1>5, <2>3, <3>1, <3>2, <3>3 DEF Counter!RetryAfter
      <4> QED
        BY <2>1, <4>1
    <3>4. CASE ~(q - e > Window - e)
      <4>1. Counter!RetryAfter(st, r) = q - e
        BY <1>1, <1>2, <1>5, <2>3, <3>1, <3>2, <3>4 DEF Counter!RetryAfter
      <4>2. CASE q = Window
        BY <2>1, <4>1, <4>2
      <4>3. CASE q < Window
        <5>1. t = st.window * Window + q
          BY <1>0, <1>1, <4>1
        <5>2. q * st.prev >= (st.prev + (st.curr - Limit + 1)) * Window
          BY <1>2, <3>1, <3>2
        <5> QED
          BY <4>3, <5>1, <5>2, RetryWithin
      <4> QED
        BY <3>4, <4>2, <4>3, LimitTyped
    <3> QED
      BY <3>3, <3>4
  <2> QED
    BY <2>2, <2>3
<1> QED
  BY <1>0, <1>4, <1>5

(* While TIME shows the time, the key outlives the counts it holds. *)
CounterInv ==
    /\ Counts(state)
    /\ algorithm = "counter" /\ steps = 0 =>
          \/ expireAt = -1 /\ \A s \in 0..(time + 1) : Count(tally, s, time) = 0
          \/ \E l \in Nat : /\ expireAt = l + (2 * Window + Margin) /\ l <= clock
                            /\ CounterFits(state, l, tally, time)

LEMMA CounterInvTicks ==
    ASSUME ServerInv, CounterInv, Tallied(tally, time), Tick, UNCHANGED <<state, tally, algorithm>>
    PROVE  CounterInv'
<1>1. /\ clock' = clock + 1 /\ time' = time + 1 /\ time < MaxTime /\ clock \in Nat /\ time \in Nat
      /\ expireAt' = expireAt /\ steps' = steps
  BY TickServes, LimitTyped DEF Tick, ServerInv
<1>2. CASE ~(algorithm = "counter" /\ steps = 0)
  BY <1>1, <1>2 DEF CounterInv
<1>3. PICK f, n, st : f = tally /\ n = time /\ st = state
  OBVIOUS
<1>4. CASE expireAt = -1 /\ \A s \in 0..(time + 1) : Count(tally, s, time) = 0
  <2>1. /\ \A s \in 0..(n + 1) : Count(f, s, n + 1) = Count(f, s, n)
        /\ Count(f, n + 2, n + 1) = 0
    BY <1>1, <1>3, TallyTicks
  <2>2. \A s \in 0..(n + 1 + 1) : s \in 0..(n + 1) \/ s = n + 2
    BY <1>1, <1>3
  <2>3. \A s \in 0..(n + 1 + 1) : Count(f, s, n + 1) = 0
    BY <1>3, <1>4, <2>1, <2>2
  <2> QED
    BY <1>1, <1>3, <1>4, <2>3 DEF CounterInv
<1>5. ASSUME NEW l \in Nat, expireAt = l + (2 * Window + Margin), l <= clock,
             CounterFits(state, l, tally, time)
      PROVE  CounterInv'
  <2>1. CounterFits(st, l, f, n + 1)
    BY <1>1, <1>3, <1>5, CounterTicks DEF CounterInv
  <2>2. l <= clock + 1
    BY <1>1, <1>5
  <2> QED
    BY <1>1, <1>3, <1>5, <2>1, <2>2 DEF CounterInv
<1> QED
  BY <1>2, <1>4, <1>5 DEF CounterInv

(* What the script reads still counts every span that matters. *)
LEMMA ReadFits ==
    ASSUME ServerInv, CounterInv, Tallied(tally, time), algorithm = "counter", steps = 0
    PROVE  CounterFits(Counter!Read, clock, tally, time)
<1>1. PICK f, n, st, c : f = tally /\ n = time /\ st = state /\ c = clock
  OBVIOUS
<1>2. c \in Nat /\ n \in Nat /\ Tallied(f, n) /\ Counts(st)
  BY <1>1, LimitTyped DEF ServerInv, CounterInv
<1>3. PICK w \in Nat : w = Counter!CurrentWindow(c)
  BY <1>2, Grid
<1>4. /\ c > expireAt => Counter!Read = Counter!NoCounts(Counter!CurrentWindow(c))
      /\ ~(c > expireAt) => Counter!Read = Counter!Rolled(st, c)
  BY <1>1 DEF Counter!Read, Counter!Expired
<1>5. CASE expireAt = -1 /\ \A s \in 0..(time + 1) : Count(tally, s, time) = 0
  <2>1. CounterFits(Counter!NoCounts(Counter!CurrentWindow(c)), c, f, n)
    BY <1>1, <1>2, <1>5, CounterStarts
  <2>2. c > expireAt
    BY <1>2, <1>5
  <2> QED
    BY <1>1, <1>4, <2>1, <2>2
<1>6. ASSUME NEW l \in Nat, expireAt = l + (2 * Window + Margin), l <= clock,
             CounterFits(state, l, tally, time)
      PROVE  CounterFits(Counter!Read, clock, tally, time)
  <2>1. l <= c /\ CounterFits(st, l, f, n)
    BY <1>1, <1>6
  <2>2. /\ CounterFits(Counter!Rolled(st, c), c, f, n)
        /\ c > l + 2 * Window => CounterFits(Counter!NoCounts(Counter!CurrentWindow(c)), c, f, n)
    BY <1>2, <2>1, CounterRolls
  <2>3. c > expireAt => c > l + 2 * Window
    BY <1>2, <1>6, LimitTyped
  <2> QED
    BY <1>1, <1>4, <2>2, <2>3
<1> QED
  BY <1>5, <1>6 DEF CounterInv

(* slidingwindowcounter.lua. *)
LEMMA CounterAllows ==
    ASSUME ServerInv, CounterInv, Tallied(tally, time), algorithm = "counter", Counter!Allow,
           algorithm' = algorithm
    PROVE  /\ ServerInv' /\ CounterInv' /\ Tallied(tally', time)
           /\ time' = time /\ clock' = clock
<1>1. PICK f, n, c, st, g, su :
         /\ f = tally /\ n = time /\ c = clock /\ st = Counter!Read
         /\ g = tally' /\ su = state'
  OBVIOUS
<1>2. /\ c \in Nat /\ n \in Nat /\ Tallied(f, n)
      /\ Counts(st) /\ st.window = Counter!CurrentWindow(c)
  BY <1>1, ReadTyped, LimitTyped DEF ServerInv, CounterInv
<1>3. /\ time' = time /\ clock' = clock /\ steps' = steps /\ UNCHANGED serverVars
      /\ expireAt' = clock + (2 * Window + Margin)
      /\ IF Counter!Fits(st, c)
         THEN su = [st EXCEPT !.curr = @ + 1] /\ g = More(f, n, 1)
         ELSE su = st /\ g = f
  BY <1>1 DEF Counter!Allow, Counter!serverVars, serverVars, Counter!Ttl, More
<1>4. steps = 0 => c = Start + n /\ CounterFits(st, c, f, n)
  BY <1>1, ReadFits DEF ServerInv
<1>5. Counts(su) /\ Tallied(g, n) /\ (steps = 0 => CounterFits(su, c, g, n))
  <2>1. CASE Counter!Fits(st, c)
    <3>1. su = [st EXCEPT !.curr = @ + 1] /\ g = More(f, n, 1)
      BY <1>3, <2>1
    <3>2. Counts(su)
      BY <1>2, <2>1, <3>1, CountsMore
    <3>3. PICK k \in Nat : k = 1
      OBVIOUS
    <3>4. Tallied(More(f, n, k), n)
      BY <1>2, TallyMore
    <3>5. steps = 0 => CounterFits(su, c, g, n)
      BY <1>2, <1>4, <2>1, <3>1, CounterTakes
    <3> QED
      BY <3>1, <3>2, <3>3, <3>4, <3>5
  <2>2. CASE ~Counter!Fits(st, c)
    BY <1>2, <1>3, <1>4, <2>2
  <2> QED
    BY <2>1, <2>2
<1>6. expireAt' \in Nat
  BY <1>1, <1>2, <1>3, LimitTyped
<1>7. CounterInv'
  <2>1. steps = 0 => \E l \in Nat : /\ expireAt' = l + (2 * Window + Margin) /\ l <= clock
                                    /\ CounterFits(su, l, g, n)
    <3>1. c <= clock /\ expireAt' = c + (2 * Window + Margin)
      BY <1>1, <1>2, <1>3
    <3> QED
      BY <1>2, <1>5, <3>1
  <2> QED
    BY <1>1, <1>3, <1>5, <2>1 DEF CounterInv
<1> QED
  BY <1>1, <1>3, <1>5, <1>6, <1>7, ServerKept

(* The other scripts never touch the hash. *)
LEMMA CounterUnused ==
    ASSUME CounterInv, algorithm # "counter", UNCHANGED <<state, algorithm>>
    PROVE  CounterInv'
BY DEF CounterInv

LEMMA BucketUnused ==
    ASSUME BucketInv, algorithm # "bucket", UNCHANGED <<bucket, early, time, algorithm>>,
           Tallied(tally', time)
    PROVE  BucketInv'
BY DEF BucketInv

LEMMA CounterNoBurst ==
    ASSUME ServerInv, CounterInv, Tallied(tally, time)
    PROVE  NoBoundaryBurst
<1> SUFFICES ASSUME algorithm = "counter", steps = 0, NEW s \in 0..time, time - s <= Window
             PROVE  Cardinality(Counter!AllowedFrom(s)) * Window <= Limit * (Window + (time - s))
  BY SameCardinality, Zenon DEF NoBoundaryBurst, Counter!NoBoundaryBurst
<1>1. PICK f, n : f = tally /\ n = time
  OBVIOUS
<1>2. Cardinality(Counter!AllowedFrom(s)) = Count(f, s, n)
  BY <1>1 DEF Counter!AllowedFrom, Count, Spent
<1>3. n \in Nat /\ s \in 0..n /\ s \in Nat /\ n - s <= Window /\ Tallied(f, n) /\ s \in 0..(n + 1)
  BY <1>1, LimitTyped DEF ServerInv
<1>4. Count(f, s, n) * Window <= Limit * (Window + (n - s))
  <2>1. CASE expireAt = -1 /\ \A i \in 0..(time + 1) : Count(tally, i, time) = 0
    <3>1. Count(f, s, n) = 0
      BY <1>1, <1>3, <2>1
    <3>2. PICK z \in Nat : z = Window + (n - s)
      <4>1. Window + (n - s) \in Nat
        BY <1>3, LimitTyped
      <4> QED
        BY <4>1
    <3>3. 0 * Window = 0 /\ Limit * z \in Nat
      BY LimitTyped
    <3> QED
      BY <3>1, <3>2, <3>3
  <2>2. ASSUME NEW l \in Nat, l <= clock, CounterFits(state, l, tally, time)
        PROVE  Count(f, s, n) * Window <= Limit * (Window + (n - s))
    <3>1. PICK st : st = state
      OBVIOUS
    <3>2. l <= Start + n /\ Counts(st) /\ CounterFits(st, l, f, n)
      BY <1>1, <2>2, <3>1 DEF ServerInv, CounterInv
    <3> QED
      BY <1>3, <3>2, CounterKeeps
  <2> QED
    BY <2>1, <2>2 DEF CounterInv
<1> QED
  BY <1>1, <1>2, <1>4

LEMMA CounterRetryEnough ==
    ASSUME ServerInv, CounterInv
    PROVE  RetryIsEnough
<1>1. PICK st, c, t : /\ st = Counter!Read /\ c = clock
                      /\ t = c + Counter!RetryAfter(st, c)
  OBVIOUS
<1>2. c \in Nat /\ Counts(st) /\ st.window = Counter!CurrentWindow(c)
  BY <1>1, ReadTyped DEF ServerInv, CounterInv
<1>3. ~Counter!Fits(st, c) => Counter!Fits(Counter!Rolled(st, t), t)
  BY <1>1, <1>2, CounterRetries
<1> QED
  BY <1>1, <1>3 DEF RetryIsEnough, Counter!RetryIsEnough

-----------------------------------------------------------------------------
(* The scripts together: the inductive invariant. *)
RedisInv == ServerInv /\ LogInv /\ BucketInv /\ CounterInv

LEMMA RedisInit == Init => RedisInv
<1> SUFFICES ASSUME Init PROVE RedisInv
  OBVIOUS
<1>1. /\ time = 0 /\ clock = Start /\ steps = 0 /\ expireAt = -1
      /\ bucket = [tokens |-> Limit * Window, ts |-> Start]
      /\ tally = [t \in 0..MaxTime |-> 0] /\ early = [t \in 0..MaxTime |-> 0]
      /\ entries = {} /\ allowed = {} /\ serial = 0
      /\ state = Counter!NoCounts(0)
  BY BucketIs DEF Init, Bucket!Init, Bucket!ServerInit, Log!Init, Counter!Init
<1>2. ServerInv
  BY <1>1, LimitTyped DEF ServerInv
<1>3. LogInv
  BY <1>1, FS_EmptySet, LimitTyped DEF LogInv
<1>4. PICK f, e : f = tally /\ e = early
  OBVIOUS
<1>5. /\ Tallied(f, 0) /\ \A s \in 0..1 : Count(f, s, 0) = 0
      /\ Tallied(e, 0) /\ \A s \in 0..1 : Count(e, s, 0) = 0
  BY <1>1, <1>4, TallyStarts
<1>6. BucketInv
  <2>1. PICK F \in Nat : F = Limit * Window
    BY LimitTyped
  <2>2. Lives(F, Start, -1)
    BY DEF Lives
  <2>3. Level(F, Start, -1, Start) = F
    BY <2>1, LimitTyped DEF Level
  <2>4. BucketFits(F, f, e, 0)
    <3> SUFFICES ASSUME NEW s \in 0..0
                 PROVE  Count(f, s, 0) * Window + F
                           <= Limit * Window + (0 - s + Count(e, s, 0)) * Limit
      BY DEF BucketFits
    <3>1. s = 0 /\ Count(f, s, 0) = 0 /\ Count(e, s, 0) = 0
      BY <1>5
    <3>2. 0 * Window + F <= Limit * Window + (0 - 0 + 0) * Limit
      BY <2>1, LimitTyped
    <3> QED
      BY <3>1, <3>2
  <2>5. bucket \in [tokens : 0..(Limit * Window), ts : Nat] /\ bucket.tokens = F /\ bucket.ts = Start
    BY <1>1, <2>1, LimitTyped
  <2>6. \E o \in Nat : /\ o <= bucket.ts
                       /\ Lives(bucket.tokens, o, expireAt)
                       /\ BucketFits(Level(bucket.tokens, o, expireAt, clock), tally, early, time)
    <3>1. Start \in Nat /\ Start <= Start
      BY LimitTyped
    <3> QED
      BY <1>1, <1>4, <2>2, <2>3, <2>4, <2>5, <3>1
  <2> QED
    BY <1>1, <1>4, <1>5, <2>5, <2>6 DEF BucketInv
<1>7. CounterInv
  <2>1. Counts(state)
    BY <1>1, NoneCounts
  <2>2. \A s \in 0..(time + 1) : Count(tally, s, time) = 0
    BY <1>1, <1>4, <1>5
  <2> QED
    BY <1>1, <2>1, <2>2 DEF CounterInv
<1> QED
  BY <1>2, <1>3, <1>6, <1>7 DEF RedisInv

(* TIME moves on, or is set back. *)
LEMMA TimePasses ==
    ASSUME RedisInv, Tick \/ SetBack,
           UNCHANGED <<bucket, logVars, state, tally, early, algorithm>>
    PROVE  RedisInv'
<1>1. ServerInv /\ LogInv /\ BucketInv /\ CounterInv /\ Tallied(tally, time)
  BY DEF RedisInv, BucketInv
<1>2. CASE Tick
  BY <1>1, <1>2, TickServes, LogTicks, BucketInvTicks, CounterInvTicks DEF RedisInv
<1>3. CASE SetBack
  <2>1. CounterInv'
    BY <1>1, <1>3, SetBackServes DEF CounterInv
  <2> QED
    BY <1>1, <1>3, <2>1, SetBackServes, LogSetBack, BucketInvSetBack DEF RedisInv
<1> QED
  BY <1>2, <1>3

LEMMA RedisStep == RedisInv /\ [Next]_vars => RedisInv'
<1> SUFFICES ASSUME RedisInv, [Next]_vars PROVE RedisInv'
  OBVIOUS
<1>1. ServerInv /\ LogInv /\ BucketInv /\ CounterInv /\ Tallied(tally, time)
  BY DEF RedisInv, BucketInv
<1>2. CASE /\ algorithm = "bucket" /\ Bucket!Next
           /\ UNCHANGED <<logVars, state, algorithm>>
  <2>1. CASE Bucket!Allow
    <3>1. ServerInv' /\ BucketInv'
      BY <1>1, <1>2, <2>1, BucketAllows
    <3>2. time' = time /\ clock' = clock
      BY <2>1 DEF Bucket!Allow, Bucket!serverVars
    <3>3. LogInv' /\ CounterInv'
      BY <1>1, <1>2, <3>2, LogUnused, CounterUnused
    <3> QED
      BY <3>1, <3>3 DEF RedisInv
  <2>2. CASE (Bucket!Tick \/ Bucket!SetBack) /\ UNCHANGED <<bucket, tally, early>>
    <3>1. Tick \/ SetBack
      BY <2>2, SameServer
    <3> QED
      BY <1>2, <2>2, <3>1, TimePasses
  <2> QED
    BY <1>2, <2>1, <2>2 DEF Bucket!Next
<1>3. CASE /\ algorithm = "log" /\ Log!Next
           /\ UNCHANGED <<bucket, state, tally, early, algorithm>>
  <2>1. CASE Log!Allow
    <3>1. ServerInv' /\ LogInv'
      BY <1>1, <1>3, <2>1, LogAllows
    <3>2. time' = time
      BY <2>1 DEF Log!Allow, Log!serverVars
    <3>3. BucketInv' /\ CounterInv'
      BY <1>1, <1>3, <3>2, BucketUnused, CounterUnused
    <3> QED
      BY <3>1, <3>3 DEF RedisInv
  <2>2. CASE (Log!Tick \/ Log!SetBack) /\ UNCHANGED logVars
    <3>1. Tick \/ SetBack
      BY <2>2, SameServer
    <3> QED
      BY <1>3, <2>2, <3>1, TimePasses
  <2> QED
    BY <1>3, <2>1, <2>2 DEF Log!Next, logVars
<1>4. CASE /\ algorithm = "counter" /\ Counter!Next
           /\ UNCHANGED <<bucket, logVars, early, algorithm>>
  <2>1. CASE Counter!Allow
    <3>1. /\ ServerInv' /\ CounterInv' /\ Tallied(tally', time)
          /\ time' = time /\ clock' = clock
      BY <1>1, <1>4, <2>1, CounterAllows
    <3>2. LogInv' /\ BucketInv'
      BY <1>1, <1>4, <3>1, LogUnused, BucketUnused
    <3> QED
      BY <3>1, <3>2 DEF RedisInv
  <2>2. CASE (Counter!Tick \/ Counter!SetBack) /\ UNCHANGED <<state, tally>>
    <3>1. Tick \/ SetBack
      BY <2>2, SameServer
    <3> QED
      BY <1>4, <2>2, <3>1, TimePasses
  <2> QED
    BY <1>4, <2>1, <2>2 DEF Counter!Next
<1>5. CASE UNCHANGED vars
  BY <1>5 DEF RedisInv, ServerInv, LogInv, BucketInv, CounterInv, vars, serverVars, logVars
<1> QED
  BY <1>2, <1>3, <1>4, <1>5 DEF Next

(* The invariant holds throughout. *)
LEMMA RedisHolds == Spec => []RedisInv
BY RedisInit, RedisStep, PTL DEF Spec

(* tokenbucket.lua: over any span of time the requests allowed are paid for by *)
(* a full bucket, what refills meanwhile and what rounding ts refills twice,   *)
(* although the key expires in between and TIME is set back.                   *)
THEOREM RedisBucketThrottles == Spec => []ThrottledToRefill
<1>1. RedisInv => ThrottledToRefill
  BY BucketThrottles DEF RedisInv
<1> QED
  BY <1>1, RedisHolds, PTL

(* slidingwindowlog.lua: no span as long as the window has more requests       *)
(* allowed than the limit, however TIME is set back and whenever the key       *)
(* expires.                                                                    *)
THEOREM RedisLogIsExact == Spec => []CeilingIsExact
<1>1. RedisInv => CeilingIsExact
  BY LogIsExact DEF RedisInv
<1> QED
  BY <1>1, RedisHolds, PTL

(* slidingwindowlog.lua: a denied caller that waits RetryAfter finds a slot,   *)
(* and one that waits ResetAfter finds nothing counted.                        *)
THEOREM RedisLogWaitsAreEnough == Spec => []WaitsAreEnough
<1>1. RedisInv => WaitsAreEnough
  BY LogWaitsEnough DEF RedisInv
<1> QED
  BY <1>1, RedisHolds, PTL

(* slidingwindowcounter.lua: until TIME is set back, a span of at most a       *)
(* window allows the limit and only its share of a second one.                 *)
THEOREM RedisCounterHasNoBurst == Spec => []NoBoundaryBurst
<1>1. RedisInv => NoBoundaryBurst
  BY CounterNoBurst DEF RedisInv, BucketInv
<1> QED
  BY <1>1, RedisHolds, PTL

(* slidingwindowcounter.lua: a denied caller that comes back after RetryAfter  *)
(* is allowed, TIME set back before or not.                                    *)
THEOREM RedisCounterRetryIsEnough == Spec => []RetryIsEnough
<1>1. RedisInv => RetryIsEnough
  BY CounterRetryEnough DEF RedisInv
<1> QED
  BY <1>1, RedisHolds, PTL
=============================================================================
