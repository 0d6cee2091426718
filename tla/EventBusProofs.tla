--------------------------- MODULE EventBusProofs ---------------------------
(***************************************************************************)
(* Proofs about the at-least-once consumer loop, for every set of topics,  *)
(* partitions and orders, and every pattern of handler errors, failed      *)
(* commits, restarts and rebalances.                                       *)
(***************************************************************************)
EXTENDS EventBus, TLAPS

(* The offsets of a partition whose handler has returned. *)
Tried(t, q) == handled[t][q] \cup failed[t][q]

(* The consumer of t is in the handler of offset n of partition q. *)
InHandler(t, q, n) == consumer[t] = Busy(q, n)

(* What a partition's offsets say about what was tried: deliveries leave no   *)
(* gap, the committed offset covers only tried events, and the Reader is past *)
(* no event but the tried ones and the one in the handler.                    *)
NoGap(t, q) ==
    /\ \A n \in Tried(t, q) : 1..n \subseteq Tried(t, q)
    /\ 1..committed[t][q] \subseteq Tried(t, q)
    /\ \A m \in 1..position[t][q] : m \in Tried(t, q) \/ InHandler(t, q, m)
    /\ \A n \in 1..MaxEvents : InHandler(t, q, n) => 1..(n - 1) \subseteq Tried(t, q)

(* Functions and offsets, as TypeOK has them, and that the event in a handler *)
(* is in its log.                                                             *)
Offsets(t, q) ==
    /\ Len(log[t][q]) <= MaxEvents
    /\ position[t][q] <= Len(log[t][q])
    /\ committed[t][q] <= Len(log[t][q])
    /\ handled[t][q] \subseteq 1..Len(log[t][q])
    /\ failed[t][q] \subseteq 1..Len(log[t][q])
    /\ \A n \in 1..MaxEvents : InHandler(t, q, n) => n \in 1..Len(log[t][q])

Consumer(t) ==
    consumer[t] \in {Idle, Stopped} \/ \E q \in Partitions, n \in 1..MaxEvents : InHandler(t, q, n)

Tables ==
    /\ log \in [Topics -> [Partitions -> Seq(Keys)]]
    /\ position \in [Topics -> [Partitions -> Nat]]
    /\ committed \in [Topics -> [Partitions -> Nat]]
    /\ handled \in [Topics -> [Partitions -> SUBSET Nat]]
    /\ failed \in [Topics -> [Partitions -> SUBSET Nat]]
    /\ consumer = [t \in Topics |-> consumer[t]]
    /\ faults \in 0..MaxFaults

(* The inductive invariant.  OnlyFailedIsSkipped is not inductive alone: when *)
(* the handler of n returns, everything before n must be known to be tried.   *)
IndInv ==
    /\ Tables
    /\ \A t \in Topics : Consumer(t)
    /\ \A t \in Topics, q \in Partitions : Offsets(t, q) /\ NoGap(t, q)

(* A consumer is idle, stopped or in the handler of exactly one event. *)
LEMMA OneHandler ==
    /\ Idle # Stopped
    /\ \A q, n : Busy(q, n) # Idle /\ Busy(q, n) # Stopped
    /\ \A q, n, r, m : Busy(q, n) = Busy(r, m) => q = r /\ n = m
    /\ \A q, n : Busy(q, n)[1] = "busy" /\ Busy(q, n)[2] = q /\ Busy(q, n)[3] = n
    /\ Idle[1] # "busy" /\ Stopped[1] # "busy"
BY DEF Idle, Stopped, Busy

(* The event a busy consumer is at. *)
LEMMA BusyAt ==
    ASSUME IndInv, NEW t \in Topics, IsBusy(t)
    PROVE  /\ consumer[t][2] \in Partitions
           /\ consumer[t][3] \in 1..Len(log[t][consumer[t][2]])
           /\ InHandler(t, consumer[t][2], consumer[t][3])
           /\ 1..(consumer[t][3] - 1) \subseteq Tried(t, consumer[t][2])
<1>1. PICK q \in Partitions, n \in 1..MaxEvents : InHandler(t, q, n)
  BY OneHandler DEF IndInv, Consumer, IsBusy
<1>2. consumer[t][2] = q /\ consumer[t][3] = n
  BY <1>1, OneHandler DEF InHandler
<1> QED
  BY <1>1, <1>2 DEF IndInv, Offsets, NoGap

(* The invariant implies the type invariant and that only failures are skipped. *)
LEMMA IndInvImplies == IndInv => TypeOK /\ OnlyFailedIsSkipped
<1> SUFFICES ASSUME IndInv PROVE TypeOK /\ OnlyFailedIsSkipped
  OBVIOUS
<1>1. TypeOK
  BY DEF IndInv, Tables, Consumer, Offsets, TypeOK, InHandler
<1>2. OnlyFailedIsSkipped
  BY DEF IndInv, NoGap, Tried, OnlyFailedIsSkipped
<1> QED
  BY <1>1, <1>2

(* Empty logs, nothing fetched, nothing committed. *)
LEMMA BusStart == Init => IndInv
<1> SUFFICES ASSUME Init PROVE IndInv
  OBVIOUS
<1>1. Tables
  BY BusAssumption DEF Init, BusInit, Tables
<1>2. \A t \in Topics : consumer[t] = Idle
  BY DEF Init, BusInit
<1>3. ASSUME NEW t \in Topics, NEW q \in Partitions
      PROVE  Offsets(t, q) /\ NoGap(t, q)
  <2>1. /\ log[t][q] = <<>> /\ position[t][q] = 0 /\ committed[t][q] = 0
        /\ handled[t][q] = {} /\ failed[t][q] = {}
    BY DEF Init, BusInit
  <2>2. \A n : ~InHandler(t, q, n)
    BY <1>2, OneHandler DEF InHandler
  <2> QED
    BY <2>1, <2>2, BusAssumption DEF Offsets, NoGap, Tried
<1> QED
  BY <1>1, <1>2, <1>3 DEF IndInv, Consumer

(* One entry of a table by topic and partition is replaced. *)
LEMMA EntryReplaced ==
    ASSUME NEW S, NEW f \in [Topics -> [Partitions -> S]],
           NEW t \in Topics, NEW q \in Partitions, NEW x \in S
    PROVE  LET g == [f EXCEPT ![t][q] = x]
           IN  /\ g \in [Topics -> [Partitions -> S]]
               /\ g[t][q] = x
               /\ \A u \in Topics, r \in Partitions : u # t \/ r # q => g[u][r] = f[u][r]
OBVIOUS

(* A partition that a step leaves alone keeps its part of the invariant. *)
LEMMA OtherPartition ==
    ASSUME IndInv, NEW t \in Topics, NEW q \in Partitions,
           log'[t][q] = log[t][q], position'[t][q] = position[t][q],
           committed'[t][q] = committed[t][q],
           handled'[t][q] = handled[t][q], failed'[t][q] = failed[t][q],
           \A n : consumer'[t] = Busy(q, n) <=> consumer[t] = Busy(q, n)
    PROVE  Offsets(t, q)' /\ NoGap(t, q)'
<1>1. \A n : InHandler(t, q, n)' <=> InHandler(t, q, n)
  BY DEF InHandler
<1>2. Tried(t, q)' = Tried(t, q)
  BY DEF Tried
<1>3. Offsets(t, q) /\ NoGap(t, q) /\ position[t][q] \in Nat
  BY DEF IndInv, Tables
<1>4. Offsets(t, q)'
  BY <1>1, <1>3 DEF Offsets
<1>5. NoGap(t, q)'
  BY <1>1, <1>2, <1>3 DEF NoGap
<1> QED
  BY <1>4, <1>5

(* An event is appended: offsets stay within their logs. *)
LEMMA PublishKeeps ==
    ASSUME IndInv, NEW t \in Topics, NEW k \in Keys, Publish(t, k), faults' \in 0..MaxFaults
    PROVE  IndInv'
<1> DEFINE p == Hash[k]
<1>1. p \in Partitions
  BY BusAssumption
<1>2. log[t][p] \in Seq(Keys) /\ log'[t][p] = Append(log[t][p], k)
      /\ Len(log[t][p]) < MaxEvents
  BY <1>1 DEF IndInv, Tables, Publish
<1>3. Tables'
  BY <1>1, <1>2 DEF IndInv, Tables, Publish
<1>4. \A u \in Topics : Consumer(u)'
  BY DEF IndInv, Consumer, InHandler, Publish
<1>5. ASSUME NEW u \in Topics, NEW q \in Partitions
      PROVE  Offsets(u, q)' /\ NoGap(u, q)'
  <2>1. CASE u = t /\ q = p
    <3>1. Len(log'[u][q]) = Len(log[u][q]) + 1 /\ Len(log[u][q]) \in Nat
      <4>1. PICK s \in Seq(Keys) : s = log[t][p]
        BY <1>2
      <4>2. Len(Append(s, k)) = Len(s) + 1 /\ Len(s) \in Nat
        OBVIOUS
      <4> QED
        BY <1>2, <2>1, <4>1, <4>2
    <3>2. /\ position' = position /\ committed' = committed /\ consumer' = consumer
          /\ handled' = handled /\ failed' = failed
      BY DEF Publish
    <3>3. Offsets(u, q) /\ NoGap(u, q)
      BY DEF IndInv
    <3>4. NoGap(u, q)'
      BY <3>2, <3>3 DEF NoGap, Tried, InHandler
    <3>5. position[u][q] \in Nat /\ committed[u][q] \in Nat
      BY DEF IndInv, Tables
    <3>6. Offsets(u, q)'
      <4>1. Len(log'[u][q]) <= MaxEvents
        BY <1>2, <2>1, <3>1, BusAssumption
      <4>2. PICK l \in Nat : l = Len(log[u][q]) /\ Len(log'[u][q]) = l + 1
        BY <3>1
      <4>3. /\ position'[u][q] <= l + 1 /\ committed'[u][q] <= l + 1
        BY <3>2, <3>3, <3>5, <4>2 DEF Offsets
      <4>4. /\ handled'[u][q] \subseteq 1..(l + 1) /\ failed'[u][q] \subseteq 1..(l + 1)
        BY <3>2, <3>3, <4>2 DEF Offsets
      <4>5. \A n \in 1..MaxEvents : InHandler(u, q, n)' => n \in 1..(l + 1)
        BY <3>2, <3>3, <4>2 DEF Offsets, InHandler
      <4> QED
        BY <4>1, <4>2, <4>3, <4>4, <4>5 DEF Offsets
    <3> QED
      BY <3>4, <3>6
  <2>2. CASE ~(u = t /\ q = p)
    <3>1. log'[u][q] = log[u][q]
      BY <1>1, <2>2 DEF IndInv, Tables, Publish
    <3> QED
      BY <3>1, OtherPartition DEF Publish
  <2> QED
    BY <2>1, <2>2
<1> QED
  BY <1>3, <1>4, <1>5 DEF IndInv

(* A fetch: everything before the event was tried, since nobody was busy. *)
LEMMA FetchKeeps ==
    ASSUME IndInv, NEW t \in Topics, NEW p \in Partitions, Fetch(t, p), faults' \in 0..MaxFaults
    PROVE  IndInv'
<1> DEFINE n == position[t][p] + 1
<1>1. /\ log[t][p] \in Seq(Keys) /\ Len(log[t][p]) \in Nat /\ position[t][p] \in Nat
      /\ n \in 1..Len(log[t][p]) /\ n \in 1..MaxEvents
  <2>1. /\ log[t][p] \in Seq(Keys) /\ position[t][p] \in Nat /\ Len(log[t][p]) <= MaxEvents
    BY DEF IndInv, Tables, Offsets
  <2>2. PICK l \in Nat : l = Len(log[t][p])
    BY <2>1
  <2>3. position[t][p] < l
    BY <2>2 DEF Fetch
  <2> QED
    BY <2>1, <2>2, <2>3, BusAssumption
<1>2. /\ consumer' = [consumer EXCEPT ![t] = Busy(p, n)]
      /\ position' = [position EXCEPT ![t][p] = n]
      /\ consumer[t] = Idle
      /\ UNCHANGED <<log, committed, handled, failed>>
      /\ position' \in [Topics -> [Partitions -> Nat]]
      /\ position'[t][p] = n
      /\ \A u \in Topics, r \in Partitions : u # t \/ r # p => position'[u][r] = position[u][r]
  BY <1>1, EntryReplaced DEF Fetch, IndInv, Tables
<1> HIDE DEF n
<1>3. Tables' /\ consumer'[t] = Busy(p, n) /\ (\A u \in Topics \ {t} : consumer'[u] = consumer[u])
  BY <1>1, <1>2 DEF IndInv, Tables
<1>4. \A u \in Topics : Consumer(u)'
  BY <1>1, <1>3 DEF IndInv, Consumer, InHandler
<1>5. ASSUME NEW u \in Topics, NEW q \in Partitions
      PROVE  Offsets(u, q)' /\ NoGap(u, q)'
  <2>1. CASE u = t /\ q = p
    <3>1. Offsets(t, p) /\ NoGap(t, p)
      BY DEF IndInv
    <3>2. \A m : InHandler(t, p, m)' <=> m = n
      BY <1>3, OneHandler DEF InHandler
    <3>3. position'[t][p] = n /\ Tried(t, p)' = Tried(t, p)
      BY <1>2 DEF IndInv, Tables, Tried
    <3>4. 1..(n - 1) \subseteq Tried(t, p)
      <4>1. \A m : ~InHandler(t, p, m)
        BY <1>2, OneHandler DEF InHandler
      <4> QED
        BY <1>1, <3>1, <4>1 DEF NoGap, n
    <3>5. NoGap(t, p)'
      BY <1>1, <1>2, <3>1, <3>2, <3>3, <3>4 DEF NoGap
    <3>6. Offsets(t, p)'
      BY <1>1, <1>2, <3>1, <3>2, <3>3 DEF Offsets
    <3> QED
      BY <2>1, <3>5, <3>6
  <2>2. CASE u = t /\ q # p
    <3>1. \A m : ~(consumer'[u] = Busy(q, m)) /\ ~(consumer[u] = Busy(q, m))
      BY <1>2, <1>3, <2>2, OneHandler
    <3>2. position'[u][q] = position[u][q]
      BY <1>2, <2>2 DEF IndInv, Tables
    <3> QED
      BY <1>2, <3>1, <3>2, OtherPartition
  <2>3. CASE u # t
    <3>1. position'[u][q] = position[u][q]
      BY <1>2, <2>3 DEF IndInv, Tables
    <3> QED
      BY <1>2, <1>3, <2>3, <3>1, OtherPartition
  <2> QED
    BY <2>1, <2>2, <2>3
<1> QED
  BY <1>3, <1>4, <1>5 DEF IndInv

(* The handler of an event returns, whatever it answers: the event is tried,  *)
(* and if its offset is committed, so is everything before it.                *)
LEMMA ReturnKeeps ==
    ASSUME IndInv, NEW t \in Topics, IsBusy(t), NEW p, NEW n,
           p = consumer[t][2], n = consumer[t][3],
           consumer' = [consumer EXCEPT ![t] = Idle],
           \/ handled' = [handled EXCEPT ![t][p] = @ \cup {n}] /\ failed' = failed
           \/ failed' = [failed EXCEPT ![t][p] = @ \cup {n}] /\ handled' = handled,
           committed' = committed \/ committed' = [committed EXCEPT ![t][p] = n],
           UNCHANGED <<log, position>>, faults' \in 0..MaxFaults
    PROVE  IndInv'
<1>1. /\ p \in Partitions /\ n \in 1..Len(log[t][p]) /\ InHandler(t, p, n)
      /\ 1..(n - 1) \subseteq Tried(t, p)
  BY BusyAt
<1>2. /\ log[t][p] \in Seq(Keys) /\ Len(log[t][p]) \in Nat /\ n \in Nat
      /\ position[t][p] \in Nat /\ committed[t][p] \in Nat
  BY <1>1 DEF IndInv, Tables
<1>3. consumer'[t] = Idle /\ (\A u \in Topics \ {t} : consumer'[u] = consumer[u])
  BY DEF IndInv, Tables
<1>4. /\ handled' \in [Topics -> [Partitions -> SUBSET Nat]]
      /\ failed' \in [Topics -> [Partitions -> SUBSET Nat]]
      /\ committed' \in [Topics -> [Partitions -> Nat]]
      /\ handled'[t][p] \subseteq handled[t][p] \cup {n}
      /\ failed'[t][p] \subseteq failed[t][p] \cup {n}
      /\ handled'[t][p] \cup failed'[t][p] = handled[t][p] \cup failed[t][p] \cup {n}
      /\ committed'[t][p] \in {committed[t][p], n}
      /\ \A u \in Topics, r \in Partitions : u # t \/ r # p =>
            /\ handled'[u][r] = handled[u][r] /\ failed'[u][r] = failed[u][r]
            /\ committed'[u][r] = committed[u][r]
  <2>1. /\ handled \in [Topics -> [Partitions -> SUBSET Nat]]
        /\ failed \in [Topics -> [Partitions -> SUBSET Nat]]
        /\ committed \in [Topics -> [Partitions -> Nat]]
        /\ handled[t][p] \cup {n} \in SUBSET Nat /\ failed[t][p] \cup {n} \in SUBSET Nat
    BY <1>1, <1>2 DEF IndInv, Tables
  <2>2. /\ committed' \in [Topics -> [Partitions -> Nat]]
        /\ committed'[t][p] \in {committed[t][p], n}
        /\ \A u \in Topics, r \in Partitions : u # t \/ r # p => committed'[u][r] = committed[u][r]
    <3>1. CASE committed' = committed
      BY <1>1, <2>1, <3>1
    <3>2. CASE committed' = [committed EXCEPT ![t][p] = n]
      BY <1>1, <1>2, <2>1, <3>2, EntryReplaced
    <3> QED
      BY <3>1, <3>2
  <2>3. CASE handled' = [handled EXCEPT ![t][p] = @ \cup {n}] /\ failed' = failed
    <3>1. /\ handled' \in [Topics -> [Partitions -> SUBSET Nat]]
          /\ handled'[t][p] = handled[t][p] \cup {n}
          /\ \A u \in Topics, r \in Partitions : u # t \/ r # p => handled'[u][r] = handled[u][r]
      BY <1>1, <2>1, <2>3, EntryReplaced
    <3> QED
      BY <2>1, <2>2, <2>3, <3>1
  <2>4. CASE failed' = [failed EXCEPT ![t][p] = @ \cup {n}] /\ handled' = handled
    <3>1. /\ failed' \in [Topics -> [Partitions -> SUBSET Nat]]
          /\ failed'[t][p] = failed[t][p] \cup {n}
          /\ \A u \in Topics, r \in Partitions : u # t \/ r # p => failed'[u][r] = failed[u][r]
      BY <1>1, <2>1, <2>4, EntryReplaced
    <3> QED
      BY <2>1, <2>2, <2>4, <3>1
  <2> QED
    BY <2>3, <2>4
<1>5. Tables'
  BY <1>4 DEF IndInv, Tables
<1>6. \A u \in Topics : Consumer(u)'
  BY <1>3 DEF IndInv, Consumer, InHandler
<1>7. ASSUME NEW u \in Topics, NEW q \in Partitions
      PROVE  Offsets(u, q)' /\ NoGap(u, q)'
  <2>1. CASE u = t /\ q = p
    <3>1. Offsets(t, p) /\ NoGap(t, p)
      BY <1>1 DEF IndInv
    <3>2. \A m : ~InHandler(t, p, m)'
      BY <1>3, OneHandler DEF InHandler
    <3>3. \A m : InHandler(t, p, m) => m = n
      <4>1. consumer[t] = Busy(p, n)
        BY <1>1 DEF InHandler
      <4>2. \A m : Busy(p, n) = Busy(p, m) => m = n
        BY OneHandler
      <4> QED
        BY <4>1, <4>2 DEF InHandler
    <3>4. Tried(t, p)' = Tried(t, p) \cup {n}
      BY <1>4 DEF Tried
    <3>5. committed'[t][p] \in {committed[t][p], n} /\ position'[t][p] = position[t][p]
      BY <1>4
    <3>6. 1..n \subseteq Tried(t, p)'
      BY <1>1, <1>2, <3>4
    <3>7. NoGap(t, p)'
      BY <1>2, <3>1, <3>2, <3>3, <3>4, <3>5, <3>6 DEF NoGap
    <3>8. Offsets(t, p)'
      <4>1. log'[t][p] = log[t][p] /\ committed'[t][p] <= Len(log[t][p])
        <5>1. committed[t][p] <= Len(log[t][p])
          BY <3>1 DEF Offsets
        <5>2. n <= Len(log[t][p])
          BY <1>1, <1>2
        <5> QED
          BY <3>5, <5>1, <5>2
      <4>2. handled'[t][p] \subseteq 1..Len(log[t][p]) /\ failed'[t][p] \subseteq 1..Len(log[t][p])
        BY <1>1, <1>4, <3>1 DEF Offsets
      <4> QED
        BY <3>1, <3>2, <3>5, <4>1, <4>2 DEF Offsets
    <3> QED
      BY <2>1, <3>7, <3>8
  <2>2. CASE ~(u = t /\ q = p)
    <3>1. \A m : consumer'[u] = Busy(q, m) <=> consumer[u] = Busy(q, m)
      <4>1. CASE u # t
        BY <1>3, <4>1
      <4>2. CASE u = t /\ q # p
        <5>1. \A m : consumer[t] # Busy(q, m)
          <6>1. consumer[t] = Busy(p, n)
            BY <1>1 DEF InHandler
          <6>2. \A m : Busy(p, n) = Busy(q, m) => p = q
            BY OneHandler
          <6> QED
            BY <4>2, <6>1, <6>2
        <5>2. \A m : consumer'[t] # Busy(q, m)
          BY <1>3, OneHandler
        <5> QED
          BY <4>2, <5>1, <5>2
      <4> QED
        BY <2>2, <4>1, <4>2
    <3> QED
      BY <1>4, <2>2, <3>1, OtherPartition
  <2> QED
    BY <2>1, <2>2
<1> QED
  BY <1>5, <1>6, <1>7 DEF IndInv

(* A generation starts at the committed offsets, in some topics with a new    *)
(* process and in others with the old handler still running.                  *)
LEMMA GenerationKeeps ==
    ASSUME IndInv, Tables', UNCHANGED <<log, committed, handled, failed>>,
           \A t \in Topics : /\ position'[t] \in {position[t], committed[t]}
                             /\ \/ consumer'[t] = consumer[t]
                                \/ consumer'[t] = Stopped /\ consumer[t] = Idle
                                \/ consumer'[t] = Idle /\ position'[t] = committed[t]
    PROVE  IndInv'
<1>1. \A t \in Topics : Consumer(t)'
  BY DEF IndInv, Consumer, InHandler
<1>2. ASSUME NEW t \in Topics, NEW q \in Partitions
      PROVE  Offsets(t, q)' /\ NoGap(t, q)'
  <2>1. Offsets(t, q) /\ NoGap(t, q)
    BY DEF IndInv
  <2>2. position'[t][q] \in {position[t][q], committed[t][q]}
        /\ committed[t][q] \in Nat /\ position[t][q] \in Nat
    <3>1. committed[t][q] \in Nat /\ position[t][q] \in Nat
      BY DEF IndInv, Tables
    <3>2. position'[t] \in {position[t], committed[t]}
      OBVIOUS
    <3> QED
      BY <3>1, <3>2
  <2>3. \A n : InHandler(t, q, n)' => InHandler(t, q, n)
    <3>1. consumer'[t] = consumer[t] \/ consumer'[t] \in {Idle, Stopped}
      OBVIOUS
    <3>2. \A n : Busy(q, n) \notin {Idle, Stopped}
      BY OneHandler
    <3> QED
      BY <3>1, <3>2 DEF InHandler
  <2>4. \/ \A n : InHandler(t, q, n)' <=> InHandler(t, q, n)
        \/ position'[t][q] = committed[t][q]
    BY OneHandler DEF InHandler
  <2>5. Offsets(t, q)'
    BY <2>1, <2>2, <2>3 DEF Offsets
  <2>6. Tried(t, q)' = Tried(t, q)
    BY DEF Tried
  <2>7. \A m \in 1..position'[t][q] : m \in Tried(t, q) \/ InHandler(t, q, m)'
    BY <2>1, <2>2, <2>4 DEF NoGap
  <2>8. NoGap(t, q)'
    BY <2>1, <2>3, <2>6, <2>7 DEF NoGap
  <2> QED
    BY <2>5, <2>8
<1> QED
  BY <1>1, <1>2 DEF IndInv

(* Every operation of the broker and of the consumers' loop keeps the         *)
(* inductive invariant, whichever topics a process that restarts consumes.    *)
Operation ==
    \/ \E t \in Topics, k \in Keys : Publish(t, k)
    \/ \E t \in Topics, q \in Partitions : Fetch(t, q)
    \/ \E t \in Topics : \/ HandleAndCommit(t) \/ HandleCommitFails(t) \/ HandlerFails(t)
                         \/ FetchFails(t) \/ Rebalance(t)
    \/ \E ts \in SUBSET Topics : Restart(ts)
    \/ UNCHANGED busVars

LEMMA OperationKeeps ==
    ASSUME IndInv, Operation, faults' \in 0..MaxFaults
    PROVE  IndInv'
<1>1. ASSUME NEW t \in Topics, NEW k \in Keys, Publish(t, k) PROVE IndInv'
  BY <1>1, PublishKeeps
<1>2. ASSUME NEW t \in Topics, NEW q \in Partitions, Fetch(t, q) PROVE IndInv'
  BY <1>2, FetchKeeps
<1>3. ASSUME NEW t \in Topics, HandleAndCommit(t) PROVE IndInv'
  BY <1>3, ReturnKeeps DEF HandleAndCommit
<1>4. ASSUME NEW t \in Topics, HandleCommitFails(t) PROVE IndInv'
  BY <1>4, ReturnKeeps DEF HandleCommitFails
<1>5. ASSUME NEW t \in Topics, HandlerFails(t) PROVE IndInv'
  BY <1>5, ReturnKeeps DEF HandlerFails
<1>6. ASSUME NEW t \in Topics, FetchFails(t) PROVE IndInv'
  <2>1. Tables'
    BY <1>6 DEF FetchFails, IndInv, Tables
  <2> QED
    BY <1>6, <2>1, GenerationKeeps DEF FetchFails, IndInv, Tables
<1>7. ASSUME NEW ts \in SUBSET Topics, Restart(ts) PROVE IndInv'
  <2>1. Tables'
    BY <1>7 DEF Restart, IndInv, Tables
  <2> QED
    BY <1>7, <2>1, GenerationKeeps DEF Restart
<1>8. ASSUME NEW t \in Topics, Rebalance(t) PROVE IndInv'
  <2>1. Tables'
    BY <1>8 DEF Rebalance, IndInv, Tables
  <2> QED
    BY <1>8, <2>1, GenerationKeeps DEF Rebalance, IndInv, Tables
<1>9. CASE UNCHANGED busVars
  <2>1. Tables'
    BY <1>9 DEF busVars, IndInv, Tables
  <2> QED
    BY <1>9, <2>1, GenerationKeeps DEF busVars
<1> QED
  BY <1>1, <1>2, <1>3, <1>4, <1>5, <1>6, <1>7, <1>8, <1>9 DEF Operation

LEMMA BusStep == IndInv /\ [Next]_vars => IndInv'
<1> SUFFICES ASSUME IndInv, [Next]_vars PROVE IndInv'
  OBVIOUS
<1>1. faults' \in 0..MaxFaults
  <2>1. UNCHANGED faults \/ \E kind \in FaultKinds : Fault(kind)
    BY DEF Next, vars, Fault
  <2> QED
    BY <2>1, BusAssumption DEF Fault, IndInv, Tables
<1>2. Operation
  BY DEF Next, vars, Operation
<1> QED
  BY <1>1, <1>2, OperationKeeps

(* The inductive invariant holds in every reachable state. *)
LEMMA BusIndInv == Spec => []IndInv
BY BusStart, BusStep, PTL DEF Spec

(* Offsets stay within their logs and a consumer is at one of Run's steps. *)
THEOREM BusTypeCorrect == Spec => []TypeOK
BY BusIndInv, IndInvImplies, PTL

(* The comment on Run, "a crash between fetch and commit redelivers the       *)
(* message": the committed offset never covers an event whose handler has not *)
(* returned, so no restart or rebalance skips one.                            *)
THEOREM BusSkipsOnlyFailed == Spec => []OnlyFailedIsSkipped
BY BusIndInv, IndInvImplies, PTL

(* Every event is in the partition its key hashes to. *)
Keyed == \A t \in Topics, q \in Partitions : \A n \in 1..Len(log[t][q]) : Hash[log[t][q][n]] = q

(* Only Publish writes to a log, and it goes by the key. *)
LEMMA KeyedStep == IndInv /\ Keyed /\ [Next]_vars => Keyed'
<1> SUFFICES ASSUME IndInv, Keyed, [Next]_vars PROVE Keyed'
  OBVIOUS
<1>1. ASSUME NEW t \in Topics, NEW k \in Keys, Publish(t, k) PROVE Keyed'
  <2> SUFFICES ASSUME NEW u \in Topics, NEW q \in Partitions, NEW n \in 1..Len(log'[u][q])
               PROVE  Hash[log'[u][q][n]] = q
    BY DEF Keyed
  <2>1. Hash[k] \in Partitions /\ log[t][Hash[k]] \in Seq(Keys)
    BY BusAssumption DEF IndInv, Tables
  <2>2. CASE u = t /\ q = Hash[k]
    <3>1. log'[u][q] = Append(log[u][q], k)
      BY <1>1, <2>1, <2>2 DEF Publish, IndInv, Tables
    <3>2. PICK s \in Seq(Keys) : s = log[u][q]
      BY <2>1, <2>2
    <3>3. n \in 1..(Len(s) + 1) /\ Len(s) \in Nat /\ Append(s, k)[n] = IF n = Len(s) + 1 THEN k ELSE s[n]
      BY <3>1, <3>2
    <3> QED
      BY <2>2, <3>1, <3>2, <3>3 DEF Keyed
  <2>3. CASE ~(u = t /\ q = Hash[k])
    <3>1. log'[u][q] = log[u][q]
      BY <1>1, <2>1, <2>3 DEF Publish, IndInv, Tables
    <3> QED
      BY <3>1 DEF Keyed
  <2> QED
    BY <2>2, <2>3
<1>2. CASE log' = log
  BY <1>2 DEF Keyed
<1>3. log' = log \/ \E t \in Topics, k \in Keys : Publish(t, k)
  BY DEF Next, vars, busVars, Fetch, HandleAndCommit, HandleCommitFails, HandlerFails, FetchFails,
         Restart, Rebalance
<1> QED
  BY <1>1, <1>2, <1>3

(* One partition by the key, and no gap in it. *)
LEMMA KeyedInOrder == IndInv /\ Keyed => TriedInOrder
<1> SUFFICES ASSUME IndInv, Keyed, NEW t \in Topics, NEW q \in Partitions, NEW r \in Partitions,
                    NEW n \in Tried(t, q), NEW m \in 1..Len(log[t][r]), log[t][r][m] = log[t][q][n]
             PROVE  r = q /\ (m < n => m \in Tried(t, q))
  BY DEF TriedInOrder, Tried
<1>1. n \in 1..Len(log[t][q]) /\ 1..n \subseteq Tried(t, q)
  BY DEF IndInv, Offsets, NoGap, Tried
<1>2. Hash[log[t][q][n]] = q /\ Hash[log[t][r][m]] = r
  BY <1>1 DEF Keyed
<1>3. log[t][q] \in Seq(Keys) /\ log[t][r] \in Seq(Keys)
  BY DEF IndInv, Tables
<1> QED
  BY <1>1, <1>2, <1>3

(* The events of one order are all in one partition and are first handled in  *)
(* the order they were published, through restarts and rebalances.            *)
THEOREM BusKeepsOrder == Spec => []TriedInOrder
<1>1. Init => Keyed
  BY DEF Init, BusInit, Keyed
<1> QED
  BY <1>1, BusIndInv, KeyedStep, KeyedInOrder, PTL DEF Spec
=============================================================================
