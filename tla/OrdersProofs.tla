---------------------------- MODULE OrdersProofs ----------------------------
(***************************************************************************)
(* Proofs about the orders service, for every cart, every set of handlers  *)
(* that overlap and every pattern of failed and unanswered calls, clients  *)
(* that leave and crashes.                                                 *)
(*                                                                         *)
(* The invariant takes as a parameter which outcomes an order may be told: *)
(* alone, the constant Outcomes; in the saga, what payment has recorded.   *)
(***************************************************************************)
EXTENDS Orders, FiniteSetTheorems, TLAPS

Decisions == {D \in [OrderIds -> SUBSET {"succeeded", "failed"}] :
                 \A o \in OrderIds : ~("succeeded" \in D[o] /\ "failed" \in D[o])}

RequestSteps == {"new", "reserve", "release", "record", "publish", "done", "dead"}

Codes == {0, 201, 400, 409, 500, 502}

RequestRecords ==
    [pc : RequestSteps, todo : SUBSET Products, held : SUBSET Products, code : Codes]

SettlerSteps == {"idle", "load", "lines", "status", "ok", "error"}

Verdicts == {"none", "succeeded", "failed"}

SettlerRecords ==
    [pc : SettlerSteps, order : OrderIds \cup {"none"}, verdict : Verdicts, todo : SUBSET Products]

(* Types, as in TypeOK but for the faults, which the saga counts its own way. *)
Types ==
    /\ Catalog!TypeOK
    /\ orders \in [OrderIds -> OrderStatuses \cup {"none"}]
    /\ request \in [OrderIds -> RequestRecords]
    /\ gone \subseteq OrderIds
    /\ submitted \subseteq OrderIds
    /\ settler \in [Settlers -> SettlerRecords]

(* A line is held in full or not at all, and createOrder's step says which     *)
(* lines are: none at first, those it lists as held while it reserves, all of  *)
(* them when it records and publishes.  An order that is submitted has         *)
(* answered; one that is not has sold nothing and has no outcome.              *)
RequestKnows(o) ==
    LET r == request[o]
    IN  /\ \A p \in Products : reservations[o][p] \in {0, Cart[o][p]}
        /\ IF o \in submitted
           THEN r.pc = "done" /\ orders[o] # "none"
           ELSE orders[o] \in {"none", "pending"} /\ \A p \in Products : sold[o][p] = 0
        /\ r.pc \in {"new", "reserve", "record"} => orders[o] = "none"
        /\ r.pc = "new" => r.held = {} /\ \A p \in Products : reservations[o][p] = 0
        /\ r.pc = "reserve" =>
              /\ r.todo \subseteq Lines(o)
              /\ r.held = Lines(o) \ r.todo
              /\ \A p \in Products : reservations[o][p] = IF p \in r.held THEN Cart[o][p] ELSE 0
        /\ r.pc = "record" => r.held = Lines(o)
        /\ r.pc = "publish" => orders[o] = "pending"
        /\ r.pc \in {"record", "publish"} => \A p \in Products : reservations[o][p] = Cart[o][p]

(* Stock of a submitted order is consumed only for a success and given back    *)
(* only for a failure; a terminal order has none left to settle.               *)
OrderKnows(o, D) ==
    /\ o \in submitted => \A p \in Products :
          /\ "succeeded" \notin D[o] => sold[o][p] = 0
          /\ "failed" \notin D[o] => sold[o][p] + reservations[o][p] = Cart[o][p]
    /\ orders[o] = "confirmed" =>
          "succeeded" \in D[o] /\ \A p \in Products : sold[o][p] = Cart[o][p] /\ reservations[o][p] = 0
    /\ orders[o] = "cancelled" =>
          "failed" \in D[o] /\ \A p \in Products : sold[o][p] = 0 /\ reservations[o][p] = 0

(* A saga handler works on a submitted order for an outcome it may be told,    *)
(* and the lines it has left behind hold nothing.                              *)
SettlerKnows(w, D) ==
    LET o == settler[w].order
    IN  settler[w].pc # "idle" =>
          /\ o \in submitted
          /\ settler[w].verdict \in D[o]
          /\ settler[w].todo \subseteq Lines(o)
          /\ settler[w].pc = "lines" => \A p \in Lines(o) \ settler[w].todo : reservations[o][p] = 0
          /\ settler[w].pc = "status" => \A p \in Lines(o) : reservations[o][p] = 0

OrderInv(D) ==
    /\ Types
    /\ \A o \in OrderIds : RequestKnows(o) /\ OrderKnows(o, D)
    /\ \A w \in Settlers : SettlerKnows(w, D)

-----------------------------------------------------------------------------
(* The quantities of the tables are numbers, as the cart's are. *)
LEMMA Quantities ==
    ASSUME Types
    PROVE  \A o \in OrderIds, p \in Products :
              /\ reservations[o][p] \in 0..MaxInt /\ sold[o][p] \in Nat
              /\ Cart[o][p] \in 0..MaxInt /\ MaxInt \in Nat
              /\ (p \in Lines(o) => Cart[o][p] > 0) /\ (p \notin Lines(o) => Cart[o][p] = 0)
<1>1. \A o \in OrderIds, p \in Products : reservations[o][p] \in 0..MaxInt /\ sold[o][p] \in Nat
  BY DEF Types, Catalog!TypeOK, Catalog!PerLine
<1>2. \A o \in OrderIds, p \in Products : Cart[o][p] \in 0..MaxInt /\ MaxInt \in Nat
  BY OrdersAssumption
<1> QED
  BY <1>1, <1>2 DEF Lines

(* Nothing is held, recorded or submitted at first. *)
LEMMA OrdersStart ==
    ASSUME OrdersInit, NEW D \in Decisions
    PROVE  OrderInv(D)
<1>1. Catalog!TypeOK
  <2>1. products \subseteq Products /\ stock \in [Products -> 0..MaxInt]
        /\ supplied \in [Products -> 0..MaxSupply]
    BY OrdersAssumption DEF OrdersInit
  <2> QED
    BY <2>1, OrdersAssumption DEF OrdersInit, Catalog!TypeOK, Catalog!PerLine
<1>2. Types
  BY <1>1 DEF OrdersInit, Types, OrderStatuses, RequestRecords, RequestSteps, Codes, SettlerRecords,
           SettlerSteps, Verdicts, Idle
<1>3. ASSUME NEW o \in OrderIds PROVE RequestKnows(o) /\ OrderKnows(o, D)
  BY DEF OrdersInit, RequestKnows, OrderKnows
<1>4. \A w \in Settlers : SettlerKnows(w, D)
  BY DEF OrdersInit, SettlerKnows, Idle
<1> QED
  BY <1>2, <1>3, <1>4 DEF OrderInv

(* What a successful Reserve does to a line that has no row. *)
LEMMA ReserveEffect ==
    ASSUME Types, NEW o \in OrderIds, NEW p \in Lines(o), reservations[o][p] = 0,
           Catalog!Reserve(o, p, Cart[o][p])
    PROVE  /\ Catalog!TypeOK'
           /\ reservations'[o][p] = Cart[o][p]
           /\ \A x \in OrderIds, y \in Products :
                 x # o \/ y # p => reservations'[x][y] = reservations[x][y]
           /\ sold' = sold
<1> DEFINE q == Cart[o][p]
<1>1. p \in Products /\ q \in 0..MaxInt /\ q > 0 /\ MaxInt \in Nat
  BY Quantities DEF Lines
<1>2. /\ Catalog!RowAllowed(stock[p], reserved[p] + q)
      /\ p \in products
      /\ reservations' = [reservations EXCEPT ![o][p] = q]
      /\ reserved' = [reserved EXCEPT ![p] = @ + q]
      /\ UNCHANGED <<products, stock, sold, supplied>>
  BY <1>1 DEF Catalog!Reserve
<1>3. /\ products \subseteq Products /\ stock \in [Products -> 0..MaxInt]
      /\ reserved \in [Products -> 0..MaxInt]
      /\ reservations \in [OrderIds -> [Products -> 0..MaxInt]]
  BY DEF Types, Catalog!TypeOK, Catalog!PerLine
<1>4. reserved[p] + q \in 0..MaxInt
  BY <1>1, <1>2, <1>3 DEF Catalog!RowAllowed
<1> HIDE DEF q
<1>5. reserved' \in [Products -> 0..MaxInt] /\ reservations' \in [OrderIds -> [Products -> 0..MaxInt]]
  BY <1>1, <1>2, <1>3, <1>4
<1>6. /\ reservations'[o][p] = q
      /\ \A x \in OrderIds, y \in Products :
            x # o \/ y # p => reservations'[x][y] = reservations[x][y]
  BY <1>1, <1>2, <1>3
<1>7. \A x \in Products \ products : reserved'[x] = reserved[x]
  BY <1>2, <1>3
<1>8. Catalog!TypeOK'
  BY <1>2, <1>5, <1>6, <1>7 DEF Types, Catalog!TypeOK, Catalog!PerLine
<1> QED
  BY <1>2, <1>6, <1>8 DEF q

(* What Release and Commit do to a line: its row is gone, and Commit adds its  *)
(* quantity to what the order has consumed.                                    *)
LEMMA SettleEffect ==
    ASSUME Types, NEW o \in OrderIds, NEW p \in Products,
           Catalog!Release(o, p) \/ Catalog!Commit(o, p)
    PROVE  /\ Catalog!TypeOK'
           /\ reservations'[o][p] = 0
           /\ \A x \in OrderIds, y \in Products : x # o \/ y # p =>
                 reservations'[x][y] = reservations[x][y] /\ sold'[x][y] = sold[x][y]
           /\ \/ Catalog!Release(o, p) /\ sold' = sold
              \/ Catalog!Commit(o, p) /\ sold'[o][p] = sold[o][p] + reservations[o][p]
<1> DEFINE q == reservations[o][p]
<1>1. /\ q \in 0..MaxInt /\ MaxInt \in Nat /\ sold[o][p] \in Nat /\ sold[o][p] + q \in Nat
  BY Quantities
<1>2. /\ products \subseteq Products /\ stock \in [Products -> 0..MaxInt]
      /\ reserved \in [Products -> 0..MaxInt]
      /\ reservations \in [OrderIds -> [Products -> 0..MaxInt]]
      /\ sold \in [OrderIds -> [Products -> Nat]]
  BY DEF Types, Catalog!TypeOK, Catalog!PerLine
<1>3. /\ p \in products /\ reservations' = [reservations EXCEPT ![o][p] = 0]
      /\ UNCHANGED <<products, supplied>>
  BY DEF Catalog!Release, Catalog!Commit
<1>4. /\ reservations' \in [OrderIds -> [Products -> 0..MaxInt]]
      /\ reservations'[o][p] = 0
      /\ \A x \in OrderIds, y \in Products :
            x # o \/ y # p => reservations'[x][y] = reservations[x][y]
  BY <1>1, <1>2, <1>3
<1>5. /\ stock' \in [Products -> 0..MaxInt] /\ reserved' \in [Products -> 0..MaxInt]
      /\ \A y \in Products \ products : stock'[y] = stock[y] /\ reserved'[y] = reserved[y]
  <2>1. CASE Catalog!Release(o, p)
    BY <1>1, <1>2, <1>3, <2>1 DEF Catalog!Release, Catalog!RowAllowed
  <2>2. CASE Catalog!Commit(o, p)
    <3> DEFINE s == Catalog!AtLeastZero(stock[p] - q)
               r == Catalog!AtLeastZero(reserved[p] - q)
    <3>1. /\ stock' = IF q > 0 THEN [stock EXCEPT ![p] = s] ELSE stock
          /\ reserved' = IF q > 0 THEN [reserved EXCEPT ![p] = r] ELSE reserved
          /\ q > 0 => Catalog!RowAllowed(s, r)
      BY <2>2 DEF Catalog!Commit
    <3>2. q > 0 => s \in 0..MaxInt /\ r \in 0..MaxInt
      BY <1>1, <3>1 DEF Catalog!RowAllowed
    <3> HIDE DEF s, r, q
    <3> QED
      BY <1>2, <1>3, <3>1, <3>2
  <2> QED
    BY <2>1, <2>2
<1>6. CASE Catalog!Release(o, p)
  <2>1. sold' = sold
    BY <1>6 DEF Catalog!Release
  <2>2. Catalog!TypeOK'
    BY <1>3, <1>4, <1>5, <2>1 DEF Types, Catalog!TypeOK, Catalog!PerLine
  <2> QED
    BY <1>4, <1>6, <2>1, <2>2
<1>7. CASE Catalog!Commit(o, p)
  <2>1. sold' = [sold EXCEPT ![o][p] = sold[o][p] + q]
    BY <1>7 DEF Catalog!Commit
  <2> HIDE DEF q
  <2>2. /\ sold' \in [OrderIds -> [Products -> Nat]]
        /\ sold'[o][p] = sold[o][p] + q
        /\ \A x \in OrderIds, y \in Products : x # o \/ y # p => sold'[x][y] = sold[x][y]
    BY <1>1, <1>2, <2>1
  <2>3. Catalog!TypeOK'
    BY <1>3, <1>4, <1>5, <2>2 DEF Types, Catalog!TypeOK, Catalog!PerLine
  <2> QED
    BY <1>4, <1>7, <2>2, <2>3 DEF q
<1> QED
  BY <1>6, <1>7

-----------------------------------------------------------------------------
(* An order and its rows that a step leaves alone. *)
LEMMA OtherOrder ==
    ASSUME NEW D, NEW o \in OrderIds, RequestKnows(o), OrderKnows(o, D),
           request'[o].pc = request[o].pc, request'[o].todo = request[o].todo,
           request'[o].held = request[o].held, orders'[o] = orders[o],
           o \in submitted' <=> o \in submitted,
           \A p \in Products : reservations'[o][p] = reservations[o][p] /\ sold'[o][p] = sold[o][p]
    PROVE  RequestKnows(o)' /\ OrderKnows(o, D)'
<1>1. RequestKnows(o)'
  BY DEF RequestKnows
<1>2. OrderKnows(o, D)'
  BY DEF OrderKnows
<1> QED
  BY <1>1, <1>2

(* A handler that does not move, while no row of its order comes back. *)
LEMMA OtherSettler ==
    ASSUME NEW D, NEW w \in Settlers, SettlerKnows(w, D), settler'[w] = settler[w],
           submitted \subseteq submitted',
           \A o \in submitted, p \in Products : reservations[o][p] = 0 => reservations'[o][p] = 0
    PROVE  SettlerKnows(w, D)'
BY DEF SettlerKnows, Lines

(* A step of createOrder changes its own request and leaves the others alone. *)
OnlyRequest(o) ==
    /\ request' \in [OrderIds -> RequestRecords]
    /\ \A x \in OrderIds \ {o} : request'[x] = request[x]

Moves(o, pc, todo, held) ==
    /\ OnlyRequest(o)
    /\ request'[o].pc = pc /\ request'[o].todo = todo /\ request'[o].held = held

LEMMA EnterMoves ==
    ASSUME Types, NEW o \in OrderIds, NEW pc \in RequestSteps, NEW todo \in SUBSET Products,
           Enter(o, pc, todo)
    PROVE  Moves(o, pc, todo, request[o].held)
BY DEF Types, Enter, Moves, OnlyRequest, RequestRecords

LEMMA AnswerMoves ==
    ASSUME Types, NEW o \in OrderIds, NEW code \in Codes, Answer(o, code)
    PROVE  Moves(o, "done", request[o].todo, request[o].held)
<1>1. "done" \in RequestSteps
  BY DEF RequestSteps
<1> QED
  BY <1>1 DEF Types, Answer, Moves, OnlyRequest, RequestRecords

LEMMA GiveUpMoves ==
    ASSUME Types, NEW o \in OrderIds, NEW code \in Codes, GiveUp(o, code)
    PROVE  Moves(o, IF request[o].held = {} THEN "done" ELSE "release",
                 request[o].held, request[o].held)
<1> DEFINE pc == IF request[o].held = {} THEN "done" ELSE "release"
<1>1. pc \in RequestSteps
  BY DEF RequestSteps
<1>2. request' = [request EXCEPT ![o].pc = pc, ![o].todo = request[o].held, ![o].code = code]
  BY DEF GiveUp
<1> HIDE DEF pc
<1>3. Moves(o, pc, request[o].held, request[o].held)
  BY <1>1, <1>2 DEF Types, Moves, OnlyRequest, RequestRecords
<1> QED
  BY <1>3 DEF pc

LEMMA ReleasedMoves ==
    ASSUME Types, NEW o \in OrderIds, NEW p, Released(o, p)
    PROVE  Moves(o, IF request[o].todo \ {p} = {} THEN "done" ELSE "release",
                 request[o].todo \ {p}, request[o].held)
<1> DEFINE left == request[o].todo \ {p}
           pc == IF left = {} THEN "done" ELSE "release"
<1>1. pc \in RequestSteps
  BY DEF RequestSteps
<1>2. request' = [request EXCEPT ![o].pc = pc, ![o].todo = left]
  BY DEF Released
<1>3. left \in SUBSET Products
  BY DEF Types, RequestRecords
<1> HIDE DEF pc, left
<1>4. Moves(o, pc, left, request[o].held)
  BY <1>1, <1>2, <1>3 DEF Types, Moves, OnlyRequest, RequestRecords
<1> QED
  BY <1>4 DEF pc, left

LEMMA ReservedMoves ==
    ASSUME Types, NEW o \in OrderIds, NEW p \in Products, ReserveLine(o, p)
    PROVE  Moves(o, IF request[o].todo \ {p} = {} THEN "record" ELSE "reserve",
                 request[o].todo \ {p}, request[o].held \cup {p})
<1> DEFINE left == request[o].todo \ {p}
           pc == IF left = {} THEN "record" ELSE "reserve"
           held == request[o].held \cup {p}
<1>1. pc \in RequestSteps
  BY DEF RequestSteps
<1>2. request' = [request EXCEPT ![o].pc = pc, ![o].todo = left, ![o].held = held]
  BY DEF ReserveLine
<1>3. left \in SUBSET Products /\ held \in SUBSET Products
  BY DEF Types, RequestRecords
<1> HIDE DEF pc, left, held
<1>4. Moves(o, pc, left, held)
  BY <1>1, <1>2, <1>3 DEF Types, Moves, OnlyRequest, RequestRecords
<1> QED
  BY <1>4 DEF pc, left, held

(* A step of createOrder for an order not submitted yet: it touches that order *)
(* only.                                                                       *)
LEMMA RequestKeeps ==
    ASSUME NEW D \in Decisions, OrderInv(D), NEW o \in OrderIds, o \notin submitted,
           OnlyRequest(o),
           Catalog!TypeOK', gone' \subseteq OrderIds, UNCHANGED settler,
           orders' = orders \/ orders' = [orders EXCEPT ![o] = "pending"],
           submitted' = submitted \/ submitted' = submitted \cup {o},
           \A x \in OrderIds, p \in Products : sold'[x][p] = sold[x][p],
           \A x \in OrderIds \ {o}, p \in Products : reservations'[x][p] = reservations[x][p],
           RequestKnows(o)', OrderKnows(o, D)'
    PROVE  OrderInv(D)'
<1>1. Types'
  BY DEF OnlyRequest, OrderInv, Types, OrderStatuses
<1>2. ASSUME NEW x \in OrderIds PROVE RequestKnows(x)' /\ OrderKnows(x, D)'
  <2>1. CASE x = o
    BY <2>1
  <2>2. CASE x # o
    <3>1. request'[x] = request[x] /\ orders'[x] = orders[x] /\ (x \in submitted' <=> x \in submitted)
      BY <2>2 DEF OnlyRequest, OrderInv, Types
    <3>2. RequestKnows(x) /\ OrderKnows(x, D)
      BY DEF OrderInv
    <3> QED
      BY <2>2, <3>1, <3>2, OtherOrder
  <2> QED
    BY <2>1, <2>2
<1>3. ASSUME NEW w \in Settlers PROVE SettlerKnows(w, D)'
  <2>1. \A x \in submitted, p \in Products : reservations'[x][p] = reservations[x][p]
    BY DEF OrderInv, Types
  <2> QED
    BY <2>1, OtherSettler DEF OrderInv
<1> QED
  BY <1>1, <1>2, <1>3 DEF OrderInv

(* What holds of a request that has not answered: its order is not submitted. *)
LEMMA Requesting ==
    ASSUME NEW D \in Decisions, OrderInv(D), NEW o \in OrderIds, request[o].pc # "done"
    PROVE  /\ o \notin submitted /\ request[o] \in RequestRecords /\ RequestKnows(o)
           /\ orders[o] \in {"none", "pending"} /\ \A p \in Products : sold[o][p] = 0
BY DEF OrderInv, Types, RequestKnows

(* An order that is neither submitted nor terminal satisfies its part. *)
LEMMA Unsettled ==
    ASSUME NEW D, NEW o, o \notin submitted, orders[o] \in {"none", "pending"}
    PROVE  OrderKnows(o, D)
BY DEF OrderKnows

(* The request answers or goes on to releaseAll: nothing is known of it then   *)
(* but that it is not submitted.                                               *)
LEMMA LeavingKeeps ==
    ASSUME NEW D \in Decisions, OrderInv(D), NEW o \in OrderIds, request[o].pc # "done",
           OnlyRequest(o), request'[o].pc \in {"done", "release", "dead"},
           Catalog!TypeOK', UNCHANGED <<gone, settler, submitted>>,
           orders' = orders \/ orders' = [orders EXCEPT ![o] = "pending"],
           \A x \in OrderIds, p \in Products : sold'[x][p] = sold[x][p],
           \A x \in OrderIds \ {o}, p \in Products : reservations'[x][p] = reservations[x][p],
           \A p \in Products : reservations'[o][p] \in {0, Cart[o][p]}
    PROVE  OrderInv(D)'
<1>1. /\ o \notin submitted /\ orders[o] \in {"none", "pending"}
      /\ \A p \in Products : sold[o][p] = 0
  BY Requesting
<1>2. orders'[o] \in {"none", "pending"} /\ o \notin submitted' /\ gone' \subseteq OrderIds
  BY <1>1 DEF OrderInv, Types
<1>3. OrderKnows(o, D)'
  BY <1>2 DEF OrderKnows
<1>4. RequestKnows(o)'
  BY <1>1, <1>2 DEF RequestKnows
<1> QED
  BY <1>1, <1>2, <1>3, <1>4, RequestKeeps

(* The ways out of createOrder that leave the catalog alone. *)
LEMMA GivingUpKeeps ==
    ASSUME NEW D \in Decisions, OrderInv(D), NEW o \in OrderIds,
           \/ At(o, "new") /\ (Answer(o, 400) \/ Answer(o, 502)) /\ UNCHANGED orders
           \/ At(o, "publish") /\ Answer(o, 502) /\ UNCHANGED orders
           \/ At(o, "reserve") /\ (GiveUp(o, 409) \/ GiveUp(o, 502)) /\ UNCHANGED orders
           \/ At(o, "record") /\ GiveUp(o, 500) /\ UNCHANGED orders
           \/ At(o, "record") /\ GiveUp(o, 500) /\ orders' = [orders EXCEPT ![o] = "pending"]
           \/ At(o, "release") /\ UNCHANGED orders /\ \E p \in Products : Released(o, p),
           UNCHANGED <<catalogVars, gone, submitted, settler>>
    PROVE  OrderInv(D)'
<1>1. Types /\ RequestKnows(o)
  BY DEF OrderInv
<1>2. request[o].pc # "done"
  BY DEF At
<1>3. OnlyRequest(o) /\ request'[o].pc \in {"done", "release", "dead"}
  <2>1. 400 \in Codes /\ 409 \in Codes /\ 500 \in Codes /\ 502 \in Codes
    BY DEF Codes
  <2>2. CASE Answer(o, 400) \/ Answer(o, 502)
    BY <1>1, <2>1, <2>2, AnswerMoves DEF Moves
  <2>3. CASE GiveUp(o, 409) \/ GiveUp(o, 500) \/ GiveUp(o, 502)
    BY <1>1, <2>1, <2>3, GiveUpMoves DEF Moves
  <2>4. CASE \E p \in Products : Released(o, p)
    BY <1>1, <2>4, ReleasedMoves DEF Moves
  <2> QED
    BY <2>2, <2>3, <2>4
<1>4. Catalog!TypeOK' /\ UNCHANGED <<reservations, sold, gone, settler, submitted>>
  BY <1>1 DEF Types, Catalog!TypeOK, Catalog!PerLine, catalogVars
<1>5. \A p \in Products : reservations[o][p] \in {0, Cart[o][p]}
  BY <1>1 DEF RequestKnows
<1>6. orders' = orders \/ orders' = [orders EXCEPT ![o] = "pending"]
  OBVIOUS
<1> QED
  BY <1>2, <1>3, <1>4, <1>5, <1>6, LeavingKeeps

(* Pricing: nothing is held yet, and all lines are still to be reserved. *)
LEMMA PriceKeeps ==
    ASSUME NEW D \in Decisions, OrderInv(D), NEW o \in OrderIds, Price(o)
    PROVE  OrderInv(D)'
<1>1. CASE Answer(o, 400)
  BY <1>1, GivingUpKeeps DEF Price
<1>2. CASE Enter(o, "reserve", Lines(o))
  <2>1. Types /\ At(o, "new") /\ UNCHANGED <<catalogVars, orders, gone, submitted, settler>>
    BY DEF Price, OrderInv
  <2>2. Moves(o, "reserve", Lines(o), request[o].held)
    BY <1>2, <2>1, EnterMoves DEF Lines, RequestSteps
  <2>3. o \notin submitted /\ RequestKnows(o) /\ orders[o] \in {"none", "pending"}
    BY <2>1, Requesting DEF At
  <2>4. /\ Catalog!TypeOK' /\ UNCHANGED <<reservations, sold, orders, gone, settler, submitted>>
        /\ gone' \subseteq OrderIds
    BY <2>1 DEF Types, Catalog!TypeOK, Catalog!PerLine, catalogVars
  <2>5. RequestKnows(o)'
    BY <2>1, <2>2, <2>3, <2>4 DEF RequestKnows, Moves, At
  <2>6. OrderKnows(o, D)'
    BY <2>3, <2>4 DEF OrderKnows
  <2> QED
    BY <2>2, <2>3, <2>4, <2>5, <2>6, RequestKeeps DEF Moves
<1> QED
  BY <1>1, <1>2 DEF Price

(* A Reserve that is answered: the line joins those held. *)
LEMMA ReserveLineKeeps ==
    ASSUME NEW D \in Decisions, OrderInv(D), NEW o \in OrderIds, NEW p \in Products, ReserveLine(o, p)
    PROVE  OrderInv(D)'
<1>1. /\ Types /\ At(o, "reserve") /\ p \in request[o].todo
      /\ Catalog!Reserve(o, p, Cart[o][p]) /\ UNCHANGED <<orders, gone, submitted, settler>>
  BY DEF ReserveLine, OrderInv
<1>2. o \notin submitted /\ RequestKnows(o) /\ \A y \in Products : sold[o][y] = 0
  BY <1>1, Requesting DEF At
<1>3. Moves(o, IF request[o].todo \ {p} = {} THEN "record" ELSE "reserve",
            request[o].todo \ {p}, request[o].held \cup {p})
  BY <1>1, ReservedMoves
<1>4. /\ request[o].todo \subseteq Lines(o) /\ request[o].held = Lines(o) \ request[o].todo
      /\ orders[o] = "none"
      /\ \A y \in Products : reservations[o][y] = IF y \in request[o].held THEN Cart[o][y] ELSE 0
  BY <1>1, <1>2 DEF RequestKnows, At
<1>5. p \in Lines(o) /\ reservations[o][p] = 0
  BY <1>1, <1>4
<1>6. /\ Catalog!TypeOK' /\ sold' = sold
      /\ reservations'[o][p] = Cart[o][p]
      /\ \A x \in OrderIds, y \in Products :
            x # o \/ y # p => reservations'[x][y] = reservations[x][y]
  BY <1>1, <1>5, ReserveEffect
<1> DEFINE held == request[o].held \cup {p}
           todo == request[o].todo \ {p}
<1>7. \A y \in Products : reservations'[o][y] = IF y \in held THEN Cart[o][y] ELSE 0
  BY <1>4, <1>6
<1>8. held = Lines(o) \ todo /\ todo \subseteq Lines(o)
  BY <1>1, <1>4
<1>9. todo = {} => \A y \in Products : reservations'[o][y] = Cart[o][y]
  BY <1>1, <1>7, <1>8, Quantities
<1>10. RequestKnows(o)'
  <2>1. /\ request'[o].pc = (IF todo = {} THEN "record" ELSE "reserve")
        /\ request'[o].todo = todo /\ request'[o].held = held
    BY <1>3 DEF Moves
  <2> HIDE DEF todo, held
  <2>2. o \notin submitted' /\ orders'[o] = "none" /\ \A y \in Products : sold'[o][y] = 0
    BY <1>1, <1>2, <1>4, <1>6
  <2>3. \A y \in Products : reservations'[o][y] \in {0, Cart[o][y]}
    BY <1>7
  <2>4. CASE todo = {}
    BY <1>8, <1>9, <2>1, <2>2, <2>3, <2>4 DEF RequestKnows, Lines
  <2>5. CASE todo # {}
    BY <1>7, <1>8, <2>1, <2>2, <2>3, <2>5 DEF RequestKnows, Lines
  <2> QED
    BY <2>4, <2>5
<1>11. OrderKnows(o, D)'
  BY <1>1, <1>2, <1>4 DEF OrderKnows
<1>12. gone' \subseteq OrderIds
  BY <1>1 DEF Types
<1> QED
  BY <1>1, <1>2, <1>3, <1>6, <1>10, <1>11, <1>12, RequestKeeps DEF Moves

(* A Reserve that takes effect without an answer, and a Release of releaseAll: *)
(* both leave each line held in full or not at all.                            *)
LEMMA ReserveUnansweredKeeps ==
    ASSUME NEW D \in Decisions, OrderInv(D), NEW o \in OrderIds, NEW p \in Products,
           ReserveUnanswered(o, p)
    PROVE  OrderInv(D)'
<1>1. /\ Types /\ At(o, "reserve") /\ p \in request[o].todo /\ RequestKnows(o)
      /\ Catalog!Reserve(o, p, Cart[o][p]) /\ GiveUp(o, 502)
      /\ UNCHANGED <<orders, gone, submitted, settler>>
  BY DEF ReserveUnanswered, OrderInv
<1>2. p \in Lines(o) /\ reservations[o][p] = 0
  BY <1>1 DEF RequestKnows, At
<1>3. /\ Catalog!TypeOK' /\ sold' = sold
      /\ reservations'[o][p] = Cart[o][p]
      /\ \A x \in OrderIds, y \in Products :
            x # o \/ y # p => reservations'[x][y] = reservations[x][y]
  BY <1>1, <1>2, ReserveEffect
<1>4. \A y \in Products : reservations'[o][y] \in {0, Cart[o][y]}
  BY <1>1, <1>3 DEF RequestKnows
<1>5. OnlyRequest(o) /\ request'[o].pc \in {"done", "release", "dead"}
  BY <1>1, GiveUpMoves DEF Moves, Codes
<1>6. request[o].pc # "done"
  BY <1>1 DEF At
<1> QED
  BY <1>1, <1>3, <1>4, <1>5, <1>6, LeavingKeeps

LEMMA ReleaseLineKeeps ==
    ASSUME NEW D \in Decisions, OrderInv(D), NEW o \in OrderIds, NEW p \in Products,
           ReleaseLine(o, p)
    PROVE  OrderInv(D)'
<1>1. /\ Types /\ At(o, "release") /\ RequestKnows(o)
      /\ Catalog!Release(o, p) /\ Released(o, p)
      /\ UNCHANGED <<orders, gone, submitted, settler>>
  BY DEF ReleaseLine, OrderInv
<1>2. sold' = sold
  BY <1>1 DEF Catalog!Release
<1>3. /\ Catalog!TypeOK'
      /\ reservations'[o][p] = 0
      /\ \A x \in OrderIds, y \in Products :
            x # o \/ y # p => reservations'[x][y] = reservations[x][y]
  BY <1>1, SettleEffect
<1>4. \A y \in Products : reservations'[o][y] \in {0, Cart[o][y]}
  BY <1>1, <1>3 DEF RequestKnows
<1>5. OnlyRequest(o) /\ request'[o].pc \in {"done", "release", "dead"}
  BY <1>1, ReleasedMoves DEF Moves
<1>6. request[o].pc # "done"
  BY <1>1 DEF At
<1> QED
  BY <1>1, <1>2, <1>3, <1>4, <1>5, <1>6, LeavingKeeps

(* Recording the order: every line is held by then. *)
LEMMA RecordOrderKeeps ==
    ASSUME NEW D \in Decisions, OrderInv(D), NEW o \in OrderIds, RecordOrder(o)
    PROVE  OrderInv(D)'
<1>1. /\ Types /\ At(o, "record") /\ Enter(o, "publish", {})
      /\ orders' = [orders EXCEPT ![o] = "pending"]
      /\ UNCHANGED <<catalogVars, gone, submitted, settler>>
  BY DEF RecordOrder, OrderInv
<1>2. o \notin submitted /\ RequestKnows(o) /\ \A p \in Products : sold[o][p] = 0
  BY <1>1, Requesting DEF At
<1>3. Moves(o, "publish", {}, request[o].held)
  BY <1>1, EnterMoves DEF RequestSteps
<1>4. /\ Catalog!TypeOK' /\ UNCHANGED <<reservations, sold, gone, settler, submitted>>
      /\ gone' \subseteq OrderIds
  BY <1>1 DEF Types, Catalog!TypeOK, Catalog!PerLine, catalogVars
<1>5. orders'[o] = "pending" /\ \A p \in Products : reservations[o][p] = Cart[o][p]
  BY <1>1, <1>2 DEF Types, RequestKnows, At
<1>6. RequestKnows(o)'
  BY <1>2, <1>3, <1>4, <1>5 DEF RequestKnows, Moves
<1>7. OrderKnows(o, D)'
  BY <1>2, <1>4, <1>5 DEF OrderKnows
<1> QED
  BY <1>1, <1>2, <1>3, <1>4, <1>6, <1>7, RequestKeeps DEF Moves

(* Publishing OrderCreated, answered or not: the order is recorded and every   *)
(* line of it is held.                                                         *)
LEMMA PublishKeeps ==
    ASSUME NEW D \in Decisions, OrderInv(D), NEW o \in OrderIds,
           PublishOrder(o) \/ PublishUnanswered(o)
    PROVE  OrderInv(D)'
<1>1. /\ Types /\ At(o, "publish") /\ (Answer(o, 201) \/ Answer(o, 502))
      /\ submitted' = submitted \cup {o}
      /\ UNCHANGED <<catalogVars, orders, gone, settler>>
  BY DEF PublishOrder, PublishUnanswered, OrderInv
<1>2. o \notin submitted /\ RequestKnows(o) /\ \A p \in Products : sold[o][p] = 0
  BY <1>1, Requesting DEF At
<1>3. Moves(o, "done", request[o].todo, request[o].held)
  BY <1>1, AnswerMoves DEF Codes
<1>4. /\ Catalog!TypeOK' /\ UNCHANGED <<reservations, sold, orders, gone, settler>>
      /\ gone' \subseteq OrderIds
  BY <1>1 DEF Types, Catalog!TypeOK, Catalog!PerLine, catalogVars
<1>5. orders[o] = "pending" /\ \A p \in Products : reservations[o][p] = Cart[o][p]
  BY <1>1, <1>2 DEF RequestKnows, At
<1>6. RequestKnows(o)'
  BY <1>1, <1>2, <1>3, <1>4, <1>5 DEF RequestKnows, Moves
<1>7. \A p \in Products : sold'[o][p] + reservations'[o][p] = Cart[o][p]
  BY <1>1, <1>2, <1>4, <1>5, Quantities
<1>8. OrderKnows(o, D)'
  BY <1>2, <1>4, <1>5, <1>7 DEF OrderKnows
<1> QED
  BY <1>1, <1>2, <1>3, <1>4, <1>6, <1>8, RequestKeeps DEF Moves

(* Every step of createOrder, and its client's leaving, keeps the invariant. *)
LEMMA CreateOrderKeeps ==
    ASSUME NEW D \in Decisions, OrderInv(D), NEW o \in OrderIds,
           \/ RequestStep(o) \/ RequestCallFails(o) \/ RequestCallUnanswered(o)
           \/ PublishOrder(o) \/ PublishUnanswered(o) \/ ClientGone(o)
    PROVE  OrderInv(D)'
<1>1. CASE Price(o)
  BY <1>1, PriceKeeps
<1>2. CASE \E p \in Products : ReserveLine(o, p)
  BY <1>2, ReserveLineKeeps
<1>3. CASE \E p \in Products : ReserveShort(o, p)
  BY <1>3, GivingUpKeeps DEF ReserveShort
<1>4. CASE \E p \in Products : ReleaseLine(o, p)
  BY <1>4, ReleaseLineKeeps
<1>5. CASE RecordOrder(o)
  BY <1>5, RecordOrderKeeps
<1>6. CASE PriceFails(o) \/ ReserveFails(o) \/ RecordFails(o) \/ PublishFails(o) \/ RecordUnanswered(o)
  <2>1. /\ UNCHANGED <<catalogVars, gone, submitted, settler>>
        /\ \/ At(o, "new") /\ Answer(o, 502) /\ UNCHANGED orders
           \/ At(o, "publish") /\ Answer(o, 502) /\ UNCHANGED orders
           \/ At(o, "reserve") /\ GiveUp(o, 502) /\ UNCHANGED orders
           \/ At(o, "record") /\ GiveUp(o, 500) /\ UNCHANGED orders
           \/ At(o, "record") /\ GiveUp(o, 500) /\ orders' = [orders EXCEPT ![o] = "pending"]
    BY <1>6 DEF PriceFails, ReserveFails, RecordFails, PublishFails, RecordUnanswered
  <2> QED
    BY <2>1, GivingUpKeeps
<1>7. CASE \E p \in Products : ReleaseFails(o, p)
  BY <1>7, GivingUpKeeps DEF ReleaseFails
<1>8. CASE \E p \in Products : ReserveUnanswered(o, p)
  BY <1>8, ReserveUnansweredKeeps
<1>9. CASE PublishOrder(o) \/ PublishUnanswered(o)
  BY <1>9, PublishKeeps
<1>10. CASE ClientGone(o)
  <2>1. gone' \subseteq OrderIds /\ UNCHANGED <<catalogVars, orders, request, submitted, settler>>
    BY <1>10 DEF ClientGone, OrderInv, Types
  <2>2. Types'
    BY <2>1 DEF OrderInv, Types, Catalog!TypeOK, Catalog!PerLine, catalogVars
  <2>3. \A x \in OrderIds : RequestKnows(x)' /\ OrderKnows(x, D)'
    BY <2>1 DEF OrderInv, RequestKnows, OrderKnows, catalogVars
  <2>4. \A w \in Settlers : SettlerKnows(w, D)'
    BY <2>1 DEF OrderInv, SettlerKnows, catalogVars
  <2> QED
    BY <2>2, <2>3, <2>4 DEF OrderInv
<1> QED
  BY <1>1, <1>2, <1>3, <1>4, <1>5, <1>6, <1>7, <1>8, <1>9, <1>10
     DEF RequestStep, RequestCallFails, RequestCallUnanswered

-----------------------------------------------------------------------------
(* A step of a saga handler leaves the other handlers alone. *)
OnlySettler(w) ==
    /\ settler' \in [Settlers -> SettlerRecords]
    /\ \A v \in Settlers \ {w} : settler'[v] = settler[v]

Turns(w, pc, todo) ==
    /\ OnlySettler(w)
    /\ settler'[w].pc = pc /\ settler'[w].todo = todo
    /\ settler'[w].order = settler[w].order /\ settler'[w].verdict = settler[w].verdict

LEMMA SettlerTurns ==
    ASSUME Types, NEW w \in Settlers, NEW pc \in SettlerSteps, NEW todo \in SUBSET Products
    PROVE  /\ settler' = [settler EXCEPT ![w].pc = pc, ![w].todo = todo] => Turns(w, pc, todo)
           /\ settler' = [settler EXCEPT ![w].pc = pc] => Turns(w, pc, settler[w].todo)
<1>1. ASSUME settler' = [settler EXCEPT ![w].pc = pc, ![w].todo = todo] PROVE Turns(w, pc, todo)
  BY <1>1 DEF Types, Turns, OnlySettler, SettlerRecords
<1>2. ASSUME settler' = [settler EXCEPT ![w].pc = pc] PROVE Turns(w, pc, settler[w].todo)
  BY <1>2 DEF Types, Turns, OnlySettler, SettlerRecords
<1> QED
  BY <1>1, <1>2

(* A step of a handler at work on an order touches that order only, and        *)
(* brings no row of it back.                                                   *)
LEMMA SettlingKeeps ==
    ASSUME NEW D \in Decisions, OrderInv(D), NEW w \in Settlers, OnlySettler(w), NEW o \in submitted,
           Catalog!TypeOK', orders' \in [OrderIds -> OrderStatuses \cup {"none"}],
           UNCHANGED <<request, gone, submitted>>,
           \A x \in OrderIds \ {o} : orders'[x] = orders[x],
           \A x \in OrderIds \ {o}, p \in Products :
              reservations'[x][p] = reservations[x][p] /\ sold'[x][p] = sold[x][p],
           \A p \in Products : reservations'[o][p] \in {0, reservations[o][p]},
           orders'[o] # "none", OrderKnows(o, D)', SettlerKnows(w, D)'
    PROVE  OrderInv(D)'
<1>1. Types'
  BY DEF OrderInv, Types, OnlySettler
<1>2. ASSUME NEW x \in OrderIds PROVE RequestKnows(x)' /\ OrderKnows(x, D)'
  <2>1. CASE x = o
    <3>1. RequestKnows(o) /\ request[o].pc = "done"
      BY <2>1 DEF OrderInv, RequestKnows
    <3>2. \A p \in Products : reservations'[o][p] \in {0, Cart[o][p]}
      BY <3>1 DEF RequestKnows
    <3>3. RequestKnows(o)'
      BY <3>1, <3>2 DEF RequestKnows
    <3> QED
      BY <2>1, <3>3
  <2>2. CASE x # o
    BY <2>2, OtherOrder DEF OrderInv
  <2> QED
    BY <2>1, <2>2
<1>3. ASSUME NEW v \in Settlers PROVE SettlerKnows(v, D)'
  <2>1. CASE v = w
    BY <2>1
  <2>2. CASE v # w
    <3>1. \A x \in submitted, p \in Products : reservations[x][p] = 0 => reservations'[x][p] = 0
      BY DEF OrderInv, Types
    <3> QED
      BY <2>2, <3>1, OtherSettler DEF OrderInv, OnlySettler
  <2> QED
    BY <2>1, <2>2
<1> QED
  BY <1>1, <1>2, <1>3 DEF OrderInv

(* The step a handler takes without a call that changes a table. *)
LEMMA SettlerAloneKeeps ==
    ASSUME NEW D \in Decisions, OrderInv(D), NEW w \in Settlers, OnlySettler(w), SettlerKnows(w, D)',
           UNCHANGED <<catalogVars, orders, request, gone, submitted>>
    PROVE  OrderInv(D)'
<1>1. Types'
  BY DEF OrderInv, Types, Catalog!TypeOK, Catalog!PerLine, catalogVars, OnlySettler
<1>2. \A x \in OrderIds : RequestKnows(x)' /\ OrderKnows(x, D)'
  BY DEF OrderInv, RequestKnows, OrderKnows, catalogVars
<1>3. ASSUME NEW v \in Settlers PROVE SettlerKnows(v, D)'
  BY OtherSettler DEF OrderInv, OnlySettler, catalogVars
<1> QED
  BY <1>1, <1>2, <1>3 DEF OrderInv

(* A handler begins with an outcome the order may be told. *)
LEMMA BeginSettleKeeps ==
    ASSUME NEW D \in Decisions, OrderInv(D), NEW w \in Settlers, NEW o \in submitted,
           NEW v \in D[o], BeginSettle(w, o, v)
    PROVE  OrderInv(D)'
<1>1. o \in OrderIds /\ v \in {"succeeded", "failed"} /\ Types
  BY DEF OrderInv, Types, Decisions
<1> DEFINE r == [pc |-> "load", order |-> o, verdict |-> v, todo |-> {}]
<1>2. /\ r \in SettlerRecords /\ settler' = [settler EXCEPT ![w] = r]
      /\ UNCHANGED <<catalogVars, orders, request, gone, submitted>>
  BY <1>1 DEF BeginSettle, SettlerRecords, SettlerSteps, Verdicts
<1>3. r.pc = "load" /\ r.order = o /\ r.verdict = v /\ r.todo = {}
  OBVIOUS
<1> HIDE DEF r
<1>4. OnlySettler(w) /\ settler'[w] = r
  BY <1>1, <1>2 DEF Types, OnlySettler
<1>5. SettlerKnows(w, D)'
  BY <1>2, <1>3, <1>4 DEF SettlerKnows
<1> QED
  BY <1>2, <1>4, <1>5, SettlerAloneKeeps

(* What a handler at work knows. *)
LEMMA Settling ==
    ASSUME NEW D \in Decisions, OrderInv(D), NEW w \in Settlers, settler[w].pc # "idle"
    PROVE  /\ Types /\ settler[w].order \in submitted /\ settler[w].order \in OrderIds
           /\ RequestKnows(settler[w].order) /\ OrderKnows(settler[w].order, D)
           /\ orders[settler[w].order] # "none"
           /\ settler[w].verdict \in D[settler[w].order]
           /\ settler[w].verdict \in {"succeeded", "failed"}
           /\ settler[w].todo \subseteq Lines(settler[w].order)
           /\ SettlerKnows(w, D)
<1>1. settler[w].order \in submitted /\ settler[w].order \in OrderIds /\ SettlerKnows(w, D) /\ Types
  BY DEF OrderInv, SettlerKnows, Types
<1>2. RequestKnows(settler[w].order) /\ OrderKnows(settler[w].order, D)
  BY <1>1 DEF OrderInv
<1> QED
  BY <1>1, <1>2 DEF SettlerKnows, RequestKnows, Decisions

(* Loading the order, failing a call before it takes effect, returning. *)
LEMMA SettlerAloneSteps ==
    ASSUME NEW D \in Decisions, OrderInv(D), NEW w \in Settlers,
           LoadOrder(w) \/ SettleFails(w) \/ SettleReturn(w)
    PROVE  OrderInv(D)'
<1>1. UNCHANGED <<catalogVars, orders, request, gone, submitted>>
  BY DEF LoadOrder, SettleFails, SettleReturn
<1>2. settler[w].pc # "idle"
  BY DEF LoadOrder, SettleFails, SettleReturn, Doing
<1> DEFINE o == settler[w].order
<1>3. /\ Types /\ o \in submitted /\ orders[o] # "none" /\ settler[w].verdict \in D[o]
      /\ settler[w].todo \subseteq Lines(o) /\ SettlerKnows(w, D)
  BY <1>2, Settling
<1>4. CASE LoadOrder(w)
  <2>1. settler' = [settler EXCEPT ![w].pc = "lines", ![w].todo = Lines(o)]
    BY <1>3, <1>4 DEF LoadOrder
  <2>2. Turns(w, "lines", Lines(o))
    BY <1>3, <2>1, SettlerTurns DEF SettlerSteps, Lines
  <2>3. SettlerKnows(w, D)'
    BY <1>1, <1>3, <2>2 DEF SettlerKnows, Turns, Lines
  <2> QED
    BY <1>1, <2>2, <2>3, SettlerAloneKeeps DEF Turns
<1>5. CASE SettleFails(w)
  <2>1. Turns(w, "error", settler[w].todo)
    BY <1>3, <1>5, SettlerTurns DEF SettleFails, SettlerSteps
  <2>2. SettlerKnows(w, D)'
    BY <1>1, <1>2, <1>3, <2>1 DEF SettlerKnows, Turns, Lines
  <2> QED
    BY <1>1, <2>1, <2>2, SettlerAloneKeeps DEF Turns
<1>6. CASE SettleReturn(w)
  <2>1. Idle \in SettlerRecords /\ Idle.pc = "idle"
    BY DEF Idle, SettlerRecords, SettlerSteps, Verdicts
  <2>2. OnlySettler(w) /\ settler'[w] = Idle
    BY <1>3, <1>6, <2>1 DEF SettleReturn, OnlySettler, Types
  <2>3. SettlerKnows(w, D)'
    BY <2>1, <2>2 DEF SettlerKnows
  <2> QED
    BY <1>1, <2>2, <2>3, SettlerAloneKeeps
<1> QED
  BY <1>4, <1>5, <1>6

(* Commit for a success, Release for a failure: the order's books stay right. *)
LEMMA SettleCallKeeps ==
    ASSUME NEW D \in Decisions, OrderInv(D), NEW w \in Settlers, settler[w].pc = "lines",
           NEW p \in Products, SettleCall(w, p), UNCHANGED <<orders, submitted>>,
           NEW o, o = settler[w].order
    PROVE  /\ Catalog!TypeOK'
           /\ reservations'[o][p] = 0
           /\ \A x \in OrderIds, y \in Products : x # o \/ y # p =>
                 reservations'[x][y] = reservations[x][y] /\ sold'[x][y] = sold[x][y]
           /\ OrderKnows(o, D)'
<1>1. /\ Types /\ o \in submitted /\ o \in OrderIds /\ OrderKnows(o, D)
      /\ settler[w].verdict \in D[o] /\ settler[w].verdict \in {"succeeded", "failed"}
  BY Settling
<1>2. /\ Catalog!TypeOK'
      /\ reservations'[o][p] = 0
      /\ \A x \in OrderIds, y \in Products : x # o \/ y # p =>
            reservations'[x][y] = reservations[x][y] /\ sold'[x][y] = sold[x][y]
      /\ \/ Catalog!Release(o, p) /\ sold' = sold
         \/ Catalog!Commit(o, p) /\ sold'[o][p] = sold[o][p] + reservations[o][p]
  BY <1>1, SettleEffect DEF SettleCall
<1>3. ~("succeeded" \in D[o] /\ "failed" \in D[o])
  BY <1>1 DEF Decisions
<1>4. \A y \in Products : sold[o][y] \in Nat /\ reservations[o][y] \in Nat /\ Cart[o][y] \in Nat
  BY <1>1, Quantities
<1>5. CASE settler[w].verdict = "succeeded"
  <2>1. Catalog!Commit(o, p)
    BY <1>5 DEF SettleCall
  <2>2. sold' = [sold EXCEPT ![o][p] = sold[o][p] + reservations[o][p]]
    BY <2>1 DEF Catalog!Commit
  <2>3. sold'[o][p] = sold[o][p] + reservations[o][p]
    BY <1>1, <2>2 DEF Types, Catalog!TypeOK, Catalog!PerLine
  <2>4. "succeeded" \in D[o] /\ "failed" \notin D[o]
    BY <1>1, <1>3, <1>5
  <2>5. /\ orders[o] # "cancelled"
        /\ \A y \in Products : sold[o][y] + reservations[o][y] = Cart[o][y]
        /\ orders[o] = "confirmed" =>
              \A y \in Products : sold[o][y] = Cart[o][y] /\ reservations[o][y] = 0
    BY <1>1, <2>4 DEF OrderKnows
  <2>6. /\ \A y \in Products : sold'[o][y] + reservations'[o][y] = Cart[o][y]
        /\ orders[o] = "confirmed" =>
              \A y \in Products : sold'[o][y] = Cart[o][y] /\ reservations'[o][y] = 0
    BY <1>1, <1>2, <1>4, <2>3, <2>5
  <2>7. OrderKnows(o, D)'
    BY <2>4, <2>5, <2>6 DEF OrderKnows
  <2> QED
    BY <1>2, <2>7
<1>6. CASE settler[w].verdict = "failed"
  <2>1. sold' = sold
    BY <1>6 DEF SettleCall, Catalog!Release
  <2>2. "failed" \in D[o] /\ "succeeded" \notin D[o]
    BY <1>1, <1>3, <1>6
  <2>3. /\ orders[o] # "confirmed"
        /\ \A y \in Products : sold[o][y] = 0
        /\ orders[o] = "cancelled" => \A y \in Products : reservations[o][y] = 0
    BY <1>1, <2>2 DEF OrderKnows
  <2>4. orders[o] = "cancelled" => \A y \in Products : reservations'[o][y] = 0
    BY <1>1, <1>2, <2>3
  <2>5. OrderKnows(o, D)'
    BY <2>1, <2>2, <2>3, <2>4 DEF OrderKnows
  <2> QED
    BY <1>2, <2>5
<1> QED
  BY <1>1, <1>5, <1>6

(* Settling a line, answered or not. *)
LEMMA SettleLineKeeps ==
    ASSUME NEW D \in Decisions, OrderInv(D), NEW w \in Settlers, NEW p \in Products,
           SettleLine(w, p) \/ SettleLineUnanswered(w, p)
    PROVE  OrderInv(D)'
<1>0. PICK o : o = settler[w].order
  OBVIOUS
<1> DEFINE left == settler[w].todo \ {p}
           next == IF left = {} THEN "status" ELSE "lines"
<1>1. /\ settler[w].pc = "lines" /\ p \in settler[w].todo /\ SettleCall(w, p)
      /\ UNCHANGED <<orders, request, gone, submitted>>
  BY DEF SettleLine, SettleLineUnanswered, Doing
<1>2. /\ Types /\ o \in submitted /\ o \in OrderIds /\ RequestKnows(o) /\ orders[o] # "none"
      /\ settler[w].verdict \in D[o] /\ settler[w].todo \subseteq Lines(o) /\ SettlerKnows(w, D)
  BY <1>0, <1>1, Settling
<1>3. /\ Catalog!TypeOK'
      /\ reservations'[o][p] = 0
      /\ \A x \in OrderIds, y \in Products : x # o \/ y # p =>
            reservations'[x][y] = reservations[x][y] /\ sold'[x][y] = sold[x][y]
      /\ OrderKnows(o, D)'
  BY <1>0, <1>1, SettleCallKeeps
<1>4. \/ Turns(w, next, left)
      \/ Turns(w, "error", settler[w].todo)
  <2>1. CASE SettleLine(w, p)
    <3>1. settler' = [settler EXCEPT ![w].pc = next, ![w].todo = left]
      BY <2>1 DEF SettleLine
    <3>2. next \in SettlerSteps /\ left \in SUBSET Products
      BY <1>2 DEF SettlerSteps, Lines
    <3> HIDE DEF next, left
    <3> QED
      BY <1>2, <3>1, <3>2, SettlerTurns
  <2>2. CASE SettleLineUnanswered(w, p)
    BY <1>2, <2>2, SettlerTurns DEF SettleLineUnanswered, SettlerSteps
  <2> QED
    BY <2>1, <2>2
<1>5. \A y \in Lines(o) \ left : reservations'[o][y] = 0
  BY <1>0, <1>1, <1>2, <1>3 DEF SettlerKnows, Lines
<1>6. SettlerKnows(w, D)'
  <2>1. CASE Turns(w, next, left)
    BY <1>0, <1>1, <1>2, <1>5, <2>1 DEF SettlerKnows, Turns, Lines
  <2>2. CASE Turns(w, "error", settler[w].todo)
    BY <1>1, <1>2, <2>2 DEF SettlerKnows, Turns, Lines
  <2> QED
    BY <1>4, <2>1, <2>2
<1>7. OnlySettler(w)
  BY <1>4 DEF Turns
<1>8. orders' \in [OrderIds -> OrderStatuses \cup {"none"}]
  BY <1>1, <1>2 DEF Types
<1> QED
  BY <1>1, <1>2, <1>3, <1>6, <1>7, <1>8, SettlingKeeps

(* The status follows when no line is left to settle. *)
LEMMA SettleStatusKeeps ==
    ASSUME NEW D \in Decisions, OrderInv(D), NEW w \in Settlers,
           SettleStatus(w) \/ SettleStatusUnanswered(w)
    PROVE  OrderInv(D)'
<1>0. PICK o : o = settler[w].order
  OBVIOUS
<1> DEFINE status == IF settler[w].verdict = "succeeded" THEN "confirmed" ELSE "cancelled"
<1>1. /\ settler[w].pc = "status" /\ orders' = NewStatus(w)
      /\ UNCHANGED <<catalogVars, request, gone, submitted>>
      /\ \/ settler' = [settler EXCEPT ![w].pc = "ok"]
         \/ settler' = [settler EXCEPT ![w].pc = "error"]
  BY DEF SettleStatus, SettleStatusUnanswered, Doing
<1>2. /\ Types /\ o \in submitted /\ o \in OrderIds /\ RequestKnows(o) /\ OrderKnows(o, D)
      /\ settler[w].verdict \in D[o] /\ settler[w].verdict \in {"succeeded", "failed"}
      /\ settler[w].todo \subseteq Lines(o) /\ SettlerKnows(w, D) /\ orders[o] # "none"
  BY <1>0, <1>1, Settling
<1>3. Turns(w, "ok", settler[w].todo) \/ Turns(w, "error", settler[w].todo)
  BY <1>1, <1>2, SettlerTurns DEF SettlerSteps
<1>4. /\ orders' \in [OrderIds -> OrderStatuses \cup {"none"}]
      /\ \A x \in OrderIds \ {o} : orders'[x] = orders[x]
      /\ orders'[o] = IF orders[o] = "pending" THEN status ELSE orders[o]
  BY <1>0, <1>1, <1>2 DEF NewStatus, Types, OrderStatuses
<1>5. \A p \in Products : reservations[o][p] = 0
  BY <1>0, <1>1, <1>2, Quantities DEF SettlerKnows, RequestKnows
<1>6. /\ "failed" \notin D[o] => \A p \in Products : sold[o][p] = Cart[o][p]
      /\ "succeeded" \notin D[o] => \A p \in Products : sold[o][p] = 0
  BY <1>2, <1>5, Quantities DEF OrderKnows
<1>7. ~("succeeded" \in D[o] /\ "failed" \in D[o])
  BY <1>2 DEF Decisions
<1>8. UNCHANGED <<reservations, sold>> /\ Catalog!TypeOK'
  BY <1>1, <1>2 DEF Types, Catalog!TypeOK, Catalog!PerLine, catalogVars
<1>9. OrderKnows(o, D)'
  <2>1. CASE orders[o] = "pending"
    <3>1. CASE settler[w].verdict = "succeeded"
      BY <1>1, <1>2, <1>4, <1>5, <1>6, <1>7, <1>8, <2>1, <3>1 DEF OrderKnows
    <3>2. CASE settler[w].verdict = "failed"
      BY <1>1, <1>2, <1>4, <1>5, <1>6, <1>7, <1>8, <2>1, <3>2 DEF OrderKnows
    <3> QED
      BY <1>2, <3>1, <3>2
  <2>2. CASE orders[o] # "pending"
    BY <1>1, <1>2, <1>4, <1>8, <2>2 DEF OrderKnows
  <2> QED
    BY <2>1, <2>2
<1>10. SettlerKnows(w, D)'
  BY <1>1, <1>2, <1>3 DEF SettlerKnows, Turns, Lines
<1>11. OnlySettler(w) /\ orders'[o] # "none"
  BY <1>2, <1>3, <1>4 DEF Turns
<1> QED
  BY <1>1, <1>2, <1>4, <1>8, <1>9, <1>10, <1>11, SettlingKeeps

(* Every step of a saga handler once it has begun keeps the invariant. *)
LEMMA SettleKeeps ==
    ASSUME NEW D \in Decisions, OrderInv(D), NEW w \in Settlers,
           SettlerStep(w) \/ SettleFails(w) \/ SettlerCallUnanswered(w) \/ SettleReturn(w)
    PROVE  OrderInv(D)'
BY SettlerAloneSteps, SettleLineKeeps, SettleStatusKeeps DEF SettlerStep, SettlerCallUnanswered

(* A crash loses the handlers' steps and locals and none of the tables. *)
LEMMA CrashKeeps ==
    ASSUME NEW D \in Decisions, OrderInv(D), Crash
    PROVE  OrderInv(D)'
<1>1. /\ UNCHANGED <<catalogVars, orders, gone, submitted>> /\ Types
      /\ request' = [o \in OrderIds |->
                       IF request[o].pc \in {"new", "done"} THEN request[o]
                       ELSE [request[o] EXCEPT !.pc = "dead"]]
      /\ settler' = [w \in Settlers |-> Idle]
  BY DEF Crash, OrderInv
<1>2. Idle \in SettlerRecords /\ Idle.pc = "idle"
  BY DEF Idle, SettlerRecords, SettlerSteps, Verdicts
<1>3. "dead" \in RequestSteps
  BY DEF RequestSteps
<1>4. ASSUME NEW o \in OrderIds
      PROVE  /\ request'[o] \in RequestRecords
             /\ request'[o] = request[o] \/ (request[o].pc # "done" /\ request'[o].pc = "dead")
  <2>1. request[o] \in RequestRecords
    BY <1>1 DEF Types
  <2>2. CASE request[o].pc \in {"new", "done"}
    BY <1>1, <2>1, <2>2
  <2>3. CASE request[o].pc \notin {"new", "done"}
    <3>1. request'[o] = [request[o] EXCEPT !.pc = "dead"]
      BY <1>1, <2>3
    <3> QED
      BY <1>3, <2>1, <2>3, <3>1 DEF RequestRecords
  <2> QED
    BY <2>2, <2>3
<1>5. Types'
  <2>1. request' \in [OrderIds -> RequestRecords]
    BY <1>1, <1>4
  <2>2. settler' \in [Settlers -> SettlerRecords]
    BY <1>1, <1>2
  <2> QED
    BY <1>1, <2>1, <2>2 DEF Types, Catalog!TypeOK, Catalog!PerLine, catalogVars
<1>6. ASSUME NEW o \in OrderIds PROVE RequestKnows(o)' /\ OrderKnows(o, D)'
  <2>1. RequestKnows(o) /\ OrderKnows(o, D) /\ UNCHANGED <<reservations, sold, orders, submitted>>
    BY <1>1 DEF OrderInv, catalogVars
  <2>2. CASE request'[o] = request[o]
    BY <2>1, <2>2, OtherOrder
  <2>3. CASE request[o].pc # "done" /\ request'[o].pc = "dead"
    <3>1. RequestKnows(o)'
      BY <2>1, <2>3 DEF RequestKnows
    <3>2. OrderKnows(o, D)'
      BY <2>1 DEF OrderKnows
    <3> QED
      BY <3>1, <3>2
  <2> QED
    BY <1>4, <2>2, <2>3
<1>7. \A w \in Settlers : SettlerKnows(w, D)'
  BY <1>1, <1>2 DEF SettlerKnows
<1> QED
  BY <1>5, <1>6, <1>7 DEF OrderInv

-----------------------------------------------------------------------------
(* The operations of the service, where orders are told the outcomes in D. *)
Operation(D) ==
    \/ \E o \in OrderIds : \/ RequestStep(o) \/ RequestCallFails(o) \/ RequestCallUnanswered(o)
                           \/ PublishOrder(o) \/ PublishUnanswered(o) \/ ClientGone(o)
    \/ \E w \in Settlers, o \in submitted : \E v \in D[o] : BeginSettle(w, o, v)
    \/ \E w \in Settlers : \/ SettlerStep(w) \/ SettleFails(w)
                           \/ SettlerCallUnanswered(w) \/ SettleReturn(w)
    \/ Crash
    \/ UNCHANGED orderVars

LEMMA OperationKeeps ==
    ASSUME NEW D \in Decisions, OrderInv(D), Operation(D)
    PROVE  OrderInv(D)'
<1>1. CASE \E o \in OrderIds : \/ RequestStep(o) \/ RequestCallFails(o) \/ RequestCallUnanswered(o)
                               \/ PublishOrder(o) \/ PublishUnanswered(o) \/ ClientGone(o)
  BY <1>1, CreateOrderKeeps
<1>2. CASE \E w \in Settlers, o \in submitted : \E v \in D[o] : BeginSettle(w, o, v)
  BY <1>2, BeginSettleKeeps
<1>3. CASE \E w \in Settlers : \/ SettlerStep(w) \/ SettleFails(w)
                               \/ SettlerCallUnanswered(w) \/ SettleReturn(w)
  BY <1>3, SettleKeeps
<1>4. CASE Crash
  BY <1>4, CrashKeeps
<1>5. CASE UNCHANGED orderVars
  <2>1. Types'
    BY <1>5 DEF OrderInv, Types, Catalog!TypeOK, Catalog!PerLine, orderVars, catalogVars
  <2>2. \A o \in OrderIds : RequestKnows(o)' /\ OrderKnows(o, D)'
    BY <1>5 DEF OrderInv, RequestKnows, OrderKnows, orderVars, catalogVars
  <2>3. \A w \in Settlers : SettlerKnows(w, D)'
    BY <1>5 DEF OrderInv, SettlerKnows, orderVars, catalogVars
  <2> QED
    BY <2>1, <2>2, <2>3 DEF OrderInv
<1> QED
  BY <1>1, <1>2, <1>3, <1>4, <1>5 DEF Operation

(* The invariant stays true when an order without an outcome gets one. *)
LEMMA MoreOutcomes ==
    ASSUME NEW D, NEW E, \A o \in OrderIds : D[o] \subseteq E[o], OrderInv(D)'
    PROVE  OrderInv(E)'
<1>1. Types' /\ \A o \in OrderIds : RequestKnows(o)'
  BY DEF OrderInv
<1>2. ASSUME NEW o \in OrderIds PROVE OrderKnows(o, E)'
  <2>1. OrderKnows(o, D)'
    BY DEF OrderInv
  <2> QED
    BY <2>1 DEF OrderKnows
<1>3. ASSUME NEW w \in Settlers PROVE SettlerKnows(w, E)'
  <2>1. SettlerKnows(w, D)'
    BY DEF OrderInv
  <2>2. submitted' \subseteq OrderIds
    BY <1>1 DEF Types
  <2> QED
    BY <2>1, <2>2 DEF SettlerKnows
<1> QED
  BY <1>1, <1>2, <1>3 DEF OrderInv

-----------------------------------------------------------------------------
(* The module alone: an order may be told the outcomes of the constant. *)
IndInv == OrderInv(Outcomes) /\ faults \in 0..MaxFaults

LEMMA OneOutcome == Outcomes \in Decisions
<1>1. \A o \in OrderIds : ~("succeeded" \in Outcomes[o] /\ "failed" \in Outcomes[o])
  BY OrdersAssumption
<1> QED
  BY <1>1, OrdersAssumption DEF Decisions

LEMMA FaultsBounded ==
    ASSUME faults \in 0..MaxFaults, [Next]_vars
    PROVE  faults' \in 0..MaxFaults
<1>1. UNCHANGED faults \/ \E kind \in {"lost_request", "lost_reply", "client_gone", "crash"} : Fault(kind)
  BY DEF Next, RequestFault, vars
<1> QED
  BY <1>1, OrdersAssumption DEF Fault

LEMMA NextIsOperation == [Next]_vars => Operation(Outcomes)
BY DEF Next, vars, Operation

LEMMA OrdersInvariant == Spec => []IndInv
<1>1. Init => IndInv
  BY OneOutcome, OrdersStart, OrdersAssumption DEF Init, IndInv
<1>2. IndInv /\ [Next]_vars => IndInv'
  BY OneOutcome, NextIsOperation, OperationKeeps, FaultsBounded DEF IndInv
<1> QED
  BY <1>1, <1>2, PTL DEF Spec

(* The columns of orders and the steps of createOrder and of the saga handlers *)
(* stay in their types, as the catalog's columns do under the calls they make. *)
THEOREM OrdersTypeCorrect == Spec => []TypeOK
<1>1. IndInv => TypeOK
  BY DEF IndInv, OrderInv, Types, TypeOK, RequestRecords, RequestSteps, Codes,
         SettlerRecords, SettlerSteps, Verdicts
<1> QED
  BY <1>1, OrdersInvariant, PTL

(* A confirmed order has consumed the stock of each of its lines exactly once, *)
(* though HandlePaymentSucceeded is retried, redelivered and run concurrently, *)
(* and though any of its calls fails or takes effect without an answer.        *)
THEOREM ConfirmedOrdersAreSold == Spec => []ConfirmedIsSold
<1>1. IndInv => ConfirmedIsSold
  <2> SUFFICES ASSUME IndInv, NEW o \in OrderIds, orders[o] = "confirmed" PROVE sold[o] = Cart[o]
    BY DEF ConfirmedIsSold
  <2>1. sold[o] \in [Products -> Nat] /\ Cart[o] \in [Products -> 0..MaxInt]
    BY OrdersAssumption DEF IndInv, OrderInv, Types, Catalog!TypeOK, Catalog!PerLine
  <2>2. \A p \in Products : sold[o][p] = Cart[o][p]
    BY DEF IndInv, OrderInv, OrderKnows
  <2> QED
    BY <2>1, <2>2
<1> QED
  BY <1>1, OrdersInvariant, PTL

(* A cancelled order has consumed no stock and holds none. *)
THEOREM CancelledOrdersAreReleased == Spec => []CancelledIsReleased
<1>1. IndInv => CancelledIsReleased
  BY DEF IndInv, OrderInv, OrderKnows, CancelledIsReleased
<1> QED
  BY <1>1, OrdersInvariant, PTL

(* createOrder submits an order for payment only when it is recorded and every *)
(* line is held, and a line stays held until its outcome settles it.           *)
THEOREM SubmittedOrdersAreHeld == Spec => []SubmittedIsHeld
<1>1. IndInv => SubmittedIsHeld
  <2> SUFFICES ASSUME IndInv, NEW o \in submitted, NEW p \in Products
               PROVE  /\ orders[o] # "none"
                      /\ "succeeded" \notin Outcomes[o] => sold[o][p] = 0
                      /\ "failed" \notin Outcomes[o] => sold[o][p] + reservations[o][p] = Cart[o][p]
    BY DEF SubmittedIsHeld
  <2>1. o \in OrderIds /\ RequestKnows(o) /\ OrderKnows(o, Outcomes)
    BY DEF IndInv, OrderInv, Types
  <2> QED
    BY <2>1 DEF RequestKnows, OrderKnows
<1> QED
  BY <1>1, OrdersInvariant, PTL

-----------------------------------------------------------------------------
(* Stranded lines.  A line is as good as stranded once releaseAll has passed   *)
(* it, although the request has not answered yet: the lines counted are these. *)
LeakedLine(o, p) ==
    /\ Live(o) /\ orders[o] = "none" /\ reservations[o][p] > 0
    /\ At(o, "done") \/ (At(o, "release") /\ p \notin request[o].todo)

Leaked == {l \in OrderIds \X Products : LeakedLine(l[1], l[2])}

LeaksCounted == IsFiniteSet(Leaked) /\ Cardinality(Leaked) <= faults

LEMMA LeaksStayCounted ==
    ASSUME LeaksCounted, faults \in Nat, faults' \in Nat, NEW l,
           \/ Leaked' \subseteq Leaked /\ faults' >= faults
           \/ Leaked' \subseteq Leaked \cup {l} /\ faults' = faults + 1
    PROVE  LeaksCounted'
<1>1. IsFiniteSet(Leaked) /\ Cardinality(Leaked) \in Nat /\ Cardinality(Leaked) <= faults
  BY FS_CardinalityType DEF LeaksCounted
<1>2. CASE Leaked' \subseteq Leaked /\ faults' >= faults
  <2>1. IsFiniteSet(Leaked') /\ Cardinality(Leaked') <= Cardinality(Leaked) /\ Cardinality(Leaked') \in Nat
    BY <1>1, <1>2, FS_Subset, FS_CardinalityType
  <2> QED
    BY <1>1, <1>2, <2>1 DEF LeaksCounted
<1>3. CASE Leaked' \subseteq Leaked \cup {l} /\ faults' = faults + 1
  <2>1. /\ IsFiniteSet(Leaked \cup {l}) /\ Cardinality(Leaked \cup {l}) \in Nat
        /\ Cardinality(Leaked \cup {l}) <= Cardinality(Leaked) + 1
    BY <1>1, FS_AddElement, FS_CardinalityType
  <2>2. /\ IsFiniteSet(Leaked') /\ Cardinality(Leaked') <= Cardinality(Leaked \cup {l})
        /\ Cardinality(Leaked') \in Nat
    BY <1>3, <2>1, FS_Subset, FS_CardinalityType
  <2> QED
    BY <1>1, <1>3, <2>1, <2>2 DEF LeaksCounted
<1> QED
  BY <1>2, <1>3

(* A step of createOrder can strand lines of its own order only. *)
LEMMA LeaksOwnLines ==
    ASSUME Types, NEW o \in OrderIds, NEW S, OnlyRequest(o), gone \subseteq gone',
           orders' = orders \/ orders' = [orders EXCEPT ![o] = "pending"],
           \A x \in OrderIds \ {o}, y \in Products : reservations'[x][y] = reservations[x][y],
           \A y \in Products : LeakedLine(o, y)' => LeakedLine(o, y) \/ y \in S
    PROVE  Leaked' \subseteq Leaked \cup {<<o, y>> : y \in S}
<1>1. ASSUME NEW x \in OrderIds, NEW y \in Products, LeakedLine(x, y)'
      PROVE  LeakedLine(x, y) \/ (x = o /\ y \in S)
  <2>1. CASE x = o
    BY <1>1, <2>1
  <2>2. CASE x # o
    <3>1. request'[x] = request[x] /\ orders'[x] = orders[x] /\ reservations'[x][y] = reservations[x][y]
      BY <2>2 DEF OnlyRequest, Types
    <3> QED
      BY <1>1, <3>1 DEF LeakedLine, Live, At
  <2> QED
    BY <2>1, <2>2
<1>2. ASSUME NEW l \in OrderIds \X Products, LeakedLine(l[1], l[2])'
      PROVE  LeakedLine(l[1], l[2]) \/ l \in {<<o, y>> : y \in S}
  BY <1>1, <1>2
<1> QED
  BY <1>2 DEF Leaked

(* The steps of a handler, a crash and a client's leaving strand nothing. *)
LEMMA NoneReserved ==
    ASSUME \A x \in OrderIds : /\ Live(x)' => Live(x)
                               /\ orders'[x] = "none" => orders[x] = "none"
                               /\ request'[x] = request[x] \/ request'[x].pc = "dead",
           \A x \in OrderIds, y \in Products : reservations'[x][y] \in {0, reservations[x][y]}
    PROVE  Leaked' \subseteq Leaked
<1>1. ASSUME NEW x \in OrderIds, NEW y \in Products, LeakedLine(x, y)'
      PROVE  LeakedLine(x, y)
  BY <1>1 DEF LeakedLine, At
<1>2. ASSUME NEW l \in OrderIds \X Products, LeakedLine(l[1], l[2])' PROVE LeakedLine(l[1], l[2])
  BY <1>1, <1>2
<1> QED
  BY <1>2 DEF Leaked

(* GiveUp hands releaseAll every line that is held, whether it comes from the  *)
(* reservation loop or from recording the order.                               *)
LEMMA GiveUpStrandsNothing ==
    ASSUME NEW D \in Decisions, OrderInv(D), NEW o \in OrderIds, NEW code \in Codes,
           At(o, "reserve") \/ At(o, "record"), GiveUp(o, code),
           NEW y \in Products, reservations'[o][y] = reservations[o][y]
    PROVE  ~LeakedLine(o, y)'
<1>1. Types /\ RequestKnows(o)
  BY DEF OrderInv
<1>2. Moves(o, IF request[o].held = {} THEN "done" ELSE "release", request[o].held, request[o].held)
  BY <1>1, GiveUpMoves
<1>3. y \notin request[o].held => reservations[o][y] = 0
  BY <1>1, Quantities DEF RequestKnows, At
<1> QED
  BY <1>2, <1>3 DEF LeakedLine, Moves, At

(* A step of createOrder in which every call is answered strands nothing, and  *)
(* neither does one that fails without a line to lose.                         *)
LEMMA AnsweredStrandsNothing ==
    ASSUME NEW D \in Decisions, OrderInv(D), NEW o \in OrderIds,
           \/ RequestStep(o) \/ PublishOrder(o) \/ PublishUnanswered(o)
           \/ PriceFails(o) \/ ReserveFails(o) \/ RecordFails(o) \/ PublishFails(o)
           \/ RecordUnanswered(o)
    PROVE  Leaked' \subseteq Leaked
<1>1. Types /\ RequestKnows(o) /\ gone' = gone
  <2>1. Types /\ RequestKnows(o)
    BY DEF OrderInv
  <2>2. CASE RequestStep(o)
    BY <2>1, <2>2 DEF RequestStep, Price, ReserveLine, ReserveShort, ReleaseLine, RecordOrder
  <2>3. CASE ~RequestStep(o)
    BY <2>1, <2>3 DEF PublishOrder, PublishUnanswered, PriceFails, ReserveFails, RecordFails,
                PublishFails, RecordUnanswered
  <2> QED
    BY <2>2, <2>3
<1> DEFINE Quiet == /\ OnlyRequest(o)
                    /\ orders' = orders \/ orders' = [orders EXCEPT ![o] = "pending"]
                    /\ \A x \in OrderIds \ {o}, y \in Products :
                          reservations'[x][y] = reservations[x][y]
                    /\ \A y \in Products : LeakedLine(o, y)' => LeakedLine(o, y)
<1>2. SUFFICES Quiet
  <2>1. ASSUME Quiet PROVE Leaked' \subseteq Leaked \cup {<<o, y>> : y \in {}}
    BY <1>1, <2>1, LeaksOwnLines
  <2> QED
    BY <2>1
<1>3. CASE At(o, "new") /\ (Answer(o, 400) \/ Answer(o, 502)) /\ UNCHANGED <<catalogVars, orders>>
  <2>1. OnlyRequest(o)
    BY <1>1, <1>3, AnswerMoves DEF Codes, Moves
  <2>2. \A y \in Products : reservations'[o][y] = 0
    BY <1>1, <1>3 DEF RequestKnows, At, catalogVars
  <2> QED
    BY <1>3, <2>1, <2>2 DEF LeakedLine, catalogVars
<1>4. CASE Enter(o, "reserve", Lines(o)) /\ UNCHANGED <<catalogVars, orders>>
  <2>1. Moves(o, "reserve", Lines(o), request[o].held)
    BY <1>1, <1>4, EnterMoves DEF Lines, RequestSteps
  <2>2. \A y \in Products : ~LeakedLine(o, y)'
    BY <2>1 DEF LeakedLine, Moves, At
  <2> QED
    BY <1>4, <2>1, <2>2 DEF catalogVars, Moves
<1>5. CASE \E p \in Products : ReserveLine(o, p)
  <2>1. PICK p \in Products : ReserveLine(o, p)
    BY <1>5
  <2>2. Moves(o, IF request[o].todo \ {p} = {} THEN "record" ELSE "reserve",
              request[o].todo \ {p}, request[o].held \cup {p})
    BY <1>1, <2>1, ReservedMoves
  <2>3. p \in Lines(o) /\ reservations[o][p] = 0
    BY <1>1, <2>1 DEF RequestKnows, At, ReserveLine
  <2>4. \A x \in OrderIds \ {o}, y \in Products : reservations'[x][y] = reservations[x][y]
    <3>1. Catalog!Reserve(o, p, Cart[o][p])
      BY <2>1 DEF ReserveLine
    <3>2. \A x \in OrderIds, y \in Products :
             x # o \/ y # p => reservations'[x][y] = reservations[x][y]
      BY <1>1, <2>3, <3>1, ReserveEffect
    <3> QED
      BY <3>2
  <2>5. \A y \in Products : ~LeakedLine(o, y)'
    BY <2>2 DEF LeakedLine, Moves, At
  <2> QED
    BY <2>1, <2>2, <2>4, <2>5 DEF Moves, ReserveLine
<1>6. CASE \/ At(o, "reserve") /\ (GiveUp(o, 409) \/ GiveUp(o, 502)) /\ UNCHANGED <<catalogVars, orders>>
           \/ At(o, "record") /\ GiveUp(o, 500) /\ UNCHANGED <<catalogVars, orders>>
  <2>1. PICK code \in Codes : GiveUp(o, code)
    BY <1>6 DEF Codes
  <2>2. OnlyRequest(o)
    BY <1>1, <2>1, GiveUpMoves DEF Moves
  <2>3. UNCHANGED <<reservations, orders>>
    BY <1>6 DEF catalogVars
  <2>4. ASSUME NEW y \in Products PROVE ~LeakedLine(o, y)'
    BY <1>6, <2>1, <2>3, GiveUpStrandsNothing
  <2> QED
    BY <2>2, <2>3, <2>4
<1>7. CASE \E p \in Products : ReleaseLine(o, p)
  <2>1. PICK p \in Products : ReleaseLine(o, p)
    BY <1>7
  <2>2. At(o, "release") /\ Catalog!Release(o, p) /\ Released(o, p) /\ UNCHANGED orders
    BY <2>1 DEF ReleaseLine
  <2>3. Moves(o, IF request[o].todo \ {p} = {} THEN "done" ELSE "release",
              request[o].todo \ {p}, request[o].held)
    BY <1>1, <2>2, ReleasedMoves
  <2>4. /\ reservations'[o][p] = 0
        /\ \A x \in OrderIds, y \in Products :
              x # o \/ y # p => reservations'[x][y] = reservations[x][y]
    BY <1>1, <2>2, SettleEffect
  <2>5. ASSUME NEW y \in Products, LeakedLine(o, y)' PROVE LeakedLine(o, y)
    BY <1>1, <2>2, <2>3, <2>4, <2>5 DEF LeakedLine, Moves, At, Live
  <2> QED
    BY <2>2, <2>3, <2>4, <2>5 DEF Moves
<1>8. CASE RecordOrder(o) \/ RecordUnanswered(o)
  <2>1. orders' = [orders EXCEPT ![o] = "pending"] /\ UNCHANGED catalogVars
    BY <1>8 DEF RecordOrder, RecordUnanswered
  <2>2. OnlyRequest(o)
    BY <1>1, <1>8, EnterMoves, GiveUpMoves DEF RecordOrder, RecordUnanswered, Moves, RequestSteps, Codes
  <2>3. orders'[o] = "pending" /\ UNCHANGED reservations
    BY <1>1, <2>1 DEF Types, catalogVars
  <2> QED
    BY <2>1, <2>2, <2>3 DEF LeakedLine
<1>9. CASE At(o, "publish") /\ (Answer(o, 201) \/ Answer(o, 502)) /\ UNCHANGED <<catalogVars, orders>>
  <2>1. OnlyRequest(o)
    BY <1>1, <1>9, AnswerMoves DEF Codes, Moves
  <2>2. orders'[o] = "pending"
    BY <1>1, <1>9 DEF RequestKnows, At
  <2> QED
    BY <1>9, <2>1, <2>2 DEF LeakedLine, catalogVars
<1>10. CASE RequestStep(o)
  <2>1. CASE Price(o)
    BY <1>3, <1>4, <2>1 DEF Price
  <2>2. CASE \E p \in Products : ReserveShort(o, p)
    BY <1>6, <2>2 DEF ReserveShort
  <2> QED
    BY <1>5, <1>7, <1>8, <1>10, <2>1, <2>2 DEF RequestStep
<1>11. CASE PublishOrder(o) \/ PublishUnanswered(o) \/ PublishFails(o)
  BY <1>9, <1>11 DEF PublishOrder, PublishUnanswered, PublishFails
<1>12. CASE PriceFails(o) \/ ReserveFails(o) \/ RecordFails(o)
  BY <1>3, <1>6, <1>12 DEF PriceFails, ReserveFails, RecordFails
<1> HIDE DEF Quiet
<1> QED
  BY <1>8, <1>10, <1>11, <1>12

(* A lost call about one line strands that line at most. *)
LEMMA LostCallStrandsOneLine ==
    ASSUME NEW D \in Decisions, OrderInv(D), NEW o \in OrderIds, NEW p \in Products,
           ReserveUnanswered(o, p) \/ ReleaseFails(o, p)
    PROVE  Leaked' \subseteq Leaked \cup {<<o, p>>} /\ (o \in gone => Leaked' \subseteq Leaked)
<1>1. Types /\ RequestKnows(o) /\ gone' = gone /\ orders' = orders
  BY DEF OrderInv, ReserveUnanswered, ReleaseFails
<1>2. \A x \in OrderIds, y \in Products :
         x # o \/ y # p => reservations'[x][y] = reservations[x][y]
  <2>1. CASE ReserveUnanswered(o, p)
    <3>1. p \in Lines(o) /\ reservations[o][p] = 0
      BY <1>1, <2>1 DEF RequestKnows, At, ReserveUnanswered
    <3> QED
      BY <1>1, <2>1, <3>1, ReserveEffect DEF ReserveUnanswered
  <2>2. CASE ReleaseFails(o, p)
    BY <2>2 DEF ReleaseFails, catalogVars
  <2> QED
    BY <2>1, <2>2
<1>3. OnlyRequest(o)
  BY <1>1, GiveUpMoves, ReleasedMoves DEF ReserveUnanswered, ReleaseFails, Moves, Codes
<1>4. ASSUME NEW y \in Products, LeakedLine(o, y)' PROVE LeakedLine(o, y) \/ y = p
  <2>1. CASE ReserveUnanswered(o, p) /\ y # p
    BY <1>2, <1>4, <2>1, GiveUpStrandsNothing DEF ReserveUnanswered, Codes
  <2>2. CASE ReleaseFails(o, p) /\ y # p
    <3>1. Moves(o, IF request[o].todo \ {p} = {} THEN "done" ELSE "release",
                request[o].todo \ {p}, request[o].held)
      BY <1>1, <2>2, ReleasedMoves DEF ReleaseFails
    <3> QED
      BY <1>1, <1>2, <1>4, <2>2, <3>1 DEF LeakedLine, Moves, At, Live, ReleaseFails
  <2> QED
    BY <2>1, <2>2
<1>5. Leaked' \subseteq Leaked \cup {<<o, y>> : y \in {p}}
  BY <1>1, <1>2, <1>3, <1>4, LeaksOwnLines
<1>6. ASSUME o \in gone PROVE Leaked' \subseteq Leaked
  <2>1. \A y \in Products : ~LeakedLine(o, y)'
    BY <1>1, <1>6 DEF LeakedLine, Live
  <2>2. Leaked' \subseteq Leaked \cup {<<o, y>> : y \in {}}
    BY <1>1, <1>2, <1>3, <2>1, LeaksOwnLines
  <2> QED
    BY <2>2
<1> QED
  BY <1>5, <1>6

(* What the saga handlers, a crash, a client's leaving and a stutter do. *)
LEMMA OthersStrandNothing ==
    ASSUME NEW D \in Decisions, OrderInv(D),
           \/ \E w \in Settlers : \/ \E o \in submitted : \E v \in D[o] : BeginSettle(w, o, v)
                                  \/ SettlerStep(w) \/ SettleFails(w)
                                  \/ SettlerCallUnanswered(w) \/ SettleReturn(w)
           \/ \E o \in OrderIds : ClientGone(o)
           \/ Crash
           \/ UNCHANGED orderVars
    PROVE  Leaked' \subseteq Leaked
<1>1. CASE \/ \E w \in Settlers : \/ \E o \in submitted : \E v \in D[o] : BeginSettle(w, o, v)
                                  \/ LoadOrder(w) \/ SettleFails(w) \/ SettleReturn(w)
           \/ \E o \in OrderIds : ClientGone(o)
           \/ UNCHANGED orderVars
  <2>1. UNCHANGED <<catalogVars, orders, request>> /\ gone \subseteq gone'
    BY <1>1 DEF BeginSettle, LoadOrder, SettleFails, SettleReturn, ClientGone, orderVars
  <2> QED
    BY <2>1, NoneReserved DEF catalogVars, Live
<1>2. CASE \E w \in Settlers, p \in Products : SettleLine(w, p) \/ SettleLineUnanswered(w, p)
  <2>1. PICK w \in Settlers, p \in Products : SettleLine(w, p) \/ SettleLineUnanswered(w, p)
    BY <1>2
  <2>2. /\ settler[w].pc = "lines" /\ SettleCall(w, p)
        /\ UNCHANGED <<orders, request, gone, submitted>>
    BY <2>1 DEF SettleLine, SettleLineUnanswered, Doing
  <2>3. \A x \in OrderIds, y \in Products : reservations'[x][y] \in {0, reservations[x][y]}
    BY <2>2, SettleCallKeeps
  <2> QED
    BY <2>2, <2>3, NoneReserved DEF Live
<1>3. CASE \E w \in Settlers : SettleStatus(w) \/ SettleStatusUnanswered(w)
  <2>1. PICK w \in Settlers : SettleStatus(w) \/ SettleStatusUnanswered(w)
    BY <1>3
  <2>2. /\ settler[w].pc = "status" /\ orders' = NewStatus(w)
        /\ UNCHANGED <<catalogVars, request, gone, submitted>>
    BY <2>1 DEF SettleStatus, SettleStatusUnanswered, Doing
  <2>3. \A x \in OrderIds : orders'[x] = "none" => orders[x] = "none"
    BY <2>2, Settling DEF NewStatus, Types
  <2> QED
    BY <2>2, <2>3, NoneReserved DEF Live, catalogVars
<1>4. CASE Crash
  <2>1. /\ UNCHANGED <<catalogVars, orders, gone>>
        /\ \A o \in OrderIds : \/ request'[o] = request[o]
                               \/ request'[o] = [request[o] EXCEPT !.pc = "dead"]
    BY <1>4 DEF Crash
  <2>2. \A o \in OrderIds : request'[o] = request[o] \/ request'[o].pc = "dead"
    BY <2>1 DEF OrderInv, Types, RequestRecords
  <2> QED
    BY <2>1, <2>2, NoneReserved DEF Live, catalogVars
<1> QED
  BY <1>1, <1>2, <1>3, <1>4 DEF SettlerStep, SettlerCallUnanswered

(* A Reserve that takes effect without an answer, or a lost Release, strands   *)
(* the line it was about and no other: releaseAll gives back the rest, so no   *)
(* more lines are stranded than calls were lost.                               *)
THEOREM FaultsStrandOneLineEach == Spec => []EachFaultStrandsOneLine
<1>1. Init => LeaksCounted
  <2> SUFFICES ASSUME Init PROVE LeaksCounted
    OBVIOUS
  <2>1. Leaked = {} /\ faults = 0
    BY DEF Init, OrdersInit, Leaked, LeakedLine, At
  <2> QED
    BY <2>1, FS_EmptySet DEF LeaksCounted
<1>2. IndInv /\ LeaksCounted /\ [Next]_vars => LeaksCounted'
  <2> SUFFICES ASSUME IndInv, LeaksCounted, [Next]_vars PROVE LeaksCounted'
    OBVIOUS
  <2>1. OrderInv(Outcomes) /\ Outcomes \in Decisions /\ faults \in Nat /\ faults' \in Nat
    BY OneOutcome, FaultsBounded, OrdersAssumption DEF IndInv
  <2>2. /\ faults' >= faults
        /\ \A o \in OrderIds, kind \in {"lost_request", "lost_reply"} :
              RequestFault(o, kind) => o \in gone \/ faults' = faults + 1
    BY <2>1 DEF Next, vars, Fault, RequestFault
  <2>3. CASE Leaked' \subseteq Leaked
    BY <2>1, <2>2, <2>3, LeaksStayCounted
  <2>4. CASE \E o \in OrderIds : RequestCallFails(o) /\ RequestFault(o, "lost_request")
    <3>1. PICK o \in OrderIds : RequestCallFails(o) /\ RequestFault(o, "lost_request")
      BY <2>4
    <3>2. CASE \E p \in Products : ReleaseFails(o, p)
      BY <2>1, <2>2, <2>3, <3>1, <3>2, LostCallStrandsOneLine, LeaksStayCounted
    <3> QED
      BY <2>1, <2>3, <3>1, <3>2, AnsweredStrandsNothing DEF RequestCallFails
  <2>5. CASE \E o \in OrderIds :
                /\ RequestCallUnanswered(o) \/ PublishUnanswered(o)
                /\ RequestFault(o, "lost_reply")
    <3>1. PICK o \in OrderIds : /\ RequestCallUnanswered(o) \/ PublishUnanswered(o)
                                /\ RequestFault(o, "lost_reply")
      BY <2>5
    <3>2. CASE \E p \in Products : ReserveUnanswered(o, p)
      BY <2>1, <2>2, <2>3, <3>1, <3>2, LostCallStrandsOneLine, LeaksStayCounted
    <3> QED
      BY <2>1, <2>3, <3>1, <3>2, AnsweredStrandsNothing DEF RequestCallUnanswered
  <2>6. CASE \E o \in OrderIds : RequestStep(o) \/ PublishOrder(o)
    BY <2>1, <2>3, <2>6, AnsweredStrandsNothing
  <2>7. CASE \/ \E w \in Settlers : \/ \E o \in submitted : \E v \in Outcomes[o] : BeginSettle(w, o, v)
                                    \/ SettlerStep(w) \/ SettleFails(w)
                                    \/ SettlerCallUnanswered(w) \/ SettleReturn(w)
             \/ \E o \in OrderIds : ClientGone(o)
             \/ Crash
             \/ UNCHANGED orderVars
    BY <2>1, <2>3, <2>7, OthersStrandNothing
  <2> QED
    BY <2>4, <2>5, <2>6, <2>7 DEF Next, vars
<1>3. IndInv /\ LeaksCounted => EachFaultStrandsOneLine
  <2> SUFFICES ASSUME IndInv, LeaksCounted PROVE EachFaultStrandsOneLine
    OBVIOUS
  <2>1. StrandedLines \subseteq Leaked
    BY DEF StrandedLines, Leaked, LeakedLine
  <2>2. /\ IsFiniteSet(StrandedLines) /\ Cardinality(StrandedLines) <= Cardinality(Leaked)
        /\ Cardinality(StrandedLines) \in Nat /\ Cardinality(Leaked) \in Nat
    BY <2>1, FS_Subset, FS_CardinalityType DEF LeaksCounted
  <2>3. faults \in Nat /\ Cardinality(Leaked) <= faults
    BY OrdersAssumption DEF IndInv, LeaksCounted
  <2> QED
    BY <2>2, <2>3 DEF EachFaultStrandsOneLine
<1> QED
  BY <1>1, <1>2, <1>3, OrdersInvariant, PTL DEF Spec

-----------------------------------------------------------------------------
(* What an operation does to lines and orders, for the saga: one line is held, *)
(* let go or settled, or one order is recorded, submitted or given its status. *)
OnlyLine(o, p) ==
    /\ \A x \in OrderIds, y \in Products : x # o \/ y # p =>
          reservations'[x][y] = reservations[x][y] /\ sold'[x][y] = sold[x][y]
    /\ UNCHANGED <<orders, submitted>>

HoldsLine(o, p) ==
    /\ OnlyLine(o, p) /\ p \in Lines(o) /\ orders[o] = "none"
    /\ reservations[o][p] = 0 /\ reservations'[o][p] > 0
    /\ sold[o][p] = 0 /\ sold'[o][p] = 0

LetsGo(o, p) ==
    /\ OnlyLine(o, p) /\ o \notin submitted /\ p \in Products
    /\ reservations'[o][p] = 0
    /\ sold[o][p] = 0 /\ sold'[o][p] = 0

SellsLine(o, p, D) ==
    /\ OnlyLine(o, p) /\ o \in submitted /\ "succeeded" \in D[o] /\ p \in Lines(o)
    /\ reservations[o][p] > 0 => sold[o][p] = 0
    /\ reservations'[o][p] = 0 /\ sold'[o][p] > 0

GivesBack(o, p, D) ==
    /\ OnlyLine(o, p) /\ o \in submitted /\ "failed" \in D[o] /\ p \in Lines(o)
    /\ reservations'[o][p] = 0
    /\ sold[o][p] = 0 /\ sold'[o][p] = 0

Untouched == UNCHANGED <<reservations, sold>>

AllHeld(o) == \A p \in Products : reservations[o][p] = Cart[o][p] /\ sold[o][p] = 0

RecordsOrder(o) ==
    /\ Untouched /\ UNCHANGED submitted /\ AllHeld(o)
    /\ orders[o] = "none" /\ orders' = [orders EXCEPT ![o] = "pending"]

SubmitsOrder(o) ==
    /\ Untouched /\ UNCHANGED orders /\ AllHeld(o) /\ o \notin submitted
    /\ orders[o] = "pending" /\ submitted' = submitted \cup {o}

SettlesOrder(o, D) ==
    /\ Untouched /\ UNCHANGED submitted /\ o \in submitted /\ orders[o] = "pending"
    /\ \/ /\ "succeeded" \in D[o] /\ \A p \in Products : sold[o][p] = Cart[o][p]
          /\ orders' = [orders EXCEPT ![o] = "confirmed"]
       \/ /\ "failed" \in D[o] /\ \A p \in Products : sold[o][p] = 0 /\ reservations[o][p] = 0
          /\ orders' = [orders EXCEPT ![o] = "cancelled"]

Effect(D) ==
    \/ Untouched /\ UNCHANGED <<orders, submitted>>
    \/ \E o \in OrderIds, p \in Products :
          HoldsLine(o, p) \/ LetsGo(o, p) \/ SellsLine(o, p, D) \/ GivesBack(o, p, D)
    \/ \E o \in OrderIds : RecordsOrder(o) \/ SubmitsOrder(o) \/ SettlesOrder(o, D)

(* The effects of createOrder's steps. *)
LEMMA CreateOrderEffect ==
    ASSUME NEW D \in Decisions, OrderInv(D), NEW o \in OrderIds,
           \/ RequestStep(o) \/ RequestCallFails(o) \/ RequestCallUnanswered(o)
           \/ PublishOrder(o) \/ PublishUnanswered(o) \/ ClientGone(o)
    PROVE  Effect(D)
<1>1. Types /\ RequestKnows(o)
  BY DEF OrderInv
<1>2. CASE \E p \in Products : ReserveLine(o, p) \/ ReserveUnanswered(o, p)
  <2>1. PICK p \in Products : ReserveLine(o, p) \/ ReserveUnanswered(o, p)
    BY <1>2
  <2>2. /\ At(o, "reserve") /\ p \in request[o].todo /\ Catalog!Reserve(o, p, Cart[o][p])
        /\ UNCHANGED <<orders, submitted>>
    BY <2>1 DEF ReserveLine, ReserveUnanswered
  <2>3. p \in Lines(o) /\ reservations[o][p] = 0 /\ orders[o] = "none" /\ sold[o][p] = 0
    BY <1>1, <2>2 DEF RequestKnows, At
  <2>4. /\ sold' = sold /\ reservations'[o][p] = Cart[o][p] /\ Cart[o][p] > 0
        /\ \A x \in OrderIds, y \in Products :
              x # o \/ y # p => reservations'[x][y] = reservations[x][y]
    BY <1>1, <2>2, <2>3, ReserveEffect, Quantities
  <2>5. HoldsLine(o, p)
    BY <2>2, <2>3, <2>4 DEF HoldsLine, OnlyLine
  <2> QED
    BY <2>5 DEF Effect
<1>3. CASE \E p \in Products : ReleaseLine(o, p)
  <2>1. PICK p \in Products : ReleaseLine(o, p)
    BY <1>3
  <2>2. At(o, "release") /\ Catalog!Release(o, p) /\ UNCHANGED <<orders, submitted>>
    BY <2>1 DEF ReleaseLine
  <2>3. o \notin submitted /\ sold[o][p] = 0
    BY <1>1, <2>2 DEF RequestKnows, At
  <2>4. sold' = sold
    BY <2>2 DEF Catalog!Release
  <2>5. /\ reservations'[o][p] = 0
        /\ \A x \in OrderIds, y \in Products :
              x # o \/ y # p => reservations'[x][y] = reservations[x][y]
    BY <1>1, <2>2, SettleEffect
  <2>6. LetsGo(o, p)
    BY <2>2, <2>3, <2>4, <2>5 DEF LetsGo, OnlyLine
  <2> QED
    BY <2>6 DEF Effect
<1>4. CASE RecordOrder(o) \/ RecordUnanswered(o)
  <2>1. /\ At(o, "record") /\ orders' = [orders EXCEPT ![o] = "pending"]
        /\ UNCHANGED <<reservations, sold, submitted>>
    BY <1>4 DEF RecordOrder, RecordUnanswered, catalogVars
  <2>2. AllHeld(o) /\ orders[o] = "none"
    BY <1>1, <2>1 DEF RequestKnows, At, AllHeld
  <2> QED
    BY <2>1, <2>2 DEF Effect, RecordsOrder, Untouched
<1>5. CASE PublishOrder(o) \/ PublishUnanswered(o)
  <2>1. /\ At(o, "publish") /\ submitted' = submitted \cup {o}
        /\ UNCHANGED <<reservations, sold, orders>>
    BY <1>5 DEF PublishOrder, PublishUnanswered, catalogVars
  <2>2. AllHeld(o) /\ orders[o] = "pending" /\ o \notin submitted
    BY <1>1, <2>1 DEF RequestKnows, At, AllHeld
  <2> QED
    BY <2>1, <2>2 DEF Effect, SubmitsOrder, Untouched
<1>6. CASE UNCHANGED <<catalogVars, orders, submitted>>
  BY <1>6 DEF Effect, Untouched, catalogVars
<1>7. CASE RequestStep(o)
  BY <1>2, <1>3, <1>4, <1>6, <1>7 DEF RequestStep, Price, ReserveShort
<1>8. CASE RequestCallFails(o) \/ ClientGone(o)
  BY <1>6, <1>8 DEF RequestCallFails, PriceFails, ReserveFails, ReleaseFails, RecordFails,
                    PublishFails, ClientGone
<1> QED
  BY <1>2, <1>4, <1>5, <1>7, <1>8 DEF RequestCallUnanswered

(* The effects of a saga handler's steps. *)
LEMMA SettlerEffect ==
    ASSUME NEW D \in Decisions, OrderInv(D), NEW w \in Settlers,
           SettlerStep(w) \/ SettleFails(w) \/ SettlerCallUnanswered(w) \/ SettleReturn(w)
    PROVE  Effect(D)
<1>1. PICK o : o = settler[w].order
  OBVIOUS
<1>2. CASE \E p \in Products : SettleLine(w, p) \/ SettleLineUnanswered(w, p)
  <2>1. PICK p \in Products : SettleLine(w, p) \/ SettleLineUnanswered(w, p)
    BY <1>2
  <2>2. /\ settler[w].pc = "lines" /\ p \in settler[w].todo /\ SettleCall(w, p)
        /\ UNCHANGED <<orders, submitted>>
    BY <2>1 DEF SettleLine, SettleLineUnanswered, Doing
  <2>3. /\ Types /\ o \in submitted /\ o \in OrderIds /\ OrderKnows(o, D) /\ RequestKnows(o)
        /\ settler[w].verdict \in D[o] /\ settler[w].verdict \in {"succeeded", "failed"}
        /\ p \in Lines(o)
    BY <1>1, <2>2, Settling
  <2>4. /\ reservations'[o][p] = 0
        /\ \A x \in OrderIds, y \in Products : x # o \/ y # p =>
              reservations'[x][y] = reservations[x][y] /\ sold'[x][y] = sold[x][y]
        /\ OrderKnows(o, D)'
    BY <1>1, <2>2, SettleCallKeeps
  <2>5. /\ Cart[o][p] \in Nat /\ Cart[o][p] > 0 /\ sold[o][p] \in Nat
        /\ reservations[o][p] \in {0, Cart[o][p]}
        /\ ~("succeeded" \in D[o] /\ "failed" \in D[o])
    BY <2>3, Quantities DEF RequestKnows, Decisions
  <2>6. sold'[o][p] \in Nat
    <3>1. Catalog!TypeOK'
      BY <1>1, <2>2, SettleCallKeeps
    <3> QED
      BY <2>3, <3>1 DEF Catalog!TypeOK, Catalog!PerLine
  <2>7. CASE "succeeded" \in D[o]
    <3>1. /\ sold[o][p] + reservations[o][p] = Cart[o][p]
          /\ sold'[o][p] + reservations'[o][p] = Cart[o][p]
      BY <2>2, <2>3, <2>4, <2>5, <2>7 DEF OrderKnows
    <3>2. (reservations[o][p] > 0 => sold[o][p] = 0) /\ sold'[o][p] > 0
      BY <2>4, <2>5, <2>6, <3>1
    <3>3. SellsLine(o, p, D)
      BY <2>2, <2>3, <2>4, <2>7, <3>2 DEF SellsLine, OnlyLine
    <3> QED
      BY <2>3, <3>3 DEF Effect
  <2>8. CASE "failed" \in D[o]
    <3>1. sold[o][p] = 0 /\ sold'[o][p] = 0
      BY <2>2, <2>3, <2>4, <2>5, <2>8 DEF OrderKnows
    <3>2. GivesBack(o, p, D)
      BY <2>2, <2>3, <2>4, <2>8, <3>1 DEF GivesBack, OnlyLine
    <3> QED
      BY <2>3, <3>2 DEF Effect
  <2> QED
    BY <2>3, <2>7, <2>8
<1>3. CASE SettleStatus(w) \/ SettleStatusUnanswered(w)
  <2>1. /\ settler[w].pc = "status" /\ orders' = NewStatus(w)
        /\ UNCHANGED <<reservations, sold, submitted>>
    BY <1>3 DEF SettleStatus, SettleStatusUnanswered, Doing, catalogVars
  <2>2. /\ Types /\ o \in submitted /\ o \in OrderIds /\ OrderKnows(o, D) /\ RequestKnows(o)
        /\ settler[w].verdict \in D[o] /\ settler[w].verdict \in {"succeeded", "failed"}
        /\ SettlerKnows(w, D)
    BY <1>1, <2>1, Settling
  <2>3. \A p \in Products : reservations[o][p] = 0
    BY <1>1, <2>1, <2>2, Quantities DEF SettlerKnows, RequestKnows
  <2>4. /\ "failed" \notin D[o] => \A p \in Products : sold[o][p] = Cart[o][p]
        /\ "succeeded" \notin D[o] => \A p \in Products : sold[o][p] = 0
        /\ ~("succeeded" \in D[o] /\ "failed" \in D[o])
    BY <2>2, <2>3, Quantities DEF OrderKnows, Decisions
  <2>5. CASE orders[o] # "pending"
    <3>1. orders' = orders
      BY <1>1, <2>1, <2>5 DEF NewStatus
    <3> QED
      BY <2>1, <3>1 DEF Effect, Untouched
  <2>6. CASE orders[o] = "pending"
    <3>1. SettlesOrder(o, D)
      BY <1>1, <2>1, <2>2, <2>3, <2>4, <2>6 DEF NewStatus, SettlesOrder, Untouched
    <3> QED
      BY <2>2, <3>1 DEF Effect
  <2> QED
    BY <2>5, <2>6
<1>4. CASE LoadOrder(w) \/ SettleFails(w) \/ SettleReturn(w)
  BY <1>4 DEF Effect, Untouched, LoadOrder, SettleFails, SettleReturn, catalogVars
<1> QED
  BY <1>2, <1>3, <1>4 DEF SettlerStep, SettlerCallUnanswered

LEMMA OperationEffect ==
    ASSUME NEW D \in Decisions, OrderInv(D), Operation(D)
    PROVE  Effect(D)
<1>1. CASE \/ \E w \in Settlers, o \in submitted : \E v \in D[o] : BeginSettle(w, o, v)
           \/ Crash
           \/ UNCHANGED orderVars
  BY <1>1 DEF BeginSettle, Crash, orderVars, catalogVars, Effect, Untouched
<1> QED
  BY <1>1, CreateOrderEffect, SettlerEffect DEF Operation
=============================================================================
