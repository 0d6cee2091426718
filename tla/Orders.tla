------------------------------- MODULE Orders -------------------------------
(***************************************************************************)
(* The orders service (services/orders) over the catalog it calls: the     *)
(* HTTP handler createOrder, one request per order id since the id is      *)
(* fresh, and the saga handlers HandlePaymentSucceeded and                 *)
(* HandlePaymentFailed.  Every call the code makes to the catalog, its own *)
(* database or the broker is one step, and a step may be the one at which  *)
(* the call fails.                                                         *)
(*                                                                         *)
(* The order in which a request lists its lines is the client's, and the   *)
(* order ORDER BY product_id gives them is that of random UUIDs, so a loop *)
(* over lines takes them in any order.                                     *)
(***************************************************************************)
EXTENDS Integers, FiniteSets

CONSTANTS
    OrderIds,
    Products,
    Cart,         \* quantity of each product an order asks for, 0: no line
    Listed,       \* stock of the products the catalog lists at the start
    Settlers,     \* executions of the saga handlers that may overlap
    Outcomes,     \* payment outcomes an order may be told, when this module runs alone
    FaultKinds,   \* which of the faults below may happen
    MaxFaults,    \* bound: how often a fault happens
    MaxInt,       \* largest INTEGER
    MaxSupply     \* the catalog's bound on supply

\* An order is told one outcome: payment never announces both (OutcomesAgree,
\* from which CheckoutProofs has it; saga_test.go also tells a settled order the
\* other one, which UpdateStatus then ignores).
ASSUME OrdersAssumption ==
    /\ MaxInt \in Nat
    /\ MaxSupply \in Nat
    /\ Cart \in [OrderIds -> [Products -> 0..MaxInt]]
    /\ \A o \in OrderIds : \E p \in Products : Cart[o][p] > 0
    /\ DOMAIN Listed \subseteq Products
    /\ \A p \in DOMAIN Listed : Listed[p] \in 0..MaxInt /\ Listed[p] <= MaxSupply
    /\ Outcomes \in [OrderIds -> SUBSET {"succeeded", "failed"}]
    /\ \A o \in OrderIds : Outcomes[o] # {"succeeded", "failed"}
    /\ MaxFaults \in Nat

VARIABLES
    products, stock, reserved, reservations, sold, supplied,  \* the catalog's
    orders,      \* orders.status, "none" while there is no row
    request,     \* createOrder's step and locals, by order
    gone,        \* orders whose request context is cancelled
    submitted,   \* history: orders whose OrderCreated the broker has stored
    settler,     \* the saga handlers' step and locals
    faults

Catalog == INSTANCE Catalog WITH Orders <- OrderIds

catalogVars == <<products, stock, reserved, reservations, sold, supplied>>
orderVars == <<catalogVars, orders, request, gone, submitted, settler>>

\* The items of an order.
Lines(o) == {p \in Products : Cart[o][p] > 0}

Idle == [pc |-> "idle", order |-> "none", verdict |-> "none", todo |-> {}]

OrdersInit ==
    /\ products = DOMAIN Listed
    /\ stock = [p \in Products |-> IF p \in products THEN Listed[p] ELSE 0]
    /\ supplied = stock
    /\ reserved = [p \in Products |-> 0]
    /\ reservations = [o \in OrderIds |-> [p \in Products |-> 0]]
    /\ sold = [o \in OrderIds |-> [p \in Products |-> 0]]
    /\ orders = [o \in OrderIds |-> "none"]
    /\ request = [o \in OrderIds |-> [pc |-> "new", todo |-> {}, held |-> {}, code |-> 0]]
    /\ gone = {}
    /\ submitted = {}
    /\ settler = [w \in Settlers |-> Idle]

-----------------------------------------------------------------------------
\* createOrder.

At(o, pc) == request[o].pc = pc

\* The request's context is live; with a cancelled one no call is answered,
\* though one that was under way may still take effect.
Live(o) == o \notin gone

Enter(o, pc, todo) == request' = [request EXCEPT ![o].pc = pc, ![o].todo = todo]

Answer(o, code) == request' = [request EXCEPT ![o].pc = "done", ![o].code = code]

\* Mutant of GiveUp: no releaseAll.
GiveUpAtOnce(o, code) == Answer(o, code)

\* The handler gives up with this status code, after releaseAll has gone over
\* the lines whose Reserve was answered.
GiveUp(o, code) ==
    LET held == request[o].held
    IN  request' = [request EXCEPT ![o].pc = IF held = {} THEN "done" ELSE "release",
                                   ![o].todo = held,
                                   ![o].code = code]

\* Mutant of Price: the reservation loop is skipped.
PriceSkipsReserve(o) ==
    /\ At(o, "new")
    /\ Enter(o, "record", {})
    /\ UNCHANGED <<catalogVars, orders, gone, submitted, settler>>

\* Validation passed; price each line with a GET, which changes nothing.
Price(o) ==
    /\ At(o, "new")
    /\ IF Lines(o) \subseteq products THEN Enter(o, "reserve", Lines(o)) ELSE Answer(o, 400)
    /\ UNCHANGED <<catalogVars, orders, gone, submitted, settler>>

PriceFails(o) ==
    /\ At(o, "new")
    /\ Answer(o, 502)
    /\ UNCHANGED <<catalogVars, orders, gone, submitted, settler>>

ReserveLine(o, p) ==
    LET left == request[o].todo \ {p}
    IN  /\ At(o, "reserve") /\ Live(o) /\ p \in request[o].todo
        /\ Catalog!Reserve(o, p, Cart[o][p])
        /\ request' = [request EXCEPT ![o].pc = IF left = {} THEN "record" ELSE "reserve",
                                      ![o].todo = left,
                                      ![o].held = @ \cup {p}]
        /\ UNCHANGED <<orders, gone, submitted, settler>>

\* 409: not enough available.
ReserveShort(o, p) ==
    /\ At(o, "reserve") /\ Live(o) /\ p \in request[o].todo
    /\ Catalog!ReserveRefused(o, p, Cart[o][p])
    /\ GiveUp(o, 409)
    /\ UNCHANGED <<catalogVars, orders, gone, submitted, settler>>

ReserveFails(o) ==
    /\ At(o, "reserve")
    /\ GiveUp(o, 502)
    /\ UNCHANGED <<catalogVars, orders, gone, submitted, settler>>

\* The catalog places the hold, but the answer is late or lost: the line is
\* not among those releaseAll is given.
ReserveUnanswered(o, p) ==
    /\ At(o, "reserve") /\ p \in request[o].todo
    /\ Catalog!Reserve(o, p, Cart[o][p])
    /\ GiveUp(o, 502)
    /\ UNCHANGED <<orders, gone, submitted, settler>>

\* releaseAll logs an error and goes on to the next line.
Released(o, p) ==
    LET left == request[o].todo \ {p}
    IN  request' = [request EXCEPT ![o].pc = IF left = {} THEN "done" ELSE "release",
                                   ![o].todo = left]

ReleaseLine(o, p) ==
    /\ At(o, "release") /\ p \in request[o].todo
    /\ Catalog!Release(o, p)
    /\ Released(o, p)
    /\ UNCHANGED <<orders, gone, submitted, settler>>

ReleaseFails(o, p) ==
    /\ At(o, "release") /\ p \in request[o].todo
    /\ Released(o, p)
    /\ UNCHANGED <<catalogVars, orders, gone, submitted, settler>>

\* Store.CreateOrder: one transaction for the row and its items, then a re-read.
RecordOrder(o) ==
    /\ At(o, "record") /\ Live(o)
    /\ orders' = [orders EXCEPT ![o] = "pending"]
    /\ Enter(o, "publish", {})
    /\ UNCHANGED <<catalogVars, gone, submitted, settler>>

RecordFails(o) ==
    /\ At(o, "record")
    /\ GiveUp(o, 500)
    /\ UNCHANGED <<catalogVars, orders, gone, submitted, settler>>

\* The transaction commits, but the commit's answer or the re-read fails.
RecordUnanswered(o) ==
    /\ At(o, "record")
    /\ orders' = [orders EXCEPT ![o] = "pending"]
    /\ GiveUp(o, 500)
    /\ UNCHANGED <<catalogVars, gone, submitted, settler>>

\* PublishOrderCreated.
PublishOrder(o) ==
    /\ At(o, "publish") /\ Live(o)
    /\ submitted' = submitted \cup {o}
    /\ Answer(o, 201)
    /\ UNCHANGED <<catalogVars, orders, gone, settler>>

PublishFails(o) ==
    /\ At(o, "publish")
    /\ Answer(o, 502)
    /\ UNCHANGED <<catalogVars, orders, gone, submitted, settler>>

PublishUnanswered(o) ==
    /\ At(o, "publish")
    /\ submitted' = submitted \cup {o}
    /\ Answer(o, 502)
    /\ UNCHANGED <<catalogVars, orders, gone, settler>>

\* The client disconnects: net/http cancels the request's context.
ClientGone(o) ==
    /\ request[o].pc \in {"reserve", "release", "record", "publish"}
    /\ Live(o)
    /\ gone' = gone \cup {o}
    /\ UNCHANGED <<catalogVars, orders, request, submitted, settler>>

-----------------------------------------------------------------------------
\* The saga handlers.

Doing(w, pc) == settler[w].pc = pc

\* A payment outcome is delivered.
BeginSettle(w, o, verdict) ==
    /\ Doing(w, "idle")
    /\ settler' = [settler EXCEPT ![w] = [pc |-> "load", order |-> o, verdict |-> verdict, todo |-> {}]]
    /\ UNCHANGED <<catalogVars, orders, request, gone, submitted>>

\* Mutant of LoadOrder: the status changes before the lines.
StatusFirst(w) ==
    /\ Doing(w, "load")
    /\ settler' = [settler EXCEPT ![w].pc = "status", ![w].todo = {}]
    /\ UNCHANGED <<catalogVars, orders, request, gone, submitted>>

\* OrderByID: an unknown order is skipped.
LoadOrder(w) ==
    LET o == settler[w].order
    IN  /\ Doing(w, "load")
        /\ settler' = IF orders[o] = "none"
                      THEN [settler EXCEPT ![w].pc = "ok"]
                      ELSE [settler EXCEPT ![w].pc = "lines", ![w].todo = Lines(o)]
        /\ UNCHANGED <<catalogVars, orders, request, gone, submitted>>

\* Mutant of SettleCall: a failed payment consumes the stock too.
CommitAlways(w, p) == Catalog!Commit(settler[w].order, p)

\* The catalog call of the loop: Commit on success, Release on failure.
SettleCall(w, p) ==
    IF settler[w].verdict = "succeeded"
    THEN Catalog!Commit(settler[w].order, p)
    ELSE Catalog!Release(settler[w].order, p)

SettleLine(w, p) ==
    LET left == settler[w].todo \ {p}
    IN  /\ Doing(w, "lines") /\ p \in settler[w].todo
        /\ SettleCall(w, p)
        /\ settler' = [settler EXCEPT ![w].pc = IF left = {} THEN "status" ELSE "lines",
                                      ![w].todo = left]
        /\ UNCHANGED <<orders, request, gone, submitted>>

\* Mutant of NewStatus: the payment's word for the status.
StatusIsVerdict(w) == [orders EXCEPT ![settler[w].order] = settler[w].verdict]

\* UpdateStatus leaves only a pending order for a terminal one.
NewStatus(w) ==
    LET o == settler[w].order
    IN  IF orders[o] = "pending"
        THEN [orders EXCEPT ![o] = IF settler[w].verdict = "succeeded"
                                   THEN "confirmed" ELSE "cancelled"]
        ELSE orders

\* An order already terminal is no error, whichever status it has: the
\* handlers turn ErrInvalidTransition into success.
SettleStatus(w) ==
    /\ Doing(w, "status")
    /\ orders' = NewStatus(w)
    /\ settler' = [settler EXCEPT ![w].pc = "ok"]
    /\ UNCHANGED <<catalogVars, request, gone, submitted>>

SettleFails(w) ==
    /\ settler[w].pc \in {"load", "lines", "status"}
    /\ settler' = [settler EXCEPT ![w].pc = "error"]
    /\ UNCHANGED <<catalogVars, orders, request, gone, submitted>>

SettleLineUnanswered(w, p) ==
    /\ Doing(w, "lines") /\ p \in settler[w].todo
    /\ SettleCall(w, p)
    /\ settler' = [settler EXCEPT ![w].pc = "error"]
    /\ UNCHANGED <<orders, request, gone, submitted>>

SettleStatusUnanswered(w) ==
    /\ Doing(w, "status")
    /\ orders' = NewStatus(w)
    /\ settler' = [settler EXCEPT ![w].pc = "error"]
    /\ UNCHANGED <<catalogVars, request, gone, submitted>>

SettleReturn(w) ==
    /\ settler[w].pc \in {"ok", "error"}
    /\ settler' = [settler EXCEPT ![w] = Idle]
    /\ UNCHANGED <<catalogVars, orders, request, gone, submitted>>

\* The service dies and is started again: requests and handlers in progress
\* are lost, the databases keep what was committed.
Crash ==
    /\ request' = [o \in OrderIds |->
                     IF request[o].pc \in {"new", "done"} THEN request[o]
                     ELSE [request[o] EXCEPT !.pc = "dead"]]
    /\ settler' = [w \in Settlers |-> Idle]
    /\ UNCHANGED <<catalogVars, orders, gone, submitted>>

-----------------------------------------------------------------------------
\* The steps of a request up to the one that publishes.
RequestStep(o) ==
    \/ Price(o)
    \/ \E p \in Products : ReserveLine(o, p) \/ ReserveShort(o, p) \/ ReleaseLine(o, p)
    \/ RecordOrder(o)

\* A call fails before it has taken effect, or after.
RequestCallFails(o) ==
    \/ PriceFails(o)
    \/ ReserveFails(o)
    \/ \E p \in Products : ReleaseFails(o, p)
    \/ RecordFails(o)
    \/ PublishFails(o)

RequestCallUnanswered(o) ==
    \/ \E p \in Products : ReserveUnanswered(o, p)
    \/ RecordUnanswered(o)

SettlerStep(w) ==
    \/ LoadOrder(w)
    \/ \E p \in Products : SettleLine(w, p)
    \/ SettleStatus(w)

SettlerCallUnanswered(w) ==
    \/ \E p \in Products : SettleLineUnanswered(w, p)
    \/ SettleStatusUnanswered(w)

\* A fault of an enabled kind, counted against the bound.
Fault(kind) ==
    /\ kind \in FaultKinds
    /\ faults < MaxFaults
    /\ faults' = faults + 1

\* A request's failing call needs no further fault once its client has gone.
RequestFault(o, kind) == IF o \in gone THEN UNCHANGED faults ELSE Fault(kind)

Init == OrdersInit /\ faults = 0

\* Alone, the module stands in for the rest of the system: a submitted order is
\* told its outcomes any number of times.
Next ==
    \/ \E o \in OrderIds : (RequestStep(o) \/ PublishOrder(o)) /\ UNCHANGED faults
    \/ \E o \in OrderIds : RequestCallFails(o) /\ RequestFault(o, "lost_request")
    \/ \E o \in OrderIds :
          /\ RequestCallUnanswered(o) \/ PublishUnanswered(o)
          /\ RequestFault(o, "lost_reply")
    \/ \E o \in OrderIds : ClientGone(o) /\ Fault("client_gone")
    \/ \E w \in Settlers, o \in submitted : \E verdict \in Outcomes[o] :
          BeginSettle(w, o, verdict) /\ UNCHANGED faults
    \/ \E w \in Settlers : SettlerStep(w) /\ UNCHANGED faults
    \/ \E w \in Settlers : SettleFails(w) /\ Fault("lost_request")
    \/ \E w \in Settlers : SettlerCallUnanswered(w) /\ Fault("lost_reply")
    \/ \E w \in Settlers : SettleReturn(w) /\ UNCHANGED faults
    \/ Crash /\ Fault("crash")

vars == <<orderVars, faults>>

Spec == Init /\ [][Next]_vars

-----------------------------------------------------------------------------
OrderStatuses == {"pending", "confirmed", "cancelled"}

\* The catalog's types, the columns of orders and the handlers' steps.
TypeOK ==
    /\ Catalog!TypeOK
    /\ orders \in [OrderIds -> OrderStatuses \cup {"none"}]
    /\ request \in [OrderIds ->
          [pc : {"new", "reserve", "release", "record", "publish", "done", "dead"},
           todo : SUBSET Products, held : SUBSET Products,
           code : {0, 201, 400, 409, 500, 502}]]
    /\ gone \subseteq OrderIds
    /\ submitted \subseteq OrderIds
    /\ settler \in [Settlers ->
          [pc : {"idle", "load", "lines", "status", "ok", "error"},
           order : OrderIds \cup {"none"}, verdict : {"none", "succeeded", "failed"},
           todo : SUBSET Products]]
    /\ faults \in 0..MaxFaults

\* A confirmed order has consumed the stock of every line exactly once, however
\* often its event was delivered and retried.
ConfirmedIsSold ==
    \A o \in OrderIds : orders[o] = "confirmed" => sold[o] = Cart[o]

\* A cancelled order has consumed nothing and leaves no reservation behind.
CancelledIsReleased ==
    \A o \in OrderIds, p \in Products :
        orders[o] = "cancelled" => sold[o][p] = 0 /\ reservations[o][p] = 0

\* An order is never submitted for payment before it is recorded and all its
\* stock is held: a submitted line is held until its outcome has settled it.
SubmittedIsHeld ==
    \A o \in submitted, p \in Products :
        /\ orders[o] # "none"
        /\ "succeeded" \notin Outcomes[o] => sold[o][p] = 0
        /\ "failed" \notin Outcomes[o] => sold[o][p] + reservations[o][p] = Cart[o][p]

\* Lines that stay held although their request has answered and there is no
\* order.  A request whose client is gone or whose process died is left out.
StrandedLines ==
    {l \in OrderIds \X Products :
        At(l[1], "done") /\ Live(l[1]) /\ orders[l[1]] = "none" /\ reservations[l[1]][l[2]] > 0}

\* A Reserve that times out at the client and takes effect at the catalog, or a
\* Release that is lost, strands the one line it was about: releaseAll gives
\* every other line back, and without a fault no stock is stranded.
EachFaultStrandsOneLine == Cardinality(StrandedLines) <= faults

\* createOrder: "On a shortage, release whatever was already held so a failed
\* order leaves no stock stranded".
FailedOrderStrandsNothing ==
    \A o \in OrderIds, p \in Products :
        At(o, "done") /\ request[o].code = 409 => reservations[o][p] = 0
=============================================================================
