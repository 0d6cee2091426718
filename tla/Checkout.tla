------------------------------ MODULE Checkout ------------------------------
(***************************************************************************)
(* The checkout saga: the orders service with the catalog it calls, the    *)
(* payment service, and the three topics between them, each the module of  *)
(* its own.  What this module adds is how they are wired in the services'  *)
(* main functions: who publishes to which topic, which handler a topic's   *)
(* consumer runs, and what a crash of one service takes with it.           *)
(*                                                                         *)
(* A handler runs inside its consumer's loop: it begins when Run fetches a *)
(* message and Run commits or gives up the message when it returns.        *)
(***************************************************************************)
EXTENDS Integers, Sequences, FiniteSets

CONSTANTS
    OrderIds, Products, Cart, Listed, MaxInt, MaxSupply,   \* as in Orders
    Total, FailAmountCents,                                \* as in Payment
    Partitions, Hash, MaxEvents,                           \* as in EventBus
    Requests, Amounts,     \* callers of the HTTP handler charge, their amounts
    FaultKinds, MaxFaults

VARIABLES
    products, stock, reserved, reservations, sold, supplied,
    orders, request, gone, submitted, settler,
    payments, charges, announced, worker,
    log, position, committed, consumer, handled, failed,
    faults

OrderCreated == "order.created"
PaymentSucceeded == "payment.succeeded"
PaymentFailed == "payment.failed"

\* SagaTopics, and the topics each service consumes.
Topics == {OrderCreated, PaymentSucceeded, PaymentFailed}
OutcomeTopics == {PaymentSucceeded, PaymentFailed}

\* What the three components ask of the constants they share.
ASSUME CheckoutAssumption ==
    /\ MaxInt \in Nat
    /\ MaxSupply \in Nat
    /\ Cart \in [OrderIds -> [Products -> 0..MaxInt]]
    /\ \A o \in OrderIds : \E p \in Products : Cart[o][p] > 0
    /\ DOMAIN Listed \subseteq Products
    /\ \A p \in DOMAIN Listed : Listed[p] \in 0..MaxInt /\ Listed[p] <= MaxSupply
    /\ Total \in [OrderIds -> Nat]
    /\ Amounts \subseteq Nat \ {0}
    /\ FailAmountCents \in Nat
    /\ OrderCreated \notin Requests
    /\ Hash \in [OrderIds -> Partitions]
    /\ MaxEvents \in Nat
    /\ MaxFaults \in Nat

\* The outcomes come from payment: the ones Orders uses alone are not needed.
Ord == INSTANCE Orders WITH
           Settlers <- OutcomeTopics,
           Outcomes <- [o \in OrderIds |-> {}]
Pay == INSTANCE Payment WITH Orders <- OrderIds, Deliveries <- {OrderCreated}
Bus == INSTANCE EventBus WITH Keys <- OrderIds

ordVars == <<products, stock, reserved, reservations, sold, supplied,
             orders, request, gone, submitted, settler>>
payVars == <<payments, charges, announced, worker>>
busVars == <<log, position, committed, consumer, handled, failed>>
vars == <<ordVars, payVars, busVars, faults>>

Init ==
    /\ Ord!OrdersInit
    /\ Pay!PayInit
    /\ Bus!BusInit
    /\ faults = 0

-----------------------------------------------------------------------------
\* createOrder, up to and with the publish that starts the saga.
CreateOrderStep(o) ==
    /\ Ord!RequestStep(o)
    /\ UNCHANGED <<payVars, busVars, faults>>

Submit(o) ==
    /\ Ord!PublishOrder(o)
    /\ Bus!Publish(OrderCreated, o)
    /\ UNCHANGED <<payVars, faults>>

-----------------------------------------------------------------------------
\* The order.created consumer of the payment service.

NextEvent(t, q) == log[t][q][position[t][q] + 1]

DeliverOrder(q) ==
    /\ Bus!Fetch(OrderCreated, q)
    /\ LET o == NextEvent(OrderCreated, q) IN Pay!Begin(OrderCreated, o, Total[o])
    /\ UNCHANGED <<ordVars, faults>>

ChargeStep(w) ==
    /\ Pay!Step(w)
    /\ UNCHANGED <<ordVars, busVars, faults>>

\* Mutant: the two topics confused.
OutcomeTopicSwapped(status) == IF status = "failed" THEN PaymentSucceeded ELSE PaymentFailed

OutcomeTopic(status) == IF status = "succeeded" THEN PaymentSucceeded ELSE PaymentFailed

\* Mutant of Announce: a failed publish is taken for a successful one.
AnnounceNothing ==
    /\ Pay!PublishOutcome(OrderCreated)
    /\ UNCHANGED <<ordVars, busVars, faults>>

Announce ==
    /\ Pay!PublishOutcome(OrderCreated)
    /\ Bus!Publish(OutcomeTopic(worker[OrderCreated].status), worker[OrderCreated].order)
    /\ UNCHANGED <<ordVars, faults>>

ChargeDone ==
    /\ Pay!At(OrderCreated, "ok")
    /\ Pay!Return(OrderCreated)
    /\ Bus!HandleAndCommit(OrderCreated)
    /\ UNCHANGED <<ordVars, faults>>

ChargeGivenUp ==
    /\ Pay!At(OrderCreated, "error")
    /\ Pay!Return(OrderCreated)
    /\ Bus!HandlerFails(OrderCreated)
    /\ UNCHANGED <<ordVars, faults>>

\* The HTTP handler charge, which answers its caller and publishes nothing.
ChargeAnswered(w) ==
    /\ Pay!Return(w)
    /\ UNCHANGED <<ordVars, busVars, faults>>

-----------------------------------------------------------------------------
\* The payment.succeeded and payment.failed consumers of the orders service.

\* Mutant of Verdict: the handlers confused.
VerdictSwapped(t) == IF t = PaymentFailed THEN "succeeded" ELSE "failed"

Verdict(t) == IF t = PaymentSucceeded THEN "succeeded" ELSE "failed"

DeliverOutcome(t, q) ==
    /\ Bus!Fetch(t, q)
    /\ Ord!BeginSettle(t, NextEvent(t, q), Verdict(t))
    /\ UNCHANGED <<payVars, faults>>

SettleStep(t) ==
    /\ Ord!SettlerStep(t)
    /\ UNCHANGED <<payVars, busVars, faults>>

SettleDone(t) ==
    /\ Ord!Doing(t, "ok")
    /\ Ord!SettleReturn(t)
    /\ Bus!HandleAndCommit(t)
    /\ UNCHANGED <<payVars, faults>>

SettleGivenUp(t) ==
    /\ Ord!Doing(t, "error")
    /\ Ord!SettleReturn(t)
    /\ Bus!HandlerFails(t)
    /\ UNCHANGED <<payVars, faults>>

-----------------------------------------------------------------------------
\* Faults.  A service that crashes loses its requests, its handlers and its
\* Readers' positions together.
Fault(kind) ==
    /\ kind \in FaultKinds
    /\ faults < MaxFaults
    /\ faults' = faults + 1

OrdersCrash ==
    /\ Ord!Crash
    /\ Bus!Restart(OutcomeTopics)
    /\ UNCHANGED payVars
    /\ Fault("crash")

PaymentCrash ==
    /\ Pay!Crash
    /\ Bus!Restart({OrderCreated})
    /\ UNCHANGED ordVars
    /\ Fault("crash")

\* A handler returned nil, but its offset is not committed.
ChargeCommitFails ==
    /\ Pay!At(OrderCreated, "ok")
    /\ Pay!Return(OrderCreated)
    /\ Bus!HandleCommitFails(OrderCreated)
    /\ UNCHANGED ordVars
    /\ Fault("commit")

SettleCommitFails(t) ==
    /\ Ord!Doing(t, "ok")
    /\ Ord!SettleReturn(t)
    /\ Bus!HandleCommitFails(t)
    /\ UNCHANGED payVars
    /\ Fault("commit")

Rebalance(t) ==
    /\ Bus!Rebalance(t)
    /\ UNCHANGED <<ordVars, payVars>>
    /\ Fault("rebalance")

\* A call of a saga handler fails, before or after it takes effect.
ChargeCallFails ==
    /\ Pay!CallFails(OrderCreated) \/ Pay!RecordUnanswered(OrderCreated)
    /\ UNCHANGED <<ordVars, busVars>>
    /\ Fault("call")

AnnounceUnanswered ==
    /\ Pay!PublishUnanswered(OrderCreated)
    /\ Bus!Publish(OutcomeTopic(worker[OrderCreated].status), worker[OrderCreated].order)
    /\ UNCHANGED ordVars
    /\ Fault("call")

SettleCallFails(t) ==
    /\ Ord!SettleFails(t) \/ Ord!SettlerCallUnanswered(t)
    /\ UNCHANGED <<payVars, busVars>>
    /\ Fault("call")

\* The reader's FetchMessage fails: the topic has no consumer until a restart.
ConsumerStops(t) ==
    /\ Bus!FetchFails(t)
    /\ UNCHANGED <<ordVars, payVars>>
    /\ Fault("fetch")

\* A client calls charge for some order, on its own account.  The saga expects
\* no such call: it counts as a fault to bound how many there are.
ChargeRequest(w) ==
    /\ \E o \in OrderIds, a \in Amounts : Pay!Begin(w, o, a)
    /\ UNCHANGED <<ordVars, busVars>>
    /\ Fault("charge")

ClientGone(o) ==
    /\ Ord!ClientGone(o)
    /\ UNCHANGED <<payVars, busVars>>
    /\ Fault("request")

\* A call of createOrder fails, before or after it takes effect.
CreateOrderCallFails(o) ==
    /\ Ord!RequestCallFails(o) \/ Ord!RequestCallUnanswered(o)
    /\ UNCHANGED <<payVars, busVars>>
    /\ Ord!RequestFault(o, "request")

SubmitUnanswered(o) ==
    /\ Ord!PublishUnanswered(o)
    /\ Bus!Publish(OrderCreated, o)
    /\ UNCHANGED payVars
    /\ Ord!RequestFault(o, "request")

-----------------------------------------------------------------------------
\* The steps of one consumer goroutine.
ChargeLoop ==
    \/ \E q \in Partitions : DeliverOrder(q)
    \/ ChargeStep(OrderCreated)
    \/ Announce
    \/ ChargeDone
    \/ ChargeGivenUp

SettleLoop(t) ==
    \/ \E q \in Partitions : DeliverOutcome(t, q)
    \/ SettleStep(t)
    \/ SettleDone(t)
    \/ SettleGivenUp(t)

Next ==
    \/ \E o \in OrderIds : CreateOrderStep(o)
    \/ \E o \in OrderIds : Submit(o)
    \/ ChargeLoop
    \/ \E t \in OutcomeTopics : SettleLoop(t)
    \/ \E w \in Requests : ChargeRequest(w) \/ ChargeStep(w) \/ ChargeAnswered(w)
    \/ OrdersCrash
    \/ PaymentCrash
    \/ ChargeCommitFails
    \/ \E t \in OutcomeTopics : SettleCommitFails(t)
    \/ \E t \in Topics : Rebalance(t)
    \/ ChargeCallFails
    \/ AnnounceUnanswered
    \/ \E t \in OutcomeTopics : SettleCallFails(t)
    \/ \E t \in Topics : ConsumerStops(t)
    \/ \E o \in OrderIds : ClientGone(o)
    \/ \E o \in OrderIds : CreateOrderCallFails(o)
    \/ \E o \in OrderIds : SubmitUnanswered(o)

Spec == Init /\ [][Next]_vars

\* The three consumer goroutines run as long as their process does, so one
\* that can take a step takes it; clients and HTTP requests promise nothing.
Fairness ==
    /\ WF_vars(ChargeLoop)
    /\ \A t \in OutcomeTopics : WF_vars(SettleLoop(t))

FairSpec == Spec /\ Fairness

-----------------------------------------------------------------------------
\* An order is confirmed only when its recorded charge succeeded and all its
\* stock has been consumed, and cancelled only when the charge was declined and
\* none has: charge, order and warehouse never disagree about the outcome.
OutcomeIsConsistent ==
    \A o \in OrderIds :
        /\ orders[o] = "confirmed" => payments[o].status = "succeeded" /\ sold[o] = Cart[o]
        /\ orders[o] = "cancelled" =>
              /\ payments[o].status = "failed"
              /\ \A p \in Products : sold[o][p] = 0 /\ reservations[o][p] = 0

\* A charge is only ever announced for an order that is recorded and whose
\* stock is held or already settled: payment never overtakes the reservation.
PaidIsBacked ==
    \A o \in OrderIds : <<o, "succeeded">> \in announced =>
        /\ orders[o] \in {"pending", "confirmed"}
        /\ \A p \in Products : reservations[o][p] + sold[o][p] = Cart[o][p]

\* An OrderCreated whose offset payment has committed without its handler ever
\* failing has its charge recorded and its outcome in the outcome's topic.
CommittedIsAnnounced ==
    \A q \in Partitions : \A n \in 1..committed[OrderCreated][q] \ failed[OrderCreated][q] :
        LET o == log[OrderCreated][q][n]
        IN  /\ payments[o].status \in {"succeeded", "failed"}
            /\ \E m \in DOMAIN log[OutcomeTopic(payments[o].status)][q] :
                  log[OutcomeTopic(payments[o].status)][q][m] = o

\* The saga's promise (module Saga), read off the databases: a line is sold
\* once Commit has consumed it and held while it has a reservation row.
LineState(o, p) ==
    IF sold[o][p] > 0 THEN "sold" ELSE IF reservations[o][p] > 0 THEN "held" ELSE "free"

Promise ==
    INSTANCE Saga WITH
        Lines <- Ord!Lines,
        line <- [o \in OrderIds |-> [p \in Ord!Lines(o) |-> LineState(o, p)]],
        status <- orders,
        decision <- [o \in OrderIds |-> payments[o].status]

\* The services together implement that promise, step by step, through every
\* crash, redelivery and failed call.
ImplementsSaga == Promise!Spec

\* A handler has given up an event of this order.
GivenUp(o) ==
    \E t \in Topics, q \in Partitions : \E n \in failed[t][q] : log[t][q][n] = o

\* A submitted order is settled in the end, although services crash, groups
\* rebalance, offset commits fail and requests break off.  Two things only can
\* keep it: a handler that gave up one of its events, which Run never retries,
\* and a consumer that stopped and is not restarted.
SubmittedIsSettled ==
    \A o \in OrderIds :
        (o \in submitted) ~>
            \/ orders[o] \in {"confirmed", "cancelled"}
            \/ GivenUp(o)
            \/ \E t \in Topics : consumer[t] = Bus!Stopped

\* HandlePaymentFailed: a PaymentFailed event "leaves no orphaned reservation
\* and no order stuck pending", even when a call of the handler fails, because
\* "the event is redelivered and the release is retried".
DeclinedIsCancelled ==
    \A o \in OrderIds : (<<o, "failed">> \in announced) ~> (orders[o] = "cancelled")
=============================================================================
