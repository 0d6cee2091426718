------------------------------- MODULE Payment -------------------------------
(***************************************************************************)
(* The payment service (services/payment).  HandleOrderCreated, run by the *)
(* order.created consumer, and the HTTP handler charge take the same steps *)
(* over the payments table and the processor; the consumer then publishes  *)
(* the outcome and the HTTP handler answers its caller.  Workers are the   *)
(* executions of either that may overlap.                                  *)
(*                                                                         *)
(* A payments row is its status and amount.  Amounts are the StubGateway's *)
(* input: it declines exactly FailAmountCents.  Malformed requests and     *)
(* events return before the first step and are left out.                   *)
(***************************************************************************)
EXTENDS Naturals

CONSTANTS
    Orders,
    Deliveries,        \* workers that run HandleOrderCreated
    Requests,          \* workers that run the HTTP handler charge
    Total,             \* total_cents of each order, in its OrderCreated event
    Amounts,           \* amounts a caller of charge sends
    FailAmountCents,   \* the amount the processor declines; 0: none
    FaultKinds,        \* which of the faults below may happen
    MaxFaults          \* bound: how often a fault happens

ASSUME PaymentAssumption ==
    /\ Total \in [Orders -> Nat]
    /\ Amounts \subseteq Nat \ {0}
    /\ FailAmountCents \in Nat
    /\ Deliveries \cap Requests = {}
    /\ MaxFaults \in Nat

VARIABLES
    payments,    \* the payments table by order_id, which its unique index allows
    charges,     \* history: calls of gateway.Charge, by order
    announced,   \* history: outcome events stored by the broker
    worker,      \* each execution's step and locals
    faults

payVars == <<payments, charges, announced, worker>>

Workers == Deliveries \cup Requests

\* No row for this order (ErrPaymentNotFound).
NoPayment == [status |-> "none", amount |-> 0]
Idle == [pc |-> "idle", order |-> "none", amount |-> 0, status |-> "none"]

PayInit ==
    /\ payments = [o \in Orders |-> NoPayment]
    /\ charges = [o \in Orders |-> 0]
    /\ announced = {}
    /\ worker = [w \in Workers |-> Idle]

-----------------------------------------------------------------------------
At(w, pc) == worker[w].pc = pc

\* StubGateway.Charge.
GatewayCharge(amount) ==
    IF FailAmountCents # 0 /\ amount = FailAmountCents THEN "failed" ELSE "succeeded"

Goto(w, pc) == worker' = [worker EXCEPT ![w].pc = pc]

\* The order is settled: the consumer publishes the row's outcome, the HTTP
\* handler answers with it.
Settled(w, status) ==
    worker' = [worker EXCEPT ![w].status = status,
                             ![w].pc = IF w \in Deliveries THEN "publish" ELSE "ok"]

\* An OrderCreated is delivered, or a charge request arrives.
Begin(w, o, amount) ==
    /\ At(w, "idle")
    /\ IF w \in Deliveries THEN amount = Total[o] ELSE amount \in Amounts
    /\ worker' = [worker EXCEPT ![w] = [Idle EXCEPT !.pc = "lookup", !.order = o, !.amount = amount]]
    /\ UNCHANGED <<payments, charges, announced>>

\* Mutant of Lookup: an order without a row counts as settled.
LookupSkipsCharge(w) ==
    /\ At(w, "lookup")
    /\ Settled(w, payments[worker[w].order].status)
    /\ UNCHANGED <<payments, charges, announced>>

\* PaymentByOrderID before charging: a settled order is not charged again.
Lookup(w) ==
    LET row == payments[worker[w].order]
    IN  /\ At(w, "lookup")
        /\ IF row = NoPayment THEN Goto(w, "charge") ELSE Settled(w, row.status)
        /\ UNCHANGED <<payments, charges, announced>>

\* gateway.Charge: money may move here.
Charge(w) ==
    LET o == worker[w].order
    IN  /\ At(w, "charge")
        /\ charges' = [charges EXCEPT ![o] = @ + 1]
        /\ worker' = [worker EXCEPT ![w].status = GatewayCharge(worker[w].amount),
                                    ![w].pc = "record"]
        /\ UNCHANGED <<payments, announced>>

\* Mutant of Recorded: no unique index.
RecordedOverwrites(w) ==
    [payments EXCEPT ![worker[w].order] = [status |-> worker[w].status, amount |-> worker[w].amount]]

\* The row RecordCharge leaves in the table: the unique index keeps the first.
Recorded(w) ==
    LET o == worker[w].order
    IN  IF payments[o] = NoPayment
        THEN [payments EXCEPT ![o] = [status |-> worker[w].status, amount |-> worker[w].amount]]
        ELSE payments

\* RecordCharge: the insert succeeds, or the unique index rejects it
\* (ErrAlreadyCharged) and the winner is loaded next.
Record(w) ==
    /\ At(w, "record")
    /\ payments' = Recorded(w)
    /\ IF payments[worker[w].order] = NoPayment
       THEN Settled(w, worker[w].status)
       ELSE Goto(w, "winner")
    /\ UNCHANGED <<charges, announced>>

\* Mutant of LoadWinner: the loser reports its own charge.
LoserReportsItself(w) ==
    /\ At(w, "winner")
    /\ Settled(w, worker[w].status)
    /\ UNCHANGED <<payments, charges, announced>>

\* PaymentByOrderID after losing the race: report the winner's outcome.
LoadWinner(w) ==
    /\ At(w, "winner")
    /\ Settled(w, payments[worker[w].order].status)
    /\ UNCHANGED <<payments, charges, announced>>

\* publishOutcome: one topic per outcome.
PublishOutcome(w) ==
    /\ At(w, "publish")
    /\ announced' = announced \cup {<<worker[w].order, worker[w].status>>}
    /\ Goto(w, "ok")
    /\ UNCHANGED <<payments, charges>>

\* A database call or a publish fails before it takes effect: the handler
\* returns the error.
CallFails(w) ==
    /\ worker[w].pc \in {"lookup", "record", "winner", "publish"}
    /\ Goto(w, "error")
    /\ UNCHANGED <<payments, charges, announced>>

\* A call takes effect but reports an error: the insert, or the publish.
RecordUnanswered(w) ==
    /\ At(w, "record")
    /\ payments' = Recorded(w)
    /\ Goto(w, "error")
    /\ UNCHANGED <<charges, announced>>

PublishUnanswered(w) ==
    /\ At(w, "publish")
    /\ announced' = announced \cup {<<worker[w].order, worker[w].status>>}
    /\ Goto(w, "error")
    /\ UNCHANGED <<payments, charges>>

\* The handler has returned; its worker is free for the next one.
Return(w) ==
    /\ worker[w].pc \in {"ok", "error"}
    /\ worker' = [worker EXCEPT ![w] = Idle]
    /\ UNCHANGED <<payments, charges, announced>>

\* The service dies and is started again: every execution is lost.
Crash ==
    /\ worker' = [w \in Workers |-> Idle]
    /\ UNCHANGED <<payments, charges, announced>>

\* The steps of an execution up to the one that publishes.
Step(w) ==
    \/ Lookup(w)
    \/ Charge(w)
    \/ Record(w)
    \/ LoadWinner(w)

-----------------------------------------------------------------------------
\* A fault of an enabled kind, counted against the bound.
Fault(kind) ==
    /\ kind \in FaultKinds
    /\ faults < MaxFaults
    /\ faults' = faults + 1

Init == PayInit /\ faults = 0

Next ==
    \/ \E w \in Workers, o \in Orders :
          \E a \in IF w \in Deliveries THEN {Total[o]} ELSE Amounts :
             Begin(w, o, a) /\ UNCHANGED faults
    \/ \E w \in Workers : (Step(w) \/ PublishOutcome(w)) /\ UNCHANGED faults
    \/ \E w \in Workers : Return(w) /\ UNCHANGED faults
    \/ \E w \in Workers : CallFails(w) /\ Fault("lost_request")
    \/ \E w \in Workers : (RecordUnanswered(w) \/ PublishUnanswered(w)) /\ Fault("lost_reply")
    \/ Crash /\ Fault("crash")

vars == <<payVars, faults>>

Spec == Init /\ [][Next]_vars

-----------------------------------------------------------------------------
Statuses == {"succeeded", "failed"}

\* Only the outcomes the code knows are stored or published.
TypeOK ==
    /\ payments \in [Orders -> {NoPayment} \cup [status : Statuses, amount : Nat]]
    /\ charges \in [Orders -> Nat]
    /\ announced \subseteq Orders \X Statuses
    /\ \A w \in Workers :
          \/ worker[w] = Idle
          \/ /\ worker[w].pc \in {"lookup", "charge", "record", "winner", "publish", "ok", "error"}
             /\ worker[w].order \in Orders
             /\ worker[w].amount \in Nat
             /\ worker[w].status \in Statuses \cup {"none"}
    /\ faults \in 0..MaxFaults

\* Every outcome event published for an order repeats the one recorded charge
\* attempt, so orders can never be told both "succeeded" and "failed".
OutcomesAgree ==
    \A e \in announced : payments[e[1]].status = e[2]

\* A recorded attempt is never revised, whoever charges next.
PaymentIsFinal ==
    [][\A o \in Orders : payments[o] # NoPayment => payments'[o] = payments[o]]_vars

\* The contract of the charge handler and of HandleOrderCreated ("exactly one
\* charge attempt"), at the processor: it is called at most once per order.
ChargedOnce == \A o \in Orders : charges[o] <= 1
=============================================================================
