--------------------------- MODULE CheckoutProofs ---------------------------
(***************************************************************************)
(* Proofs about the checkout saga, for every set of orders, products and   *)
(* partitions, and every pattern of crashes, rebalances, failed commits,   *)
(* failed or unanswered calls and charges on the side.                     *)
(*                                                                         *)
(* The components' own invariants, proved in their proof modules, are used *)
(* here for the components as the saga wires them.                         *)
(***************************************************************************)
EXTENDS Checkout, TLAPS

OrdP == INSTANCE OrdersProofs WITH
           Settlers <- OutcomeTopics,
           Outcomes <- [o \in OrderIds |-> {}]
PayP == INSTANCE PaymentProofs WITH Orders <- OrderIds, Deliveries <- {OrderCreated}
BusP == INSTANCE EventBusProofs WITH Keys <- OrderIds

-----------------------------------------------------------------------------
(* The components the proofs are about are the ones the saga is made of. *)
LEMMA SameCatalog ==
    ASSUME NEW o, NEW p, NEW q
    PROVE  /\ Ord!Catalog!Reserve(o, p, q) <=> OrdP!Catalog!Reserve(o, p, q)
           /\ Ord!Catalog!ReserveRefused(o, p, q) <=> OrdP!Catalog!ReserveRefused(o, p, q)
           /\ Ord!Catalog!Release(o, p) <=> OrdP!Catalog!Release(o, p)
           /\ Ord!Catalog!Commit(o, p) <=> OrdP!Catalog!Commit(o, p)
<1> USE DEF Ord!Catalog!RowAllowed, Ord!Catalog!Available, Ord!Catalog!cvars, Ord!Catalog!AtLeastZero,
            OrdP!Catalog!RowAllowed, OrdP!Catalog!Available, OrdP!Catalog!cvars, OrdP!Catalog!AtLeastZero
<1>1. Ord!Catalog!Reserve(o, p, q) <=> OrdP!Catalog!Reserve(o, p, q)
  BY DEF Ord!Catalog!Reserve, OrdP!Catalog!Reserve
<1>2. Ord!Catalog!ReserveRefused(o, p, q) <=> OrdP!Catalog!ReserveRefused(o, p, q)
  BY DEF Ord!Catalog!ReserveRefused, OrdP!Catalog!ReserveRefused
<1>3. Ord!Catalog!Release(o, p) <=> OrdP!Catalog!Release(o, p)
  BY DEF Ord!Catalog!Release, OrdP!Catalog!Release
<1>4. Ord!Catalog!Commit(o, p) <=> OrdP!Catalog!Commit(o, p)
  BY DEF Ord!Catalog!Commit, OrdP!Catalog!Commit
<1> QED
  BY <1>1, <1>2, <1>3, <1>4

LEMMA SameRequest ==
    ASSUME NEW o
    PROVE  /\ Ord!RequestStep(o) <=> OrdP!RequestStep(o)
           /\ Ord!RequestCallFails(o) <=> OrdP!RequestCallFails(o)
           /\ Ord!RequestCallUnanswered(o) <=> OrdP!RequestCallUnanswered(o)
           /\ Ord!PublishOrder(o) <=> OrdP!PublishOrder(o)
           /\ Ord!PublishUnanswered(o) <=> OrdP!PublishUnanswered(o)
           /\ Ord!ClientGone(o) <=> OrdP!ClientGone(o)
<1> USE DEF Ord!catalogVars, Ord!Lines, Ord!At, Ord!Live, Ord!Enter, Ord!Answer, Ord!GiveUp, Ord!Released,
            OrdP!catalogVars, OrdP!Lines, OrdP!At, OrdP!Live, OrdP!Enter, OrdP!Answer, OrdP!GiveUp, OrdP!Released
<1>1. Ord!Price(o) <=> OrdP!Price(o)
  BY DEF Ord!Price, OrdP!Price
<1>2. ASSUME NEW p PROVE Ord!ReserveLine(o, p) <=> OrdP!ReserveLine(o, p)
  BY SameCatalog DEF Ord!ReserveLine, OrdP!ReserveLine
<1>3. ASSUME NEW p PROVE Ord!ReserveShort(o, p) <=> OrdP!ReserveShort(o, p)
  BY SameCatalog DEF Ord!ReserveShort, OrdP!ReserveShort
<1>4. ASSUME NEW p PROVE Ord!ReleaseLine(o, p) <=> OrdP!ReleaseLine(o, p)
  BY SameCatalog DEF Ord!ReleaseLine, OrdP!ReleaseLine
<1>5. Ord!RecordOrder(o) <=> OrdP!RecordOrder(o)
  BY DEF Ord!RecordOrder, OrdP!RecordOrder
<1>6. Ord!RequestStep(o) <=> OrdP!RequestStep(o)
  BY <1>1, <1>2, <1>3, <1>4, <1>5 DEF Ord!RequestStep, OrdP!RequestStep
<1>7. Ord!RequestCallFails(o) <=> OrdP!RequestCallFails(o)
  BY DEF Ord!RequestCallFails, Ord!PriceFails, Ord!ReserveFails, Ord!ReleaseFails, Ord!RecordFails,
         Ord!PublishFails, OrdP!RequestCallFails, OrdP!PriceFails, OrdP!ReserveFails, OrdP!ReleaseFails,
         OrdP!RecordFails, OrdP!PublishFails
<1>8. ASSUME NEW p PROVE Ord!ReserveUnanswered(o, p) <=> OrdP!ReserveUnanswered(o, p)
  BY SameCatalog DEF Ord!ReserveUnanswered, OrdP!ReserveUnanswered
<1>9. Ord!RequestCallUnanswered(o) <=> OrdP!RequestCallUnanswered(o)
  BY <1>8 DEF Ord!RequestCallUnanswered, OrdP!RequestCallUnanswered, Ord!RecordUnanswered,
              OrdP!RecordUnanswered
<1>10. /\ Ord!PublishOrder(o) <=> OrdP!PublishOrder(o)
       /\ Ord!PublishUnanswered(o) <=> OrdP!PublishUnanswered(o)
       /\ Ord!ClientGone(o) <=> OrdP!ClientGone(o)
  BY DEF Ord!PublishOrder, Ord!PublishUnanswered, Ord!ClientGone,
         OrdP!PublishOrder, OrdP!PublishUnanswered, OrdP!ClientGone
<1> QED
  BY <1>6, <1>7, <1>9, <1>10

LEMMA SameSettler ==
    ASSUME NEW w
    PROVE  /\ \A o, v : Ord!BeginSettle(w, o, v) <=> OrdP!BeginSettle(w, o, v)
           /\ Ord!SettlerStep(w) <=> OrdP!SettlerStep(w)
           /\ Ord!SettleFails(w) <=> OrdP!SettleFails(w)
           /\ Ord!SettlerCallUnanswered(w) <=> OrdP!SettlerCallUnanswered(w)
           /\ Ord!SettleReturn(w) <=> OrdP!SettleReturn(w)
           /\ Ord!Crash <=> OrdP!Crash
<1> USE DEF Ord!catalogVars, Ord!Lines, Ord!Doing, Ord!Idle, Ord!NewStatus,
            OrdP!catalogVars, OrdP!Lines, OrdP!Doing, OrdP!Idle, OrdP!NewStatus
<1>1. \A o, v : Ord!BeginSettle(w, o, v) <=> OrdP!BeginSettle(w, o, v)
  BY DEF Ord!BeginSettle, OrdP!BeginSettle
<1>2. ASSUME NEW p PROVE Ord!SettleCall(w, p) <=> OrdP!SettleCall(w, p)
  BY SameCatalog DEF Ord!SettleCall, OrdP!SettleCall
<1>3. ASSUME NEW p PROVE Ord!SettleLine(w, p) <=> OrdP!SettleLine(w, p)
  BY <1>2 DEF Ord!SettleLine, OrdP!SettleLine
<1>4. ASSUME NEW p PROVE Ord!SettleLineUnanswered(w, p) <=> OrdP!SettleLineUnanswered(w, p)
  BY <1>2 DEF Ord!SettleLineUnanswered, OrdP!SettleLineUnanswered
<1>5. Ord!SettlerStep(w) <=> OrdP!SettlerStep(w)
  BY <1>3 DEF Ord!SettlerStep, OrdP!SettlerStep, Ord!LoadOrder, OrdP!LoadOrder, Ord!SettleStatus,
              OrdP!SettleStatus
<1>6. Ord!SettlerCallUnanswered(w) <=> OrdP!SettlerCallUnanswered(w)
  BY <1>4 DEF Ord!SettlerCallUnanswered, OrdP!SettlerCallUnanswered, Ord!SettleStatusUnanswered,
              OrdP!SettleStatusUnanswered
<1>7. /\ Ord!SettleFails(w) <=> OrdP!SettleFails(w)
      /\ Ord!SettleReturn(w) <=> OrdP!SettleReturn(w)
      /\ Ord!Crash <=> OrdP!Crash
  BY DEF Ord!SettleFails, OrdP!SettleFails, Ord!SettleReturn, OrdP!SettleReturn, Ord!Crash, OrdP!Crash
<1> QED
  BY <1>1, <1>5, <1>6, <1>7

LEMMA SamePayment ==
    ASSUME NEW w
    PROVE  /\ \A o, a : Pay!Begin(w, o, a) <=> PayP!Begin(w, o, a)
           /\ Pay!Step(w) <=> PayP!Step(w)
           /\ Pay!PublishOutcome(w) <=> PayP!PublishOutcome(w)
           /\ Pay!Return(w) <=> PayP!Return(w)
           /\ Pay!CallFails(w) <=> PayP!CallFails(w)
           /\ Pay!RecordUnanswered(w) <=> PayP!RecordUnanswered(w)
           /\ Pay!PublishUnanswered(w) <=> PayP!PublishUnanswered(w)
           /\ Pay!Crash <=> PayP!Crash
<1> USE DEF Pay!At, Pay!Goto, Pay!Settled, Pay!GatewayCharge, Pay!Recorded, Pay!NoPayment, Pay!Idle, Pay!Workers,
            PayP!At, PayP!Goto, PayP!Settled, PayP!GatewayCharge, PayP!Recorded, PayP!NoPayment, PayP!Idle, PayP!Workers
<1>1. Pay!Step(w) <=> PayP!Step(w)
  BY DEF Pay!Step, Pay!Lookup, Pay!Charge, Pay!Record, Pay!LoadWinner,
         PayP!Step, PayP!Lookup, PayP!Charge, PayP!Record, PayP!LoadWinner
<1>2. \A o, a : Pay!Begin(w, o, a) <=> PayP!Begin(w, o, a)
  BY DEF Pay!Begin, PayP!Begin
<1> QED
  BY <1>1, <1>2 DEF Pay!PublishOutcome, Pay!Return, Pay!CallFails, Pay!RecordUnanswered,
     Pay!PublishUnanswered, Pay!Crash, PayP!PublishOutcome, PayP!Return, PayP!CallFails,
     PayP!RecordUnanswered, PayP!PublishUnanswered, PayP!Crash

LEMMA SameBus ==
    ASSUME NEW t
    PROVE  /\ \A k : Bus!Publish(t, k) <=> BusP!Publish(t, k)
           /\ \A q : Bus!Fetch(t, q) <=> BusP!Fetch(t, q)
           /\ Bus!HandleAndCommit(t) <=> BusP!HandleAndCommit(t)
           /\ Bus!HandleCommitFails(t) <=> BusP!HandleCommitFails(t)
           /\ Bus!HandlerFails(t) <=> BusP!HandlerFails(t)
           /\ Bus!FetchFails(t) <=> BusP!FetchFails(t)
           /\ Bus!Rebalance(t) <=> BusP!Rebalance(t)
           /\ Bus!Restart(t) <=> BusP!Restart(t)
<1> USE DEF Bus!Idle, Bus!Stopped, Bus!Busy, Bus!IsBusy, BusP!Idle, BusP!Stopped, BusP!Busy, BusP!IsBusy
<1>1. \A k : Bus!Publish(t, k) <=> BusP!Publish(t, k)
  BY DEF Bus!Publish, BusP!Publish
<1>2. \A q : Bus!Fetch(t, q) <=> BusP!Fetch(t, q)
  BY DEF Bus!Fetch, BusP!Fetch
<1>3. /\ Bus!HandleAndCommit(t) <=> BusP!HandleAndCommit(t)
      /\ Bus!HandleCommitFails(t) <=> BusP!HandleCommitFails(t)
      /\ Bus!HandlerFails(t) <=> BusP!HandlerFails(t)
  BY DEF Bus!HandleAndCommit, BusP!HandleAndCommit, Bus!HandleCommitFails, BusP!HandleCommitFails,
         Bus!HandlerFails, BusP!HandlerFails
<1>4. /\ Bus!FetchFails(t) <=> BusP!FetchFails(t)
      /\ Bus!Rebalance(t) <=> BusP!Rebalance(t)
      /\ Bus!Restart(t) <=> BusP!Restart(t)
  BY DEF Bus!FetchFails, BusP!FetchFails, Bus!Rebalance, BusP!Rebalance, Bus!Restart, BusP!Restart
<1> QED
  BY <1>1, <1>2, <1>3, <1>4

-----------------------------------------------------------------------------
(* The outcomes orders may be told: those of their recorded charges. *)
Told(D) ==
    /\ D \in OrdP!Decisions
    /\ \A o \in OrderIds : D[o] = {payments[o].status} \ {"none"}

Events(t, q) == 1..Len(log[t][q])

(* How the components are linked: an OrderCreated event is of a submitted      *)
(* order, payment works for submitted orders, and an event of an outcome topic *)
(* repeats an announcement of that outcome.                                    *)
Linked ==
    /\ \A q \in Partitions : \A n \in Events(OrderCreated, q) : log[OrderCreated][q][n] \in submitted
    /\ \A t \in OutcomeTopics, q \in Partitions : \A n \in Events(t, q) :
          <<log[t][q][n], Verdict(t)>> \in announced
    /\ worker[OrderCreated].pc # "idle" => worker[OrderCreated].order \in submitted
    /\ \A e \in announced : e[1] \in submitted

Components(D) == PayP!IndInv /\ BusP!IndInv /\ Told(D) /\ OrdP!OrderInv(D)

SagaInv == Linked /\ \E D : Components(D)

(* An announced outcome is the one recorded for its order. *)
LEMMA PaymentsRecorded ==
    ASSUME NEW D, Components(D), NEW o \in OrderIds, NEW s, <<o, s>> \in announced
    PROVE  s \in {"succeeded", "failed"} /\ payments[o].status = s /\ s \in D[o]
<1>1. s \in {"succeeded", "failed"} /\ payments[o].status = s
  BY DEF Components, PayP!IndInv, PayP!Statuses
<1> QED
  BY <1>1 DEF Components, Told

LEMMA SagaStart == Init => SagaInv
<1> SUFFICES ASSUME Init PROVE SagaInv
  OBVIOUS
<1>1. PayP!Init
  BY DEF Init, PayP!Init, Pay!PayInit, PayP!PayInit, Pay!NoPayment, PayP!NoPayment, Pay!Workers,
         PayP!Workers, Pay!Idle, PayP!Idle
<1>2. BusP!Init
  BY DEF Init, BusP!Init, Bus!BusInit, BusP!BusInit, Bus!Idle, BusP!Idle
<1>3. OrdP!OrdersInit
  BY DEF Init, Ord!OrdersInit, OrdP!OrdersInit, Ord!Idle, OrdP!Idle
<1>4. PayP!IndInv
  BY <1>1, PayP!PaymentInit, CheckoutAssumption
<1>5. BusP!IndInv
  BY <1>2, BusP!BusStart, CheckoutAssumption
<1> DEFINE D == [o \in OrderIds |-> {}]
<1>6. Told(D)
  BY <1>1 DEF Told, OrdP!Decisions, PayP!Init, PayP!PayInit, PayP!NoPayment
<1>7. OrdP!OrderInv(D)
  BY <1>3, <1>6, OrdP!OrdersStart, CheckoutAssumption DEF Told
<1>8. Linked
  <2>1. announced = {} /\ worker[OrderCreated].pc = "idle"
    BY <1>1 DEF PayP!Init, PayP!PayInit, PayP!Workers, PayP!Idle
  <2>2. \A t \in Topics, q \in Partitions : log[t][q] = <<>>
    BY <1>2 DEF BusP!Init, BusP!BusInit
  <2>3. \A t \in Topics, q \in Partitions : Events(t, q) = {}
    BY <2>2 DEF Events
  <2> QED
    BY <2>1, <2>3 DEF Linked, Topics, OutcomeTopics
<1> HIDE DEF D
<1> QED
  BY <1>4, <1>5, <1>6, <1>7, <1>8 DEF SagaInv, Components

LEMMA FaultsBounded ==
    ASSUME faults \in 0..MaxFaults, [Next]_vars
    PROVE  faults' \in 0..MaxFaults
<1>1. \/ UNCHANGED faults
      \/ \E kind \in {"crash", "commit", "rebalance", "call", "fetch", "charge", "request"} : Fault(kind)
      \/ \E o \in OrderIds : Ord!RequestFault(o, "request")
  BY DEF Next, vars, CreateOrderStep, Submit, ChargeLoop, DeliverOrder, ChargeStep, Announce,
         ChargeDone, ChargeGivenUp, SettleLoop, DeliverOutcome, SettleStep, SettleDone, SettleGivenUp,
         ChargeRequest, ChargeAnswered, OrdersCrash, PaymentCrash, ChargeCommitFails,
         SettleCommitFails, Rebalance, ChargeCallFails, AnnounceUnanswered, SettleCallFails,
         ConsumerStops, ClientGone, CreateOrderCallFails, SubmitUnanswered
<1>2. faults < MaxFaults /\ faults' = faults + 1 => faults' \in 0..MaxFaults
  BY CheckoutAssumption
<1> QED
  BY <1>1, <1>2 DEF Fault, Ord!RequestFault, Ord!Fault

(* A fetched event is in its log, hence of some order. *)
LEMMA FetchedEvent ==
    ASSUME BusP!IndInv, NEW t \in Topics, NEW q \in Partitions, Bus!Fetch(t, q)
    PROVE  position[t][q] + 1 \in Events(t, q) /\ NextEvent(t, q) \in OrderIds
<1>1. /\ log[t][q] \in Seq(OrderIds) /\ Len(log[t][q]) \in Nat /\ position[t][q] \in Nat
      /\ position[t][q] < Len(log[t][q])
  BY DEF BusP!IndInv, BusP!Tables, Bus!Fetch
<1>2. position[t][q] + 1 \in 1..Len(log[t][q])
  BY <1>1
<1> QED
  BY <1>1, <1>2 DEF Events, NextEvent

(* Every step of the saga is, for each component, an operation of it or no     *)
(* step at all.                                                                *)
LEMMA PaymentPart ==
    ASSUME BusP!IndInv, [Next]_vars
    PROVE  PayP!Operation
<1>1. CASE UNCHANGED payVars
  BY <1>1 DEF PayP!Operation, PayP!payVars, payVars
<1>2. OrderCreated \in PayP!Workers /\ Requests \subseteq PayP!Workers
  BY DEF PayP!Workers
<1>3. CASE \E w \in {OrderCreated} \cup Requests :
              \/ Pay!Step(w) \/ Pay!PublishOutcome(w) \/ Pay!Return(w) \/ Pay!CallFails(w)
              \/ Pay!RecordUnanswered(w) \/ Pay!PublishUnanswered(w)
  BY <1>2, <1>3, SamePayment DEF PayP!Operation
<1>4. CASE Pay!Crash
  BY <1>4, SamePayment DEF PayP!Operation
<1>5. ASSUME NEW w \in Requests, ChargeRequest(w) PROVE PayP!Operation
  <2>1. PICK o \in OrderIds, a \in Amounts : Pay!Begin(w, o, a)
    BY <1>5 DEF ChargeRequest
  <2>2. a \in IF w \in {OrderCreated} THEN {Total[o]} ELSE Amounts
    BY CheckoutAssumption
  <2> QED
    BY <1>2, <2>1, <2>2, SamePayment DEF PayP!Operation
<1>6. ASSUME NEW q \in Partitions, DeliverOrder(q) PROVE PayP!Operation
  <2> DEFINE o == NextEvent(OrderCreated, q)
  <2>1. Pay!Begin(OrderCreated, o, Total[o]) /\ Bus!Fetch(OrderCreated, q)
    BY <1>6 DEF DeliverOrder
  <2>2. o \in OrderIds
    BY <2>1, FetchedEvent DEF Topics
  <2>3. PayP!Begin(OrderCreated, o, Total[o])
    BY <2>1, SamePayment
  <2>4. Total[o] \in IF OrderCreated \in {OrderCreated} THEN {Total[o]} ELSE Amounts
    OBVIOUS
  <2> HIDE DEF o
  <2> QED
    BY <1>2, <2>2, <2>3, <2>4 DEF PayP!Operation
<1>7. CASE ChargeLoop
  BY <1>3, <1>6, <1>7 DEF ChargeLoop, ChargeStep, Announce, ChargeDone, ChargeGivenUp
<1>8. CASE \E w \in Requests : ChargeRequest(w) \/ ChargeStep(w) \/ ChargeAnswered(w)
  BY <1>3, <1>5, <1>8 DEF ChargeStep, ChargeAnswered
<1>9. CASE PaymentCrash \/ ChargeCommitFails \/ ChargeCallFails \/ AnnounceUnanswered
  BY <1>3, <1>4, <1>9 DEF PaymentCrash, ChargeCommitFails, ChargeCallFails, AnnounceUnanswered
<1>10. ASSUME [Next]_vars, ~ChargeLoop, ~(PaymentCrash \/ ChargeCommitFails \/ ChargeCallFails \/ AnnounceUnanswered),
              ~\E w \in Requests : ChargeRequest(w) \/ ChargeStep(w) \/ ChargeAnswered(w)
       PROVE  UNCHANGED payVars
  BY <1>10 DEF Next, vars, CreateOrderStep, Submit, SettleLoop, DeliverOutcome, SettleStep, SettleDone,
     SettleGivenUp, OrdersCrash, SettleCommitFails, Rebalance, SettleCallFails, ConsumerStops,
     ClientGone, CreateOrderCallFails, SubmitUnanswered
<1> QED
  BY <1>1, <1>7, <1>8, <1>9, <1>10

LEMMA BusPart ==
    ASSUME PayP!IndInv, BusP!IndInv, [Next]_vars
    PROVE  BusP!Operation
<1>1. CASE UNCHANGED busVars
  BY <1>1 DEF BusP!Operation, BusP!busVars, busVars
<1>2. CASE \E o \in OrderIds : Submit(o) \/ SubmitUnanswered(o)
  BY <1>2, SameBus DEF Submit, SubmitUnanswered, BusP!Operation, Topics
<1>3. CASE Announce \/ AnnounceUnanswered
  <2>1. worker[OrderCreated].pc = "publish"
    BY <1>3 DEF Announce, AnnounceUnanswered, Pay!PublishOutcome, Pay!PublishUnanswered, Pay!At
  <2>2. worker[OrderCreated].order \in OrderIds
    BY <2>1 DEF PayP!IndInv, PayP!Busy, PayP!Workers, PayP!Idle
  <2>3. OutcomeTopic(worker[OrderCreated].status) \in Topics
    BY DEF OutcomeTopic, Topics
  <2>4. Bus!Publish(OutcomeTopic(worker[OrderCreated].status), worker[OrderCreated].order)
    BY <1>3 DEF Announce, AnnounceUnanswered
  <2> QED
    BY <2>2, <2>3, <2>4, SameBus DEF BusP!Operation
<1>4. CASE \E t \in Topics, q \in Partitions : Bus!Fetch(t, q)
  BY <1>4, SameBus DEF BusP!Operation
<1>5. CASE \E t \in Topics : \/ Bus!HandleAndCommit(t) \/ Bus!HandleCommitFails(t)
                             \/ Bus!HandlerFails(t) \/ Bus!FetchFails(t) \/ Bus!Rebalance(t)
  BY <1>5, SameBus DEF BusP!Operation
<1>6. CASE Bus!Restart(OutcomeTopics) \/ Bus!Restart({OrderCreated})
  BY <1>6, SameBus DEF BusP!Operation, OutcomeTopics, Topics
<1>7. OrderCreated \in Topics /\ OutcomeTopics \subseteq Topics
  BY DEF Topics, OutcomeTopics
<1>8. CASE ChargeLoop
  BY <1>1, <1>3, <1>4, <1>5, <1>7, <1>8 DEF ChargeLoop, DeliverOrder, ChargeStep, ChargeDone, ChargeGivenUp
<1>9. CASE \E t \in OutcomeTopics : SettleLoop(t)
  BY <1>1, <1>4, <1>5, <1>7, <1>9 DEF SettleLoop, DeliverOutcome, SettleStep, SettleDone, SettleGivenUp
<1>10. CASE \/ OrdersCrash \/ PaymentCrash \/ ChargeCommitFails
            \/ \E t \in OutcomeTopics : SettleCommitFails(t)
            \/ \E t \in Topics : Rebalance(t) \/ ConsumerStops(t)
  BY <1>5, <1>6, <1>7, <1>10 DEF OrdersCrash, PaymentCrash, ChargeCommitFails, SettleCommitFails,
     Rebalance, ConsumerStops
<1>11. CASE \/ \E o \in OrderIds : CreateOrderStep(o) \/ ClientGone(o) \/ CreateOrderCallFails(o)
            \/ \E w \in Requests : ChargeRequest(w) \/ ChargeStep(w) \/ ChargeAnswered(w)
            \/ ChargeCallFails
            \/ \E t \in OutcomeTopics : SettleCallFails(t)
            \/ UNCHANGED vars
  BY <1>1, <1>11 DEF CreateOrderStep, ClientGone, CreateOrderCallFails, ChargeRequest, ChargeStep,
     ChargeAnswered, ChargeCallFails, SettleCallFails, vars
<1> QED
  BY <1>2, <1>3, <1>8, <1>9, <1>10, <1>11 DEF Next

LEMMA OrdersPart ==
    ASSUME NEW D, Components(D), Linked, [Next]_vars
    PROVE  OrdP!Operation(D)
<1>1. CASE UNCHANGED ordVars
  BY <1>1 DEF OrdP!Operation, OrdP!orderVars, OrdP!catalogVars, ordVars
<1>2. CASE \E o \in OrderIds : \/ Ord!RequestStep(o) \/ Ord!RequestCallFails(o)
                               \/ Ord!RequestCallUnanswered(o) \/ Ord!PublishOrder(o)
                               \/ Ord!PublishUnanswered(o) \/ Ord!ClientGone(o)
  BY <1>2, SameRequest DEF OrdP!Operation
<1>3. CASE \E t \in OutcomeTopics : \/ Ord!SettlerStep(t) \/ Ord!SettleFails(t)
                                    \/ Ord!SettlerCallUnanswered(t) \/ Ord!SettleReturn(t)
  BY <1>3, SameSettler DEF OrdP!Operation
<1>4. CASE Ord!Crash
  BY <1>4, SameSettler DEF OrdP!Operation
<1>5. ASSUME NEW t \in OutcomeTopics, NEW q \in Partitions, DeliverOutcome(t, q)
      PROVE  OrdP!Operation(D)
  <2> DEFINE o == NextEvent(t, q)
             v == Verdict(t)
  <2>1. Ord!BeginSettle(t, o, v) /\ Bus!Fetch(t, q)
    BY <1>5 DEF DeliverOutcome
  <2>2. position[t][q] + 1 \in Events(t, q) /\ o \in OrderIds
    BY <2>1, FetchedEvent DEF Components, Topics, OutcomeTopics
  <2>3. <<o, v>> \in announced
    BY <2>2 DEF Linked, NextEvent
  <2> HIDE DEF o, v
  <2>4. v \in D[o]
    BY <2>2, <2>3, PaymentsRecorded
  <2>5. o \in submitted
    BY <2>3 DEF Linked
  <2> QED
    BY <2>1, <2>4, <2>5, SameSettler DEF OrdP!Operation
<1>6. CASE \/ \E o \in OrderIds : \/ CreateOrderStep(o) \/ Submit(o) \/ ClientGone(o)
                                  \/ CreateOrderCallFails(o) \/ SubmitUnanswered(o)
  BY <1>2, <1>6 DEF CreateOrderStep, Submit, ClientGone, CreateOrderCallFails, SubmitUnanswered
<1>7. CASE \E t \in OutcomeTopics : SettleLoop(t) \/ SettleCommitFails(t) \/ SettleCallFails(t)
  BY <1>3, <1>5, <1>7 DEF SettleLoop, SettleStep, SettleDone, SettleGivenUp, SettleCommitFails, SettleCallFails
<1>8. CASE OrdersCrash
  BY <1>4, <1>8 DEF OrdersCrash
<1>9. CASE \/ ChargeLoop
           \/ \E w \in Requests : ChargeRequest(w) \/ ChargeStep(w) \/ ChargeAnswered(w)
           \/ PaymentCrash \/ ChargeCommitFails \/ ChargeCallFails \/ AnnounceUnanswered
           \/ \E t \in Topics : Rebalance(t) \/ ConsumerStops(t)
           \/ UNCHANGED vars
  BY <1>1, <1>9 DEF ChargeLoop, DeliverOrder, ChargeStep, Announce, ChargeDone, ChargeGivenUp,
     ChargeRequest, ChargeAnswered, PaymentCrash, ChargeCommitFails, ChargeCallFails,
     AnnounceUnanswered, Rebalance, ConsumerStops, vars
<1> QED
  BY <1>6, <1>7, <1>8, <1>9 DEF Next

(* The components keep their invariants: a charge that is recorded in the step *)
(* adds an outcome and revises none.                                           *)
LEMMA ComponentsKeep ==
    ASSUME NEW D, Components(D), Linked, [Next]_vars
    PROVE  /\ OrdP!Operation(D) /\ PayP!Operation /\ BusP!Operation
           /\ \A o \in OrderIds : D[o] # {} => payments'[o] = payments[o]
           /\ \E E : Components(E)'
<1>1. PayP!IndInv /\ BusP!IndInv /\ Told(D) /\ OrdP!OrderInv(D)
  BY DEF Components
<1>2. faults' \in 0..MaxFaults
  BY <1>1, FaultsBounded DEF PayP!IndInv
<1>3. OrdP!Operation(D) /\ PayP!Operation /\ BusP!Operation
  BY <1>1, PaymentPart, BusPart, OrdersPart
<1>4. PayP!IndInv'
  BY <1>1, <1>2, <1>3, PayP!OperationKeeps, CheckoutAssumption
<1>5. BusP!IndInv'
  BY <1>1, <1>2, <1>3, BusP!OperationKeeps, CheckoutAssumption
<1>6. OrdP!OrderInv(D)'
  BY <1>1, <1>3, OrdP!OperationKeeps, CheckoutAssumption DEF Told
<1>7. \A o \in OrderIds : payments[o] # PayP!NoPayment => payments'[o] = payments[o]
  BY <1>1, <1>3, PayP!OperationIsFinal, CheckoutAssumption
<1>8. \A o \in OrderIds : D[o] # {} => payments'[o] = payments[o]
  BY <1>1, <1>7 DEF Told, PayP!NoPayment
<1>9. PICK E : E = [o \in OrderIds |-> {payments'[o].status} \ {"none"}]
  OBVIOUS
<1>10. Told(E)'
  <2>1. \A o \in OrderIds : payments'[o].status \in {"succeeded", "failed", "none"}
    BY <1>4 DEF PayP!IndInv, PayP!Rows, PayP!Statuses, PayP!NoPayment
  <2>2. E \in OrdP!Decisions
    BY <1>9, <2>1 DEF OrdP!Decisions
  <2> QED
    BY <1>9, <2>2 DEF Told
<1>11. \A o \in OrderIds : D[o] \subseteq E[o]
  BY <1>1, <1>8, <1>9 DEF Told
<1>12. OrdP!OrderInv(E)'
  BY <1>6, <1>11, OrdP!MoreOutcomes, CheckoutAssumption
<1>13. Components(E)'
  BY <1>4, <1>5, <1>10, <1>12 DEF Components
<1> QED
  BY <1>3, <1>8, <1>13

(* What an event appended to a log adds to it. *)
LEMMA Appended ==
    ASSUME BusP!IndInv, NEW t \in Topics, NEW k \in OrderIds, Bus!Publish(t, k)
    PROVE  /\ Hash[k] \in Partitions
           /\ \A u \in Topics, q \in Partitions :
                 /\ Len(log[u][q]) \in Nat
                 /\ \A n \in Events(u, q) : n \in Events(u, q)' /\ log'[u][q][n] = log[u][q][n]
                 /\ \A n \in Events(u, q)' : \/ n \in Events(u, q)
                                             \/ u = t /\ q = Hash[k] /\ log'[u][q][n] = k
           /\ \E n \in Events(t, Hash[k])' : log'[t][Hash[k]][n] = k
<1> DEFINE p == Hash[k]
<1>1. p \in Partitions /\ log \in [Topics -> [Partitions -> Seq(OrderIds)]]
  BY CheckoutAssumption DEF BusP!IndInv, BusP!Tables
<1>2. log' = [log EXCEPT ![t][p] = Append(log[t][p], k)]
  BY DEF Bus!Publish
<1>3. log[t][p] \in Seq(OrderIds) /\ Append(log[t][p], k) \in Seq(OrderIds)
  BY <1>1
<1> HIDE DEF p
<1>4. /\ log'[t][p] = Append(log[t][p], k)
      /\ \A u \in Topics, q \in Partitions : u # t \/ q # p => log'[u][q] = log[u][q]
  BY <1>1, <1>2, <1>3
<1>5. /\ Len(log[t][p]) \in Nat /\ Len(log'[t][p]) = Len(log[t][p]) + 1
      /\ log'[t][p][Len(log[t][p]) + 1] = k
      /\ \A n \in 1..Len(log[t][p]) : log'[t][p][n] = log[t][p][n]
  BY <1>3, <1>4
<1>6. ASSUME NEW u \in Topics, NEW q \in Partitions
      PROVE  /\ Len(log[u][q]) \in Nat
             /\ \A n \in Events(u, q) : n \in Events(u, q)' /\ log'[u][q][n] = log[u][q][n]
             /\ \A n \in Events(u, q)' : \/ n \in Events(u, q)
                                         \/ u = t /\ q = p /\ log'[u][q][n] = k
  <2>1. CASE u = t /\ q = p
    BY <1>5, <2>1 DEF Events
  <2>2. CASE u # t \/ q # p
    BY <1>1, <1>4, <2>2 DEF Events
  <2> QED
    BY <2>1, <2>2
<1>7. Len(log[t][p]) + 1 \in Events(t, p)'
  BY <1>5 DEF Events
<1> QED
  BY <1>1, <1>5, <1>6, <1>7 DEF p

(* The three kinds of steps that hand something from one component to another. *)
Handover ==
    \/ \E q \in Partitions : DeliverOrder(q)
    \/ \E o \in OrderIds : Submit(o) \/ SubmitUnanswered(o)
    \/ Announce \/ AnnounceUnanswered

(* The others leave logs and announcements alone, and the execution that the   *)
(* order.created consumer runs stays with its order until it ends.             *)
LEMMA QuietStep ==
    ASSUME NEW D, Components(D), Linked, [Next]_vars, ~Handover
    PROVE  /\ UNCHANGED <<log, announced>>
           /\ \/ worker'[OrderCreated] = worker[OrderCreated]
              \/ worker'[OrderCreated] = PayP!Idle
              \/ /\ worker[OrderCreated].pc # "idle" /\ worker'[OrderCreated].pc \notin {"idle", "ok"}
                 /\ worker'[OrderCreated].order = worker[OrderCreated].order
<1>1. PayP!IndInv
  BY DEF Components
<1>2. UNCHANGED log
  <2>1. CASE UNCHANGED vars
    BY <2>1 DEF vars, busVars
  <2>2. CASE ChargeLoop \/ \E t \in OutcomeTopics : SettleLoop(t)
    BY <2>2 DEF Handover, ChargeLoop, SettleLoop, ChargeStep, ChargeDone, ChargeGivenUp, DeliverOutcome,
       SettleStep, SettleDone, SettleGivenUp, Bus!Fetch, Bus!HandleAndCommit, Bus!HandlerFails, busVars
  <2>3. CASE \/ OrdersCrash \/ PaymentCrash \/ ChargeCommitFails
             \/ \E t \in OutcomeTopics : SettleCommitFails(t)
             \/ \E t \in Topics : Rebalance(t) \/ ConsumerStops(t)
    BY <2>3 DEF OrdersCrash, PaymentCrash, ChargeCommitFails, SettleCommitFails, Rebalance, ConsumerStops,
       Bus!Restart, Bus!HandleCommitFails, Bus!Rebalance, Bus!FetchFails
  <2>4. CASE \/ \E o \in OrderIds : CreateOrderStep(o) \/ ClientGone(o) \/ CreateOrderCallFails(o)
             \/ \E w \in Requests : ChargeRequest(w) \/ ChargeStep(w) \/ ChargeAnswered(w)
             \/ ChargeCallFails
             \/ \E t \in OutcomeTopics : SettleCallFails(t)
    BY <2>4 DEF CreateOrderStep, ClientGone, CreateOrderCallFails, ChargeRequest, ChargeStep,
       ChargeAnswered, ChargeCallFails, SettleCallFails, busVars
  <2> QED
    BY <2>1, <2>2, <2>3, <2>4 DEF Next, Handover
<1>3. \/ UNCHANGED payVars
      \/ \E w \in {OrderCreated} \cup Requests :
            Pay!Step(w) \/ Pay!Return(w) \/ Pay!CallFails(w) \/ Pay!RecordUnanswered(w)
      \/ \E w \in Requests, o \in OrderIds, a \in Amounts : Pay!Begin(w, o, a)
      \/ Pay!Crash
  <2>1. CASE ChargeLoop
    BY <2>1 DEF Handover, ChargeLoop, ChargeStep, ChargeDone, ChargeGivenUp
  <2>2. CASE \E t \in OutcomeTopics : SettleLoop(t) \/ SettleCommitFails(t) \/ SettleCallFails(t)
    BY <2>2 DEF SettleLoop, DeliverOutcome, SettleStep, SettleDone, SettleGivenUp, SettleCommitFails,
       SettleCallFails
  <2>3. CASE \E w \in Requests : ChargeRequest(w) \/ ChargeStep(w) \/ ChargeAnswered(w)
    BY <2>3 DEF ChargeRequest, ChargeStep, ChargeAnswered
  <2>4. CASE OrdersCrash \/ PaymentCrash \/ ChargeCommitFails \/ ChargeCallFails
    BY <2>4 DEF OrdersCrash, PaymentCrash, ChargeCommitFails, ChargeCallFails
  <2>5. CASE \/ \E t \in Topics : Rebalance(t) \/ ConsumerStops(t)
             \/ \E o \in OrderIds : CreateOrderStep(o) \/ ClientGone(o) \/ CreateOrderCallFails(o)
             \/ UNCHANGED vars
    BY <2>5 DEF Rebalance, ConsumerStops, CreateOrderStep, ClientGone, CreateOrderCallFails, vars
  <2> QED
    BY <2>1, <2>2, <2>3, <2>4, <2>5 DEF Next, Handover
<1>4. UNCHANGED announced
  BY <1>3 DEF payVars, Pay!Step, Pay!Lookup, Pay!Charge, Pay!Record, Pay!LoadWinner, Pay!Return,
     Pay!CallFails, Pay!RecordUnanswered, Pay!Begin, Pay!Crash
<1>5. /\ OrderCreated \in PayP!Workers /\ Requests \subseteq PayP!Workers /\ OrderCreated \notin Requests
      /\ payVars = PayP!payVars
  BY CheckoutAssumption DEF PayP!Workers, payVars, PayP!payVars
<1>6. \E w \in PayP!Workers :
         \/ PayP!Step(w) \/ PayP!Return(w) \/ PayP!CallFails(w) \/ PayP!RecordUnanswered(w)
         \/ w # OrderCreated /\ \E o, a : PayP!Begin(w, o, a)
         \/ PayP!Crash
         \/ UNCHANGED PayP!payVars
  <2>1. CASE UNCHANGED payVars
    BY <1>5, <2>1 DEF payVars, PayP!payVars
  <2>2. CASE \E w \in {OrderCreated} \cup Requests :
                Pay!Step(w) \/ Pay!Return(w) \/ Pay!CallFails(w) \/ Pay!RecordUnanswered(w)
    BY <1>5, <2>2, SamePayment
  <2>3. CASE \E w \in Requests, o \in OrderIds, a \in Amounts : Pay!Begin(w, o, a)
    BY <1>5, <2>3, SamePayment
  <2>4. CASE Pay!Crash
    BY <1>5, <2>4, SamePayment
  <2> QED
    BY <1>3, <2>1, <2>2, <2>3, <2>4
<1>7. OrderCreated \in {OrderCreated}
  OBVIOUS
<1>8. \/ worker'[OrderCreated] = worker[OrderCreated]
      \/ worker'[OrderCreated] = PayP!Idle
      \/ /\ worker[OrderCreated].pc # "idle" /\ worker'[OrderCreated].pc \notin {"idle", "ok"}
         /\ worker'[OrderCreated].order = worker[OrderCreated].order
  BY <1>1, <1>6, <1>7, PayP!ExecutionGoesOn, CheckoutAssumption
<1> QED
  BY <1>2, <1>4, <1>8

(* An order once submitted stays so. *)
LEMMA SubmittedStays ==
    ASSUME NEW D, Components(D), OrdP!Operation(D)
    PROVE  submitted \subseteq submitted'
<1>1. D \in OrdP!Decisions /\ OrdP!OrderInv(D)
  BY DEF Components, Told
<1>2. OrdP!Effect(D)
  BY <1>1, OrdP!OperationEffect, CheckoutAssumption
<1> QED
  BY <1>2 DEF OrdP!Effect, OrdP!HoldsLine, OrdP!LetsGo, OrdP!SellsLine, OrdP!GivesBack, OrdP!OnlyLine,
              OrdP!RecordsOrder, OrdP!SubmitsOrder, OrdP!SettlesOrder

(* Submitting an order adds its event to the first topic. *)
LEMMA SubmitStep ==
    ASSUME NEW o \in OrderIds, Submit(o) \/ SubmitUnanswered(o)
    PROVE  /\ Bus!Publish(OrderCreated, o) /\ UNCHANGED payVars
           /\ submitted' = submitted \cup {o}
BY DEF Submit, SubmitUnanswered, Ord!PublishOrder, Ord!PublishUnanswered

(* Announcing an outcome adds its event to the outcome's topic. *)
LEMMA AnnounceStep ==
    ASSUME PayP!IndInv, Announce \/ AnnounceUnanswered
    PROVE  \E o \in OrderIds, s \in {"succeeded", "failed"} :
              /\ o = worker[OrderCreated].order /\ s = worker[OrderCreated].status
              /\ Bus!Publish(OutcomeTopic(s), o)
              /\ announced' = announced \cup {<<o, s>>}
              /\ worker[OrderCreated].pc = "publish"
              /\ worker'[OrderCreated].pc \in {"ok", "error"}
              /\ worker'[OrderCreated].order = o
              /\ UNCHANGED <<ordVars, payments>>
<1>1. OrderCreated \in PayP!Workers
  BY DEF PayP!Workers
<1>2. PayP!PublishOutcome(OrderCreated) \/ PayP!PublishUnanswered(OrderCreated)
  BY SamePayment DEF Announce, AnnounceUnanswered
<1>3. /\ worker[OrderCreated].pc = "publish" /\ worker[OrderCreated].order \in OrderIds
      /\ worker[OrderCreated].status \in PayP!Statuses
      /\ worker'[OrderCreated].pc \in {"ok", "error"}
      /\ worker'[OrderCreated].order = worker[OrderCreated].order
      /\ announced' = announced \cup {<<worker[OrderCreated].order, worker[OrderCreated].status>>}
  BY <1>1, <1>2, PayP!ExecutionPublishes, CheckoutAssumption
<1>4. /\ Bus!Publish(OutcomeTopic(worker[OrderCreated].status), worker[OrderCreated].order)
      /\ UNCHANGED ordVars
  BY DEF Announce, AnnounceUnanswered
<1>5. UNCHANGED payments
  BY <1>2 DEF PayP!PublishOutcome, PayP!PublishUnanswered
<1> QED
  BY <1>3, <1>4, <1>5 DEF PayP!Statuses

(* The topic of an outcome is the one whose handler reads it as that outcome. *)
LEMMA TopicOfOutcome ==
    ASSUME NEW s \in {"succeeded", "failed"}
    PROVE  OutcomeTopic(s) \in OutcomeTopics /\ OutcomeTopic(s) \in Topics
           /\ OutcomeTopic(s) # OrderCreated /\ Verdict(OutcomeTopic(s)) = s
BY DEF OutcomeTopic, OutcomeTopics, Topics, Verdict, PaymentSucceeded, PaymentFailed, OrderCreated

(* The delivery of an order starts its execution. *)
LEMMA DeliverOrderStep ==
    ASSUME NEW D, Components(D), NEW q \in Partitions, DeliverOrder(q)
    PROVE  /\ position[OrderCreated][q] + 1 \in Events(OrderCreated, q)
           /\ worker'[OrderCreated].pc = "lookup"
           /\ worker'[OrderCreated].order = log[OrderCreated][q][position[OrderCreated][q] + 1]
           /\ consumer'[OrderCreated] = Bus!Busy(q, position[OrderCreated][q] + 1)
           /\ UNCHANGED <<ordVars, log, announced, handled>>
<1> DEFINE o == NextEvent(OrderCreated, q)
<1>1. PayP!IndInv /\ BusP!IndInv
  BY DEF Components
<1>2. Bus!Fetch(OrderCreated, q) /\ Pay!Begin(OrderCreated, o, Total[o]) /\ UNCHANGED ordVars
  BY DEF DeliverOrder
<1>3. position[OrderCreated][q] + 1 \in Events(OrderCreated, q)
  BY <1>1, <1>2, FetchedEvent DEF Topics
<1>4. consumer = [t \in Topics |-> consumer[t]] /\ OrderCreated \in Topics
  BY <1>1 DEF BusP!IndInv, BusP!Tables, Topics
<1>5. consumer'[OrderCreated] = Bus!Busy(q, position[OrderCreated][q] + 1) /\ UNCHANGED <<log, handled>>
  BY <1>2, <1>4 DEF Bus!Fetch
<1> HIDE DEF o
<1>6. worker'[OrderCreated].pc = "lookup" /\ worker'[OrderCreated].order = o /\ UNCHANGED announced
  <2>1. worker \in [PayP!Workers -> PayP!Executions] /\ OrderCreated \in PayP!Workers
    BY <1>1 DEF PayP!IndInv, PayP!Workers
  <2>2. worker' = [worker EXCEPT ![OrderCreated] =
            [Pay!Idle EXCEPT !.pc = "lookup", !.order = o, !.amount = Total[o]]]
    BY <1>2 DEF Pay!Begin
  <2>3. worker'[OrderCreated] = [Pay!Idle EXCEPT !.pc = "lookup", !.order = o, !.amount = Total[o]]
    BY <2>1, <2>2
  <2> QED
    BY <1>2, <2>3 DEF Pay!Idle, Pay!Begin
<1> QED
  BY <1>2, <1>3, <1>5, <1>6 DEF o, NextEvent

LEMMA LinkedKeeps ==
    ASSUME NEW D, Components(D), Linked, [Next]_vars
    PROVE  Linked'
<1>1. PayP!IndInv /\ BusP!IndInv
  BY DEF Components
<1>2. submitted \subseteq submitted'
  BY ComponentsKeep, SubmittedStays
<1>3. OrderCreated \in Topics /\ OutcomeTopics \subseteq Topics /\ OrderCreated \notin OutcomeTopics
  BY DEF Topics, OutcomeTopics, OrderCreated, PaymentSucceeded, PaymentFailed
<1>4. ASSUME UNCHANGED log PROVE \A t \in Topics, q \in Partitions : Events(t, q)' = Events(t, q)
  BY <1>4 DEF Events
<1>5. CASE \E q \in Partitions : DeliverOrder(q)
  <2>1. PICK q \in Partitions : DeliverOrder(q)
    BY <1>5
  <2>2. /\ worker'[OrderCreated].order \in submitted
        /\ UNCHANGED <<submitted, log, announced>>
    BY <2>1, DeliverOrderStep DEF Linked, ordVars
  <2> QED
    BY <1>3, <1>4, <2>2 DEF Linked
<1>6. CASE \E o \in OrderIds : Submit(o) \/ SubmitUnanswered(o)
  <2>1. PICK o \in OrderIds : Submit(o) \/ SubmitUnanswered(o)
    BY <1>6
  <2>2. Bus!Publish(OrderCreated, o) /\ o \in submitted' /\ UNCHANGED <<worker, announced>>
    BY <2>1, SubmitStep DEF payVars
  <2>3. \A q \in Partitions : \A n \in Events(OrderCreated, q)' : log'[OrderCreated][q][n] \in submitted'
    BY <1>1, <1>2, <1>3, <2>2, Appended DEF Linked
  <2>4. \A t \in OutcomeTopics, q \in Partitions : \A n \in Events(t, q)' :
           <<log'[t][q][n], Verdict(t)>> \in announced'
    BY <1>1, <1>3, <2>2, Appended DEF Linked
  <2>5. /\ worker'[OrderCreated].pc # "idle" => worker'[OrderCreated].order \in submitted'
        /\ \A e \in announced' : e[1] \in submitted'
    BY <1>2, <2>2 DEF Linked
  <2> QED
    BY <2>3, <2>4, <2>5 DEF Linked
<1>7. CASE Announce \/ AnnounceUnanswered
  <2>1. PICK o \in OrderIds, s \in {"succeeded", "failed"} :
           /\ o = worker[OrderCreated].order
           /\ Bus!Publish(OutcomeTopic(s), o)
           /\ announced' = announced \cup {<<o, s>>}
           /\ worker[OrderCreated].pc = "publish"
           /\ worker'[OrderCreated].order = o
    BY <1>1, <1>7, AnnounceStep
  <2>2. o \in submitted
    BY <2>1 DEF Linked
  <2>3. OutcomeTopic(s) \in Topics /\ OutcomeTopic(s) # OrderCreated /\ Verdict(OutcomeTopic(s)) = s
    BY TopicOfOutcome
  <2>4. \A q \in Partitions : \A n \in Events(OrderCreated, q)' : log'[OrderCreated][q][n] \in submitted'
    BY <1>1, <1>2, <1>3, <2>1, <2>3, Appended DEF Linked
  <2>5. \A t \in OutcomeTopics, q \in Partitions : \A n \in Events(t, q)' :
           <<log'[t][q][n], Verdict(t)>> \in announced'
    BY <1>1, <1>3, <2>1, <2>3, Appended DEF Linked
  <2>6. /\ worker'[OrderCreated].pc # "idle" => worker'[OrderCreated].order \in submitted'
        /\ \A e \in announced' : e[1] \in submitted'
    BY <1>2, <2>1, <2>2 DEF Linked
  <2> QED
    BY <2>4, <2>5, <2>6 DEF Linked
<1>8. CASE ~Handover
  <2>1. /\ UNCHANGED <<log, announced>>
        /\ \/ worker'[OrderCreated] = worker[OrderCreated]
           \/ worker'[OrderCreated] = PayP!Idle
           \/ /\ worker[OrderCreated].pc # "idle"
              /\ worker'[OrderCreated].order = worker[OrderCreated].order
    BY <1>8, QuietStep
  <2>2. worker'[OrderCreated].pc # "idle" => worker'[OrderCreated].order \in submitted'
    BY <1>2, <2>1 DEF Linked, PayP!Idle
  <2>3. \A t \in Topics, q \in Partitions : Events(t, q)' = Events(t, q)
    BY <1>4, <2>1
  <2> QED
    BY <1>2, <1>3, <2>1, <2>2, <2>3 DEF Linked
<1> QED
  BY <1>5, <1>6, <1>7, <1>8 DEF Handover

LEMMA SagaStep == SagaInv /\ [Next]_vars => SagaInv'
<1> SUFFICES ASSUME SagaInv, [Next]_vars PROVE SagaInv'
  OBVIOUS
<1>1. Linked
  BY DEF SagaInv
<1>2. PICK D : Components(D)
  BY DEF SagaInv
<1>3. Linked'
  BY <1>1, <1>2, LinkedKeeps
<1>4. PICK E : Components(E)'
  BY <1>1, <1>2, ComponentsKeep
<1>5. \E F : Components(F)'
  BY <1>4
<1> QED
  BY <1>3, <1>5 DEF SagaInv

(* The components' invariants and their links hold throughout the saga. *)
LEMMA SagaInvariant == Spec => []SagaInv
BY SagaStart, SagaStep, PTL DEF Spec

-----------------------------------------------------------------------------
(* An order is confirmed only when its recorded charge succeeded and all its   *)
(* stock has been consumed, and cancelled only when the charge was declined    *)
(* and none has: payment, orders and catalog never disagree about an outcome.  *)
THEOREM SagaOutcomeIsConsistent == Spec => []OutcomeIsConsistent
<1>1. SagaInv => OutcomeIsConsistent
  <2> SUFFICES ASSUME SagaInv, NEW o \in OrderIds
               PROVE  /\ orders[o] = "confirmed" => payments[o].status = "succeeded" /\ sold[o] = Cart[o]
                      /\ orders[o] = "cancelled" =>
                            /\ payments[o].status = "failed"
                            /\ \A p \in Products : sold[o][p] = 0 /\ reservations[o][p] = 0
    BY DEF OutcomeIsConsistent
  <2>1. PICK D : Components(D)
    BY DEF SagaInv
  <2>2. OrdP!OrderKnows(o, D) /\ OrdP!Types /\ D[o] = {payments[o].status} \ {"none"}
    BY <2>1 DEF Components, Told, OrdP!OrderInv
  <2>3. ASSUME orders[o] = "confirmed"
        PROVE  payments[o].status = "succeeded" /\ sold[o] = Cart[o]
    <3>1. "succeeded" \in D[o] /\ \A p \in Products : sold[o][p] = Cart[o][p]
      BY <2>2, <2>3 DEF OrdP!OrderKnows
    <3>2. sold[o] \in [Products -> Nat]
      BY <2>2 DEF OrdP!Types, OrdP!Catalog!TypeOK, OrdP!Catalog!PerLine
    <3>3. Cart[o] \in [Products -> 0..MaxInt]
      BY CheckoutAssumption
    <3> QED
      BY <2>2, <3>1, <3>2, <3>3
  <2> QED
    BY <2>2, <2>3 DEF OrdP!OrderKnows
<1> QED
  BY <1>1, SagaInvariant, PTL

(* A charge is announced as succeeded only for an order that is recorded and   *)
(* whose every unit of stock is held or sold: payment never overtakes the      *)
(* reservation, and no failed call of orders gives that stock back.            *)
THEOREM SagaPaidIsBacked == Spec => []PaidIsBacked
<1>1. SagaInv => PaidIsBacked
  <2> SUFFICES ASSUME SagaInv, NEW o \in OrderIds, <<o, "succeeded">> \in announced
               PROVE  /\ orders[o] \in {"pending", "confirmed"}
                      /\ \A p \in Products : reservations[o][p] + sold[o][p] = Cart[o][p]
    BY DEF PaidIsBacked
  <2>1. PICK D : Components(D)
    BY DEF SagaInv
  <2>2. "succeeded" \in D[o] /\ payments[o].status = "succeeded"
    BY <2>1, PaymentsRecorded
  <2>3. D[o] = {payments[o].status} \ {"none"}
    BY <2>1 DEF Components, Told
  <2>4. "failed" \notin D[o] /\ o \in submitted
    BY <2>2, <2>3 DEF SagaInv, Linked
  <2>5. OrdP!OrderKnows(o, D) /\ OrdP!RequestKnows(o) /\ OrdP!Types
    BY <2>1 DEF Components, OrdP!OrderInv
  <2>6. \A p \in Products : sold[o][p] + reservations[o][p] = Cart[o][p]
    BY <2>4, <2>5 DEF OrdP!OrderKnows
  <2>7. orders[o] \in OrdP!OrderStatuses /\ orders[o] # "cancelled"
    BY <2>4, <2>5 DEF OrdP!OrderKnows, OrdP!RequestKnows, OrdP!Types
  <2>8. \A p \in Products : reservations[o][p] \in 0..MaxInt /\ sold[o][p] \in Nat /\ MaxInt \in Nat
    BY <2>5, OrdP!Quantities, CheckoutAssumption
  <2> QED
    BY <2>6, <2>7, <2>8 DEF OrdP!OrderStatuses
<1> QED
  BY <1>1, SagaInvariant, PTL

-----------------------------------------------------------------------------
(* What is known of an order's way through the payment service: events are in  *)
(* their order's partition, the execution is that of the event in the          *)
(* consumer's handler, and an order whose handler has come to its good end is  *)
(* announced, in the partition it came from.                                   *)
Answered(o) == \E s \in {"succeeded", "failed"} : <<o, s>> \in announced

Tracked ==
    /\ \A q \in Partitions : \A n \in Events(OrderCreated, q) : Hash[log[OrderCreated][q][n]] = q
    /\ \A o \in OrderIds, s \in {"succeeded", "failed"} : <<o, s>> \in announced =>
          \E m \in Events(OutcomeTopic(s), Hash[o]) : log[OutcomeTopic(s)][Hash[o]][m] = o
    /\ worker[OrderCreated].pc # "idle" => \A q \in Partitions, n \in 1..MaxEvents :
          consumer[OrderCreated] = Bus!Busy(q, n) => worker[OrderCreated].order = log[OrderCreated][q][n]
    /\ worker[OrderCreated].pc = "ok" => Answered(worker[OrderCreated].order)
    /\ \A q \in Partitions : \A n \in handled[OrderCreated][q] : Answered(log[OrderCreated][q][n])

(* The steps that end the handler of an OrderCreated event well. *)
HandlerDone ==
    /\ worker[OrderCreated].pc = "ok"
    /\ worker'[OrderCreated].pc = "idle"
    /\ Bus!HandleAndCommit(OrderCreated) \/ Bus!HandleCommitFails(OrderCreated)
    /\ UNCHANGED announced

LEMMA DoneStep ==
    ASSUME PayP!IndInv, ChargeDone \/ ChargeCommitFails
    PROVE  HandlerDone
<1>1. worker[OrderCreated].pc = "ok" /\ Pay!Return(OrderCreated)
      /\ (Bus!HandleAndCommit(OrderCreated) \/ Bus!HandleCommitFails(OrderCreated))
  BY DEF ChargeDone, ChargeCommitFails, Pay!At
<1>2. worker \in [PayP!Workers -> PayP!Executions] /\ OrderCreated \in PayP!Workers
  BY DEF PayP!IndInv, PayP!Workers
<1>3. worker'[OrderCreated].pc = "idle" /\ UNCHANGED announced
  BY <1>1, <1>2 DEF Pay!Return, Pay!Idle
<1> QED
  BY <1>1, <1>3 DEF HandlerDone

(* No other step but a delivery makes the consumer busy or an event handled. *)
LEMMA ConsumerStays ==
    ASSUME BusP!IndInv, [Next]_vars, ~\E q \in Partitions : DeliverOrder(q)
    PROVE  /\ \A q, n : consumer'[OrderCreated] = Bus!Busy(q, n) => consumer[OrderCreated] = Bus!Busy(q, n)
           /\ ChargeDone \/ ChargeCommitFails \/ handled'[OrderCreated] = handled[OrderCreated]
<1>1. /\ consumer = [t \in Topics |-> consumer[t]]
      /\ handled \in [Topics -> [Partitions -> SUBSET Nat]]
  BY DEF BusP!IndInv, BusP!Tables
<1>2. OrderCreated \in Topics /\ OrderCreated \notin OutcomeTopics /\ OutcomeTopics \subseteq Topics
  BY DEF Topics, OutcomeTopics, OrderCreated, PaymentSucceeded, PaymentFailed
<1>3. \A q, n : Bus!Busy(q, n) # Bus!Idle /\ Bus!Busy(q, n) # Bus!Stopped
  BY DEF Bus!Busy, Bus!Idle, Bus!Stopped
<1>4. CASE UNCHANGED <<consumer, handled>>
  BY <1>4
<1>5. ASSUME NEW t \in OutcomeTopics, SettleLoop(t) \/ SettleCommitFails(t)
      PROVE  consumer'[OrderCreated] = consumer[OrderCreated] /\ handled'[OrderCreated] = handled[OrderCreated]
  <2>1. t # OrderCreated
    BY <1>2
  <2>2. CASE \E q \in Partitions : DeliverOutcome(t, q)
    BY <1>1, <1>2, <2>1, <2>2 DEF DeliverOutcome, Bus!Fetch
  <2>3. CASE SettleStep(t)
    BY <2>3 DEF SettleStep, busVars
  <2>4. CASE SettleDone(t) \/ SettleGivenUp(t) \/ SettleCommitFails(t)
    BY <1>1, <1>2, <2>1, <2>4 DEF SettleDone, SettleGivenUp, SettleCommitFails, Bus!HandleAndCommit,
       Bus!HandlerFails, Bus!HandleCommitFails
  <2> QED
    BY <1>5, <2>2, <2>3, <2>4 DEF SettleLoop
<1>6. CASE ChargeDone \/ ChargeCommitFails
  <2>1. consumer'[OrderCreated] = Bus!Idle
    BY <1>1, <1>2, <1>6 DEF ChargeDone, ChargeCommitFails, Bus!HandleAndCommit, Bus!HandleCommitFails
  <2> QED
    BY <1>3, <1>6, <2>1
<1>7. CASE ChargeGivenUp
  <2>1. consumer'[OrderCreated] = Bus!Idle /\ UNCHANGED handled
    BY <1>1, <1>2, <1>7 DEF ChargeGivenUp, Bus!HandlerFails
  <2> QED
    BY <1>3, <2>1
<1>8. CASE OrdersCrash \/ PaymentCrash
  <2>1. consumer'[OrderCreated] \in {consumer[OrderCreated], Bus!Idle} /\ UNCHANGED handled
    BY <1>2, <1>8 DEF OrdersCrash, PaymentCrash, Bus!Restart
  <2> QED
    BY <1>3, <2>1
<1>9. CASE \E t \in Topics : ConsumerStops(t)
  <2>1. consumer'[OrderCreated] \in {consumer[OrderCreated], Bus!Stopped} /\ UNCHANGED handled
    BY <1>1, <1>2, <1>9 DEF ConsumerStops, Bus!FetchFails
  <2> QED
    BY <1>3, <2>1
<1>10. CASE \/ \E o \in OrderIds : \/ CreateOrderStep(o) \/ Submit(o) \/ ClientGone(o)
                                   \/ CreateOrderCallFails(o) \/ SubmitUnanswered(o)
            \/ ChargeStep(OrderCreated) \/ Announce \/ ChargeCallFails \/ AnnounceUnanswered
            \/ \E w \in Requests : ChargeRequest(w) \/ ChargeStep(w) \/ ChargeAnswered(w)
            \/ \E t \in OutcomeTopics : SettleCallFails(t)
            \/ \E t \in Topics : Rebalance(t)
            \/ UNCHANGED vars
  BY <1>4, <1>10 DEF CreateOrderStep, Submit, ClientGone, CreateOrderCallFails, SubmitUnanswered,
     ChargeStep, Announce, ChargeCallFails, AnnounceUnanswered, ChargeRequest, ChargeAnswered,
     SettleCallFails, Rebalance, Bus!Rebalance, Bus!Publish, vars, busVars
<1> QED
  BY <1>5, <1>6, <1>7, <1>8, <1>9, <1>10 DEF Next, ChargeLoop

(* Logs and announcements only grow, and what they grow by. *)
LEMMA RecordsGrow ==
    ASSUME NEW D, Components(D), Linked, [Next]_vars
    PROVE  /\ announced \subseteq announced'
           /\ \A u \in Topics, q \in Partitions : \A n \in Events(u, q) :
                 n \in Events(u, q)' /\ log'[u][q][n] = log[u][q][n]
           /\ \A q \in Partitions : \A n \in Events(OrderCreated, q)' :
                 n \in Events(OrderCreated, q) \/ Hash[log'[OrderCreated][q][n]] = q
           /\ \A o \in OrderIds, s \in {"succeeded", "failed"} : <<o, s>> \in announced' =>
                 \/ <<o, s>> \in announced
                 \/ \E m \in Events(OutcomeTopic(s), Hash[o])' : log'[OutcomeTopic(s)][Hash[o]][m] = o
<1>1. PayP!IndInv /\ BusP!IndInv
  BY DEF Components
<1>2. OrderCreated \in Topics
  BY DEF Topics
<1>3. CASE UNCHANGED <<log, announced>>
  BY <1>3 DEF Events
<1>4. CASE \E o \in OrderIds : Submit(o) \/ SubmitUnanswered(o)
  <2>1. PICK o \in OrderIds : Submit(o) \/ SubmitUnanswered(o)
    BY <1>4
  <2>2. Bus!Publish(OrderCreated, o) /\ UNCHANGED announced
    BY <2>1, SubmitStep DEF payVars
  <2> QED
    BY <1>1, <1>2, <2>2, Appended
<1>5. CASE Announce \/ AnnounceUnanswered
  <2>1. PICK k \in OrderIds, r \in {"succeeded", "failed"} :
           Bus!Publish(OutcomeTopic(r), k) /\ announced' = announced \cup {<<k, r>>}
    BY <1>1, <1>5, AnnounceStep
  <2>2. OutcomeTopic(r) \in Topics /\ OutcomeTopic(r) # OrderCreated
    BY TopicOfOutcome
  <2>3. \A o \in OrderIds, s \in {"succeeded", "failed"} : <<o, s>> \in announced' =>
           <<o, s>> \in announced \/ (o = k /\ s = r)
    BY <2>1
  <2> QED
    BY <1>1, <1>2, <2>1, <2>2, <2>3, Appended
<1>6. CASE \E q \in Partitions : DeliverOrder(q)
  BY <1>3, <1>6, DeliverOrderStep
<1>7. CASE ~Handover
  BY <1>3, <1>7, QuietStep
<1> QED
  BY <1>4, <1>5, <1>6, <1>7 DEF Handover

(* The execution stays with the delivered order until it ends, and is at its   *)
(* good end only when the outcome is announced.                                *)
LEMMA ExecutionStays ==
    ASSUME NEW D, Components(D), Linked, [Next]_vars, ~\E q \in Partitions : DeliverOrder(q)
    PROVE  \/ worker'[OrderCreated] = worker[OrderCreated]
           \/ worker'[OrderCreated].pc = "idle"
           \/ /\ worker[OrderCreated].pc # "idle" /\ worker'[OrderCreated].pc # "idle"
              /\ worker'[OrderCreated].order = worker[OrderCreated].order
              /\ worker'[OrderCreated].pc = "ok" => Answered(worker[OrderCreated].order)'
<1>1. PayP!IndInv
  BY DEF Components
<1>2. CASE \E o \in OrderIds : Submit(o) \/ SubmitUnanswered(o)
  BY <1>2, SubmitStep DEF payVars
<1>3. CASE Announce \/ AnnounceUnanswered
  <2>1. PICK o \in OrderIds, s \in {"succeeded", "failed"} :
           /\ o = worker[OrderCreated].order
           /\ announced' = announced \cup {<<o, s>>}
           /\ worker[OrderCreated].pc = "publish"
           /\ worker'[OrderCreated].pc \in {"ok", "error"}
           /\ worker'[OrderCreated].order = o
    BY <1>1, <1>3, AnnounceStep
  <2> QED
    BY <2>1 DEF Answered
<1>4. CASE ~Handover
  BY <1>4, QuietStep DEF PayP!Idle
<1> QED
  BY <1>2, <1>3, <1>4 DEF Handover

(* The event in a handler, and those already handled, are in their log. *)
LEMMA HandlerInLog ==
    ASSUME BusP!IndInv, NEW q \in Partitions
    PROVE  /\ handled[OrderCreated][q] \subseteq Events(OrderCreated, q)
           /\ \A n \in 1..MaxEvents : consumer[OrderCreated] = Bus!Busy(q, n) => n \in Events(OrderCreated, q)
<1>1. BusP!Offsets(OrderCreated, q)
  BY DEF BusP!IndInv, Topics
<1> QED
  BY <1>1 DEF BusP!Offsets, BusP!InHandler, BusP!Busy, Bus!Busy, Events

LEMMA TrackedKeeps ==
    ASSUME NEW D, Components(D), Linked, Tracked, [Next]_vars
    PROVE  Tracked'
<1>1. PayP!IndInv /\ BusP!IndInv /\ OrderCreated \in Topics
  BY DEF Components, Topics
<1>2. announced \subseteq announced'
  BY RecordsGrow
<1>3. \A o : Answered(o) => Answered(o)'
  BY <1>2 DEF Answered
<1>4. \A q \in Partitions : \A n \in Events(OrderCreated, q) :
         n \in Events(OrderCreated, q)' /\ log'[OrderCreated][q][n] = log[OrderCreated][q][n]
  BY <1>1, RecordsGrow
<1>5. \A q \in Partitions : \A n \in Events(OrderCreated, q)' : Hash[log'[OrderCreated][q][n]] = q
  BY <1>4, RecordsGrow DEF Tracked
<1>6. \A o \in OrderIds, s \in {"succeeded", "failed"} : <<o, s>> \in announced' =>
         \E m \in Events(OutcomeTopic(s), Hash[o])' : log'[OutcomeTopic(s)][Hash[o]][m] = o
  <2> SUFFICES ASSUME NEW o \in OrderIds, NEW s \in {"succeeded", "failed"}, <<o, s>> \in announced'
               PROVE  \E m \in Events(OutcomeTopic(s), Hash[o])' : log'[OutcomeTopic(s)][Hash[o]][m] = o
    OBVIOUS
  <2>1. CASE <<o, s>> \in announced
    <3>1. OutcomeTopic(s) \in Topics /\ Hash[o] \in Partitions
      BY TopicOfOutcome, CheckoutAssumption
    <3>2. PICK m \in Events(OutcomeTopic(s), Hash[o]) : log[OutcomeTopic(s)][Hash[o]][m] = o
      BY <2>1 DEF Tracked
    <3>3. m \in Events(OutcomeTopic(s), Hash[o])' /\ log'[OutcomeTopic(s)][Hash[o]][m] = o
      BY <3>1, <3>2, RecordsGrow
    <3> QED
      BY <3>3
  <2> QED
    BY <2>1, RecordsGrow
<1>7. worker'[OrderCreated].pc # "idle" => \A q \in Partitions, n \in 1..MaxEvents :
         consumer'[OrderCreated] = Bus!Busy(q, n) => worker'[OrderCreated].order = log'[OrderCreated][q][n]
  <2> SUFFICES ASSUME worker'[OrderCreated].pc # "idle", NEW q \in Partitions, NEW n \in 1..MaxEvents,
                      consumer'[OrderCreated] = Bus!Busy(q, n)
               PROVE  worker'[OrderCreated].order = log'[OrderCreated][q][n]
    OBVIOUS
  <2>1. CASE \E r \in Partitions : DeliverOrder(r)
    <3>1. PICK r \in Partitions : DeliverOrder(r)
      BY <2>1
    <3>2. /\ worker'[OrderCreated].order = log[OrderCreated][r][position[OrderCreated][r] + 1]
          /\ consumer'[OrderCreated] = Bus!Busy(r, position[OrderCreated][r] + 1)
          /\ UNCHANGED log
      BY <3>1, DeliverOrderStep
    <3>3. q = r /\ n = position[OrderCreated][r] + 1
      BY <3>2 DEF Bus!Busy
    <3> QED
      BY <3>2, <3>3
  <2>2. CASE ~\E r \in Partitions : DeliverOrder(r)
    <3>1. consumer[OrderCreated] = Bus!Busy(q, n)
      BY <1>1, <2>2, ConsumerStays
    <3>2. n \in Events(OrderCreated, q)
      BY <1>1, <3>1, HandlerInLog
    <3>3. worker[OrderCreated].pc # "idle" /\ worker'[OrderCreated].order = worker[OrderCreated].order
      BY <2>2, ExecutionStays
    <3> QED
      BY <1>4, <3>1, <3>2, <3>3 DEF Tracked
  <2> QED
    BY <2>1, <2>2
<1>8. worker'[OrderCreated].pc = "ok" => Answered(worker[OrderCreated].order)'
  <2>1. CASE \E r \in Partitions : DeliverOrder(r)
    BY <2>1, DeliverOrderStep
  <2>2. CASE ~\E r \in Partitions : DeliverOrder(r)
    BY <1>3, <2>2, ExecutionStays DEF Tracked, Answered
  <2> QED
    BY <2>1, <2>2
<1>9. ASSUME NEW q \in Partitions, NEW n \in handled'[OrderCreated][q]
      PROVE  Answered(log[OrderCreated][q][n])'
  <2>1. ASSUME n \in handled[OrderCreated][q]
        PROVE  Answered(log[OrderCreated][q][n])'
    <3>1. n \in Events(OrderCreated, q)
      BY <1>1, <2>1, HandlerInLog
    <3>2. Answered(log[OrderCreated][q][n])
      BY <2>1 DEF Tracked
    <3> QED
      BY <1>2, <1>4, <3>1, <3>2 DEF Answered
  <2>2. CASE ChargeDone \/ ChargeCommitFails
    <3>1. HandlerDone
      BY <1>1, <2>2, DoneStep
    <3>2. PICK r \in Partitions, m \in 1..MaxEvents : consumer[OrderCreated] = Bus!Busy(r, m)
      <4>1. BusP!IsBusy(OrderCreated)
        BY <3>1 DEF HandlerDone, Bus!HandleAndCommit, Bus!HandleCommitFails, Bus!IsBusy, BusP!IsBusy
      <4>2. BusP!Consumer(OrderCreated)
        BY <1>1 DEF BusP!IndInv
      <4> QED
        BY <4>1, <4>2 DEF BusP!Consumer, BusP!IsBusy, BusP!Idle, BusP!Stopped, BusP!InHandler,
                          BusP!Busy, Bus!Busy
    <3>3. consumer[OrderCreated][2] = r /\ consumer[OrderCreated][3] = m
      BY <3>2 DEF Bus!Busy
    <3>4. handled' = [handled EXCEPT ![OrderCreated][r] = handled[OrderCreated][r] \cup {m}]
      BY <3>1, <3>3 DEF HandlerDone, Bus!HandleAndCommit, Bus!HandleCommitFails
    <3>5. handled \in [Topics -> [Partitions -> SUBSET Nat]]
      BY <1>1 DEF BusP!IndInv, BusP!Tables
    <3>6. n \in handled[OrderCreated][q] \/ (q = r /\ n = m)
      BY <1>1, <1>9, <3>4, <3>5
    <3>7. worker[OrderCreated].order = log[OrderCreated][r][m] /\ Answered(worker[OrderCreated].order)
      BY <3>1, <3>2 DEF HandlerDone, Tracked
    <3>8. m \in Events(OrderCreated, r)
      BY <1>1, <3>2, HandlerInLog
    <3>9. Answered(log[OrderCreated][r][m])'
      BY <1>2, <1>4, <3>7, <3>8 DEF Answered
    <3> QED
      BY <2>1, <3>6, <3>9
  <2>3. CASE handled'[OrderCreated] = handled[OrderCreated]
    BY <1>9, <2>1, <2>3
  <2>4. CASE \E r \in Partitions : DeliverOrder(r)
    BY <2>3, <2>4, DeliverOrderStep
  <2> QED
    BY <1>1, <2>2, <2>3, <2>4, ConsumerStays
<1> QED
  BY <1>5, <1>6, <1>7, <1>8, <1>9 DEF Tracked

LEMMA TrackedStart == Init => Tracked
<1> SUFFICES ASSUME Init PROVE Tracked
  OBVIOUS
<1>1. announced = {} /\ worker[OrderCreated].pc = "idle"
  BY DEF Init, Pay!PayInit, Pay!Workers, Pay!Idle
<1>2. \A q \in Partitions : log[OrderCreated][q] = <<>> /\ handled[OrderCreated][q] = {}
  BY DEF Init, Bus!BusInit, Topics
<1>3. \A q \in Partitions : Events(OrderCreated, q) = {}
  BY <1>2 DEF Events
<1> QED
  BY <1>1, <1>2, <1>3 DEF Tracked

(* An announced outcome is in its topic. *)
LEMMA AnnouncedInLog ==
    ASSUME Tracked, NEW o \in OrderIds, NEW s \in {"succeeded", "failed"}, <<o, s>> \in announced
    PROVE  \E m \in Events(OutcomeTopic(s), Hash[o]) : log[OutcomeTopic(s)][Hash[o]][m] = o
BY DEF Tracked

(* An OrderCreated whose offset payment has committed without its handler ever *)
(* failing has its charge recorded and its outcome in the outcome's topic: no  *)
(* crash, rebalance or failed commit loses an order between the two services.  *)
THEOREM SagaCommittedIsAnnounced == Spec => []CommittedIsAnnounced
<1>1. SagaInv /\ Tracked /\ [Next]_vars => Tracked'
  <2> SUFFICES ASSUME SagaInv, Tracked, [Next]_vars PROVE Tracked'
    OBVIOUS
  <2>1. PICK D : Components(D)
    BY DEF SagaInv
  <2> QED
    BY <2>1, TrackedKeeps DEF SagaInv
<1>2. SagaInv /\ Tracked => CommittedIsAnnounced
  <2> SUFFICES ASSUME SagaInv, Tracked, NEW q \in Partitions,
                      NEW n \in 1..committed[OrderCreated][q] \ failed[OrderCreated][q],
                      NEW o, o = log[OrderCreated][q][n]
               PROVE  /\ payments[o].status \in {"succeeded", "failed"}
                      /\ \E m \in DOMAIN log[OutcomeTopic(payments[o].status)][q] :
                            log[OutcomeTopic(payments[o].status)][q][m] = o
    BY DEF CommittedIsAnnounced
  <2>1. PICK D : Components(D)
    BY DEF SagaInv
  <2>2. BusP!IndInv /\ OrderCreated \in Topics
    BY <2>1 DEF Components, Topics
  <2>3. n \in handled[OrderCreated][q]
    BY <2>2 DEF BusP!IndInv, BusP!NoGap, BusP!Tried
  <2>4. n \in Events(OrderCreated, q)
    BY <2>2, <2>3, HandlerInLog
  <2>5. Hash[o] = q /\ Answered(o)
    BY <2>3, <2>4 DEF Tracked
  <2>6. o \in OrderIds
    <3>1. log[OrderCreated][q] \in Seq(OrderIds)
      BY <2>2 DEF BusP!IndInv, BusP!Tables
    <3> QED
      BY <2>4, <3>1 DEF Events
  <2>7. PICK s \in {"succeeded", "failed"} : <<o, s>> \in announced
    BY <2>5 DEF Answered
  <2>8. payments[o].status = s
    BY <2>1, <2>6, <2>7, PaymentsRecorded
  <2>9. PICK m \in Events(OutcomeTopic(s), Hash[o]) : log[OutcomeTopic(s)][Hash[o]][m] = o
    BY <2>6, <2>7, AnnouncedInLog
  <2>10. DOMAIN log[OutcomeTopic(s)][q] = Events(OutcomeTopic(s), q)
    <3>1. log[OutcomeTopic(s)][q] \in Seq(OrderIds)
      BY <2>2, TopicOfOutcome DEF BusP!IndInv, BusP!Tables
    <3> QED
      BY <3>1 DEF Events
  <2> QED
    BY <2>5, <2>8, <2>9, <2>10
<1> QED
  BY <1>1, <1>2, TrackedStart, SagaInvariant, PTL DEF Spec

-----------------------------------------------------------------------------
(* The saga's promise, step by step. *)

LineStates == [o \in OrderIds |-> [p \in Ord!Lines(o) |-> LineState(o, p)]]

Decided == [o \in OrderIds |-> payments[o].status]

(* A step changes the databases of one service at most. *)
LEMMA OneService ==
    ASSUME [Next]_vars
    PROVE  UNCHANGED ordVars \/ UNCHANGED payVars
<1>1. CASE \/ \E o \in OrderIds : \/ CreateOrderStep(o) \/ Submit(o) \/ ClientGone(o)
                                  \/ CreateOrderCallFails(o) \/ SubmitUnanswered(o)
           \/ \E t \in OutcomeTopics : SettleLoop(t) \/ SettleCommitFails(t) \/ SettleCallFails(t)
           \/ OrdersCrash
  BY <1>1 DEF CreateOrderStep, Submit, ClientGone, CreateOrderCallFails, SubmitUnanswered, SettleLoop,
     DeliverOutcome, SettleStep, SettleDone, SettleGivenUp, SettleCommitFails, SettleCallFails, OrdersCrash
<1>2. CASE \/ ChargeLoop
           \/ \E w \in Requests : ChargeRequest(w) \/ ChargeStep(w) \/ ChargeAnswered(w)
           \/ PaymentCrash \/ ChargeCommitFails \/ ChargeCallFails \/ AnnounceUnanswered
           \/ \E t \in Topics : Rebalance(t) \/ ConsumerStops(t)
           \/ UNCHANGED vars
  BY <1>2 DEF ChargeLoop, DeliverOrder, ChargeStep, Announce, ChargeDone, ChargeGivenUp,
     ChargeRequest, ChargeAnswered, PaymentCrash, ChargeCommitFails, ChargeCallFails,
     AnnounceUnanswered, Rebalance, ConsumerStops, vars
<1> QED
  BY <1>1, <1>2 DEF Next

(* A line whose state the step sets, all others kept. *)
LEMMA LineMoves ==
    ASSUME NEW o \in OrderIds, NEW p \in Products, NEW to, OrdP!OnlyLine(o, p), LineState(o, p)' = to
    PROVE  /\ p \in Ord!Lines(o) => LineStates' = [LineStates EXCEPT ![o][p] = to]
           /\ p \notin Ord!Lines(o) \/ LineState(o, p) = to => LineStates' = LineStates
<1>1. \A x \in OrderIds, y \in Products : x # o \/ y # p => LineState(x, y)' = LineState(x, y)
  BY DEF OrdP!OnlyLine, LineState
<1>2. \A x \in OrderIds : Ord!Lines(x) \subseteq Products /\ Ord!Lines(x)' = Ord!Lines(x)
  BY DEF Ord!Lines
<1>3. LineStates' = [x \in OrderIds |-> [y \in Ord!Lines(x) |-> LineState(x, y)']]
  BY <1>2 DEF LineStates
<1>4. p \in Ord!Lines(o) => LineStates' = [LineStates EXCEPT ![o][p] = to]
  BY <1>1, <1>2, <1>3 DEF LineStates
<1>5. p \notin Ord!Lines(o) \/ LineState(o, p) = to => LineStates' = LineStates
  BY <1>1, <1>2, <1>3 DEF LineStates
<1> QED
  BY <1>4, <1>5

(* A move of one line, as the promise has it. *)
LEMMA MovesLine ==
    ASSUME NEW o \in OrderIds, NEW p \in Ord!Lines(o), NEW from, NEW to,
           OrdP!OnlyLine(o, p), LineState(o, p) = from, LineState(o, p)' = to, UNCHANGED payments
    PROVE  Promise!MoveLine(o, p, from, to)
<1>1. p \in Products
  BY DEF Ord!Lines
<1>2. LineStates' = [LineStates EXCEPT ![o][p] = to]
  BY <1>1, LineMoves
<1>3. LineStates[o][p] = from
  BY DEF LineStates
<1>4. UNCHANGED <<orders, submitted, Decided>>
  BY DEF OrdP!OnlyLine, Decided
<1> QED
  BY <1>2, <1>3, <1>4 DEF Promise!MoveLine, LineStates, Decided

(* What the outcome an order may be told says about its charge. *)
LEMMA ToldDecides ==
    ASSUME NEW D, Components(D), NEW o \in OrderIds, NEW s \in D[o]
    PROVE  payments[o].status = s /\ s \in {"succeeded", "failed"} /\ \A r \in D[o] : r = s
BY DEF Components, Told, OrdP!Decisions

(* Steps that leave the tables alone are no steps of the promise. *)
LEMMA PromiseStutters ==
    ASSUME LineStates' = LineStates, UNCHANGED <<orders, submitted, payments>>
    PROVE  UNCHANGED Promise!svars
BY DEF Promise!svars, LineStates

LEMMA TablesStutter ==
    ASSUME UNCHANGED <<reservations, sold>>
    PROVE  LineStates' = LineStates
BY DEF LineStates, LineState, Ord!Lines

(* The effects of orders on a line: a hold, a release, a sale or a return, or  *)
(* the repetition of one that has been.                                        *)
LEMMA LineImplements ==
    ASSUME NEW D, Components(D), UNCHANGED payments, NEW o \in OrderIds, NEW p \in Products,
           \/ OrdP!HoldsLine(o, p) \/ OrdP!LetsGo(o, p)
           \/ OrdP!SellsLine(o, p, D) \/ OrdP!GivesBack(o, p, D)
    PROVE  [Promise!Next]_(Promise!svars)
<1>1. OrdP!OnlyLine(o, p)
  BY DEF OrdP!HoldsLine, OrdP!LetsGo, OrdP!SellsLine, OrdP!GivesBack
<1>2. UNCHANGED <<orders, submitted>>
  BY <1>1 DEF OrdP!OnlyLine
<1>3. /\ reservations[o][p] \in Nat /\ sold[o][p] \in Nat /\ Cart[o][p] \in Nat
      /\ OrdP!OrderKnows(o, D) /\ OrdP!Lines(o) = Ord!Lines(o)
  <2>1. OrdP!Types /\ OrdP!OrderKnows(o, D)
    BY DEF Components, OrdP!OrderInv
  <2>2. reservations[o][p] \in 0..MaxInt /\ sold[o][p] \in Nat /\ Cart[o][p] \in 0..MaxInt /\ MaxInt \in Nat
    BY <2>1, OrdP!Quantities, CheckoutAssumption
  <2> QED
    BY <2>1, <2>2 DEF OrdP!Lines, Ord!Lines
<1>4. ASSUME p \notin Ord!Lines(o) \/ LineState(o, p)' = LineState(o, p)
      PROVE  [Promise!Next]_(Promise!svars)
  BY <1>1, <1>2, <1>4, LineMoves, PromiseStutters
<1>5. CASE OrdP!HoldsLine(o, p)
  <2>1. p \in Ord!Lines(o) /\ orders[o] = "none"
    BY <1>3, <1>5 DEF OrdP!HoldsLine
  <2>2. LineState(o, p) = "free" /\ LineState(o, p)' = "held"
    BY <1>5 DEF OrdP!HoldsLine, LineState
  <2>3. Promise!MoveLine(o, p, "free", "held")
    BY <1>1, <2>1, <2>2, MovesLine
  <2> QED
    BY <2>1, <2>3 DEF Promise!Next, Promise!Hold
<1>6. CASE OrdP!LetsGo(o, p)
  <2>1. o \notin submitted /\ LineState(o, p)' = "free"
    BY <1>6 DEF OrdP!LetsGo, LineState
  <2>2. LineState(o, p) \in {"free", "held"}
    BY <1>6 DEF OrdP!LetsGo, LineState
  <2>3. CASE LineState(o, p) = "held" /\ p \in Ord!Lines(o)
    <3>1. Promise!MoveLine(o, p, "held", "free")
      BY <1>1, <2>1, <2>3, MovesLine
    <3> QED
      BY <2>1, <2>3, <3>1 DEF Promise!Next, Promise!Abandon
  <2> QED
    BY <1>4, <2>1, <2>2, <2>3
<1>7. CASE OrdP!SellsLine(o, p, D)
  <2>1. o \in submitted /\ "succeeded" \in D[o] /\ p \in Ord!Lines(o)
    BY <1>3, <1>7 DEF OrdP!SellsLine
  <2>2. payments[o].status = "succeeded" /\ "failed" \notin D[o]
    BY <2>1, ToldDecides
  <2>3. LineState(o, p)' = "sold"
    BY <1>7 DEF OrdP!SellsLine, LineState
  <2>4. sold[o][p] + reservations[o][p] = Cart[o][p] /\ Cart[o][p] > 0
    BY <1>3, <2>1, <2>2 DEF OrdP!OrderKnows, Ord!Lines
  <2>5. LineState(o, p) \in {"held", "sold"}
    BY <1>3, <2>4 DEF LineState
  <2>6. CASE LineState(o, p) = "held"
    <3>1. Promise!MoveLine(o, p, "held", "sold")
      BY <1>1, <2>1, <2>3, <2>6, MovesLine
    <3> QED
      BY <2>1, <2>2, <3>1 DEF Promise!Next, Promise!Sell
  <2> QED
    BY <1>4, <2>3, <2>5, <2>6
<1>8. CASE OrdP!GivesBack(o, p, D)
  <2>1. o \in submitted /\ "failed" \in D[o] /\ p \in Ord!Lines(o)
    BY <1>3, <1>8 DEF OrdP!GivesBack
  <2>2. payments[o].status = "failed"
    BY <2>1, ToldDecides
  <2>3. LineState(o, p)' = "free" /\ LineState(o, p) \in {"free", "held"}
    BY <1>8 DEF OrdP!GivesBack, LineState
  <2>4. CASE LineState(o, p) = "held"
    <3>1. Promise!MoveLine(o, p, "held", "free")
      BY <1>1, <2>1, <2>3, <2>4, MovesLine
    <3> QED
      BY <2>1, <2>2, <3>1 DEF Promise!Next, Promise!GiveBack
  <2> QED
    BY <1>4, <2>3, <2>4
<1> QED
  BY <1>5, <1>6, <1>7, <1>8

(* The effects on an order's status: recorded, submitted, settled. *)
LEMMA StatusImplements ==
    ASSUME NEW D, Components(D), UNCHANGED payments, NEW o \in OrderIds,
           OrdP!RecordsOrder(o) \/ OrdP!SubmitsOrder(o) \/ OrdP!SettlesOrder(o, D)
    PROVE  [Promise!Next]_(Promise!svars)
<1>1. LineStates' = LineStates /\ UNCHANGED Decided
  BY TablesStutter DEF OrdP!RecordsOrder, OrdP!SubmitsOrder, OrdP!SettlesOrder, OrdP!Untouched, Decided
<1>2. \A p \in Ord!Lines(o) : p \in Products /\ Cart[o][p] > 0 /\ LineStates[o][p] = LineState(o, p)
  BY DEF Ord!Lines, LineStates
<1>3. OrdP!AllHeld(o) => Promise!AllLines(o, "held")
  BY <1>2 DEF OrdP!AllHeld, Promise!AllLines, LineState, LineStates
<1>4. CASE OrdP!RecordsOrder(o)
  <2>1. Promise!Record(o)
    BY <1>1, <1>3, <1>4 DEF OrdP!RecordsOrder, Promise!Record, LineStates, Decided
  <2> QED
    BY <2>1 DEF Promise!Next
<1>5. CASE OrdP!SubmitsOrder(o)
  <2>1. Promise!Submit(o)
    BY <1>1, <1>3, <1>5 DEF OrdP!SubmitsOrder, Promise!Submit, LineStates, Decided
  <2> QED
    BY <2>1 DEF Promise!Next
<1>6. CASE OrdP!SettlesOrder(o, D) /\ "succeeded" \in D[o]
  <2>1. payments[o].status = "succeeded" /\ "failed" \notin D[o]
    BY <1>6, ToldDecides
  <2>2. /\ o \in submitted /\ orders[o] = "pending" /\ UNCHANGED submitted
        /\ \A p \in Products : sold[o][p] = Cart[o][p]
        /\ orders' = [orders EXCEPT ![o] = "confirmed"]
    BY <1>6, <2>1 DEF OrdP!SettlesOrder
  <2>3. Promise!AllLines(o, "sold")
    BY <1>2, <2>2 DEF Promise!AllLines, LineState, LineStates
  <2>4. Promise!Settle(o, "succeeded", "sold", "confirmed")
    BY <1>1, <2>1, <2>2, <2>3 DEF Promise!Settle, LineStates, Decided
  <2> QED
    BY <2>4 DEF Promise!Next
<1>7. CASE OrdP!SettlesOrder(o, D) /\ "failed" \in D[o]
  <2>1. payments[o].status = "failed" /\ "succeeded" \notin D[o]
    BY <1>7, ToldDecides
  <2>2. /\ o \in submitted /\ orders[o] = "pending" /\ UNCHANGED submitted
        /\ \A p \in Products : sold[o][p] = 0 /\ reservations[o][p] = 0
        /\ orders' = [orders EXCEPT ![o] = "cancelled"]
    BY <1>7, <2>1 DEF OrdP!SettlesOrder
  <2>3. Promise!AllLines(o, "free")
    BY <1>2, <2>2 DEF Promise!AllLines, LineState, LineStates
  <2>4. Promise!Settle(o, "failed", "free", "cancelled")
    BY <1>1, <2>1, <2>2, <2>3 DEF Promise!Settle, LineStates, Decided
  <2> QED
    BY <2>4 DEF Promise!Next
<1> QED
  BY <1>4, <1>5, <1>6, <1>7 DEF OrdP!SettlesOrder

(* The insert of a payments row decides its order, once. *)
LEMMA ChargeImplements ==
    ASSUME PayP!IndInv, PayP!Operation, UNCHANGED <<reservations, sold, orders, submitted>>
    PROVE  [Promise!Next]_(Promise!svars)
<1>1. LineStates' = LineStates
  BY TablesStutter
<1>2. CASE UNCHANGED payments
  BY <1>1, <1>2, PromiseStutters
<1>3. CASE \E w \in PayP!Workers : PayP!At(w, "record") /\ payments' = PayP!Recorded(w)
  <2>1. PICK w \in PayP!Workers : PayP!At(w, "record") /\ payments' = PayP!Recorded(w)
    BY <1>3
  <2>2. PICK o : o = worker[w].order
    OBVIOUS
  <2>3. /\ o \in OrderIds /\ worker[w].status \in {"succeeded", "failed"}
        /\ payments \in [OrderIds -> PayP!Rows]
    <3>1. worker[w].pc # "idle" => worker[w].order \in OrderIds
      BY PayP!Executing, CheckoutAssumption
    <3> QED
      BY <2>1, <2>2, <3>1 DEF PayP!At, PayP!IndInv, PayP!Knows, PayP!Statuses
  <2>4. PICK d \in {"succeeded", "failed"} : d = worker[w].status
    BY <2>3
  <2>5. CASE payments[o] = PayP!NoPayment
    <3>1. payments' = [payments EXCEPT ![o] = [status |-> d, amount |-> worker[w].amount]]
      BY <2>1, <2>2, <2>4, <2>5 DEF PayP!Recorded
    <3>2. payments'[o].status = d /\ \A x \in OrderIds : x # o => payments'[x] = payments[x]
      BY <2>3, <3>1
    <3>3. Decided' = [Decided EXCEPT ![o] = d]
      BY <2>3, <3>2 DEF Decided
    <3>4. Decided[o] = "none"
      BY <2>3, <2>5 DEF Decided, PayP!NoPayment
    <3>5. Promise!Decide(o)
      BY <1>1, <3>3, <3>4 DEF Promise!Decide, LineStates, Decided
    <3> QED
      BY <2>3, <3>5 DEF Promise!Next
  <2>6. CASE payments[o] # PayP!NoPayment
    <3>1. UNCHANGED payments
      BY <2>1, <2>2, <2>6 DEF PayP!Recorded
    <3> QED
      BY <1>2, <3>1
  <2> QED
    BY <2>5, <2>6
<1> QED
  BY <1>2, <1>3, PayP!WritesRow, CheckoutAssumption

(* The services together implement the saga's promise: through every crash,    *)
(* redelivery, duplicate, failed and unanswered call, each line of an order    *)
(* goes from free to held to sold, or back to free, each order is decided      *)
(* once, and its status follows its lines and its charge.                      *)
THEOREM CheckoutImplementsSaga == Spec => ImplementsSaga
<1>1. Init => Promise!Init
  <2> SUFFICES ASSUME Init PROVE Promise!Init
    OBVIOUS
  <2>1. \A o \in OrderIds, p \in Products : sold[o][p] = 0 /\ reservations[o][p] = 0
    BY DEF Init, Ord!OrdersInit
  <2>2. LineStates = [o \in OrderIds |-> [p \in Ord!Lines(o) |-> "free"]]
    BY <2>1 DEF LineStates, LineState, Ord!Lines
  <2>3. orders = [o \in OrderIds |-> "none"] /\ submitted = {}
    BY DEF Init, Ord!OrdersInit
  <2>4. Decided = [o \in OrderIds |-> "none"]
    BY DEF Init, Pay!PayInit, Pay!NoPayment, Decided
  <2> QED
    BY <2>2, <2>3, <2>4 DEF Promise!Init, LineStates, Decided
<1>2. SagaInv /\ [Next]_vars => [Promise!Next]_(Promise!svars)
  <2> SUFFICES ASSUME SagaInv, [Next]_vars PROVE [Promise!Next]_(Promise!svars)
    OBVIOUS
  <2>1. Linked
    BY DEF SagaInv
  <2>2. PICK D : Components(D)
    BY DEF SagaInv
  <2>3. OrdP!Operation(D) /\ PayP!Operation
    BY <2>1, <2>2, ComponentsKeep
  <2>4. CASE UNCHANGED ordVars
    BY <2>2, <2>3, <2>4, ChargeImplements DEF Components, ordVars
  <2>5. CASE UNCHANGED payVars
    <3>1. UNCHANGED payments
      BY <2>5 DEF payVars
    <3>2. D \in OrdP!Decisions /\ OrdP!OrderInv(D)
      BY <2>2 DEF Components, Told
    <3>3. OrdP!Effect(D)
      BY <2>3, <3>2, OrdP!OperationEffect, CheckoutAssumption
    <3>4. CASE OrdP!Untouched /\ UNCHANGED <<orders, submitted>>
      BY <3>1, <3>4, TablesStutter, PromiseStutters DEF OrdP!Untouched
    <3> QED
      BY <2>2, <3>1, <3>3, <3>4, LineImplements, StatusImplements DEF OrdP!Effect
  <2> QED
    BY <2>4, <2>5, OneService
<1>3. SagaInv /\ [Next]_vars => [Promise!Step]_(Promise!svars)
  BY <1>2 DEF Promise!Step
<1> QED
  BY <1>1, <1>3, SagaInvariant, PTL DEF Spec, ImplementsSaga, Promise!Spec
=============================================================================
