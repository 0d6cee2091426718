---------------------------- MODULE PaymentProofs ----------------------------
(***************************************************************************)
(* Proofs about the payment service, for every set of orders, workers and  *)
(* amounts, every declined amount and every pattern of faults and crashes. *)
(***************************************************************************)
EXTENDS Payment, TLAPS

Pcs == {"idle", "lookup", "charge", "record", "winner", "publish", "ok", "error"}

Rows == {NoPayment} \cup [status : Statuses, amount : Nat]

Executions == [pc : Pcs, order : Orders \cup {"none"}, amount : Nat,
               status : Statuses \cup {"none"}]

(* An execution that has begun works on an order. *)
Busy(w) == worker[w] # Idle => worker[w].pc # "idle" /\ worker[w].order \in Orders

(* What an execution knows at its step: at "record" the processor's answer, at *)
(* "winner" that a row exists, at "publish" what that row says.                *)
Knows(w) ==
    LET row == payments[worker[w].order]
    IN  /\ At(w, "record") => worker[w].status \in Statuses
        /\ At(w, "winner") => row # NoPayment
        /\ At(w, "publish") => row # NoPayment /\ worker[w].status = row.status

(* The inductive invariant.  OutcomesAgree alone is not inductive: it needs to *)
(* be known that a worker about to publish carries the row's own status, and   *)
(* for that, that a worker that lost the race finds the winner's row.          *)
IndInv ==
    /\ payments \in [Orders -> Rows]
    /\ charges \in [Orders -> Nat]
    /\ announced \subseteq Orders \X Statuses
    /\ worker \in [Workers -> Executions]
    /\ faults \in 0..MaxFaults
    /\ \A w \in Workers : Busy(w) /\ Knows(w)
    /\ \A o \in Orders, s \in Statuses : <<o, s>> \in announced => payments[o].status = s

(* The inductive invariant implies the type invariant. *)
LEMMA IndInvTypes == IndInv => TypeOK
<1> SUFFICES ASSUME IndInv PROVE TypeOK
  OBVIOUS
<1>1. ASSUME NEW w \in Workers, worker[w] # Idle
      PROVE  /\ worker[w].pc \in {"lookup", "charge", "record", "winner", "publish", "ok", "error"}
             /\ worker[w].order \in Orders
             /\ worker[w].amount \in Nat
             /\ worker[w].status \in Statuses \cup {"none"}
  BY <1>1 DEF IndInv, Busy, Executions, Pcs
<1> QED
  BY <1>1 DEF IndInv, TypeOK, Rows

(* It implies that every event repeats the recorded outcome. *)
LEMMA IndInvAgrees == IndInv => OutcomesAgree
BY DEF IndInv, OutcomesAgree

(* The service starts with no row, no event and idle workers. *)
LEMMA PaymentInit == Init => IndInv
BY PaymentAssumption
   DEF Init, PayInit, IndInv, Rows, Executions, Pcs, Idle, Busy, Knows, At, Statuses

(* No step that leaves the recorded rows alone can mislead an execution that *)
(* does not move: what it knows stays true.                                  *)
LEMMA OthersKnow ==
    ASSUME IndInv, NEW v \in Workers, worker'[v] = worker[v],
           \A o \in Orders : payments[o] # NoPayment => payments'[o] = payments[o]
    PROVE  Busy(v)' /\ Knows(v)'
<1>1. Busy(v)'
  BY DEF IndInv, Busy
<1>2. worker[v].pc # "idle" => worker[v].order \in Orders
  BY DEF IndInv, Busy, Idle
<1>3. Knows(v)'
  BY <1>2 DEF IndInv, Knows, At
<1> QED
  BY <1>1, <1>3

(* A step of one execution that leaves rows and events alone keeps the        *)
(* invariant if its own new state is well-formed and true.                    *)
LEMMA OwnStepKeeps ==
    ASSUME IndInv, NEW w \in Workers, NEW e \in Executions,
           worker' = [worker EXCEPT ![w] = e],
           payments' \in [Orders -> Rows], charges' \in [Orders -> Nat],
           \A o \in Orders : payments[o] # NoPayment => payments'[o] = payments[o],
           UNCHANGED announced, faults' \in 0..MaxFaults,
           Busy(w)', Knows(w)'
    PROVE  IndInv'
<1>1. worker' \in [Workers -> Executions]
  BY DEF IndInv
<1>2. \A v \in Workers : Busy(v)' /\ Knows(v)'
  <2>1. TAKE v \in Workers
  <2>2. CASE v = w
    BY <2>2
  <2>3. CASE v # w
    <3>1. worker'[v] = worker[v]
      BY <2>3 DEF IndInv
    <3> QED
      BY <3>1, OthersKnow
  <2> QED
    BY <2>2, <2>3
<1>3. \A o \in Orders, s \in Statuses : <<o, s>> \in announced' => payments'[o].status = s
  <2>1. NoPayment.status \notin Statuses
    BY DEF NoPayment, Statuses
  <2> SUFFICES ASSUME NEW o \in Orders, NEW s \in Statuses, <<o, s>> \in announced
               PROVE  payments'[o].status = s
    OBVIOUS
  <2>2. payments[o].status = s
    BY DEF IndInv
  <2>3. payments[o] # NoPayment
    BY <2>1, <2>2
  <2> QED
    BY <2>2, <2>3
<1> QED
  BY <1>1, <1>2, <1>3 DEF IndInv

(* The facts every action starts from: the execution's record and its order. *)
LEMMA Executing ==
    ASSUME IndInv, NEW w \in Workers
    PROVE  /\ worker[w] \in Executions
           /\ worker[w].pc # "idle" => worker[w].order \in Orders
           /\ NoPayment.status \notin Statuses
           /\ \A o \in Orders : payments[o] # NoPayment => payments[o].status \in Statuses
BY DEF IndInv, Busy, Idle, Rows, NoPayment, Statuses

(* Moving an execution to another step, its locals kept. *)
LEMMA GotoKeeps ==
    ASSUME IndInv, NEW w \in Workers, NEW pc \in Pcs \ {"idle", "publish", "record"},
           worker[w].pc # "idle", Goto(w, pc),
           pc = "winner" => payments[worker[w].order] # NoPayment,
           UNCHANGED <<payments, charges, announced>>, faults' \in 0..MaxFaults
    PROVE  IndInv'
<1> DEFINE e == [worker[w] EXCEPT !.pc = pc]
<1>1. worker[w] \in Executions /\ worker[w].order \in Orders
  BY Executing
<1>2. e \in Executions /\ e.pc = pc /\ e.order = worker[w].order /\ e # Idle
  BY <1>1 DEF Executions, Idle
<1>3. worker' = [worker EXCEPT ![w] = e] /\ worker'[w] = e
  BY <1>1 DEF Goto, IndInv
<1> HIDE DEF e
<1>4. Busy(w)' /\ Knows(w)'
  BY <1>1, <1>2, <1>3 DEF Busy, Knows, At
<1> QED
  BY <1>2, <1>3, <1>4, OwnStepKeeps DEF IndInv

(* An execution settles on the status of the order's row. *)
LEMMA SettledKeeps ==
    ASSUME IndInv, NEW w \in Workers, NEW s \in Statuses,
           worker[w].pc # "idle", Settled(w, s),
           payments' \in [Orders -> Rows],
           \A o \in Orders : payments[o] # NoPayment => payments'[o] = payments[o],
           payments'[worker[w].order] # NoPayment,
           payments'[worker[w].order].status = s,
           UNCHANGED <<charges, announced>>, faults' \in 0..MaxFaults
    PROVE  IndInv'
<1> DEFINE pc == IF w \in Deliveries THEN "publish" ELSE "ok"
           e == [worker[w] EXCEPT !.status = s, !.pc = pc]
<1>1. worker[w] \in Executions /\ worker[w].order \in Orders
  BY Executing
<1>2. pc \in {"publish", "ok"}
  OBVIOUS
<1>3. worker' = [worker EXCEPT ![w] = e] /\ worker'[w] = e
  BY <1>1 DEF Settled, IndInv
<1> HIDE DEF pc
<1>4. e \in Executions /\ e.pc = pc /\ e.order = worker[w].order /\ e.status = s /\ e # Idle
  BY <1>1, <1>2 DEF Executions, Idle, Pcs
<1> HIDE DEF e
<1>5. Busy(w)' /\ Knows(w)'
  BY <1>1, <1>2, <1>3, <1>4 DEF Busy, Knows, At
<1> QED
  BY <1>3, <1>4, <1>5, OwnStepKeeps DEF IndInv

(* Beginning an execution. *)
LEMMA BeginKeeps ==
    ASSUME IndInv, NEW w \in Workers, NEW o \in Orders,
           NEW a \in IF w \in Deliveries THEN {Total[o]} ELSE Amounts,
           Begin(w, o, a), faults' \in 0..MaxFaults
    PROVE  IndInv'
<1> DEFINE e == [Idle EXCEPT !.pc = "lookup", !.order = o, !.amount = a]
<1>1. a \in Nat
  BY PaymentAssumption
<1>2. e \in Executions /\ e.pc = "lookup" /\ e.order = o /\ e # Idle
  BY <1>1 DEF Idle, Executions, Pcs
<1>3. worker' = [worker EXCEPT ![w] = e] /\ worker'[w] = e
  BY DEF Begin, IndInv
<1> HIDE DEF e
<1>4. Busy(w)' /\ Knows(w)'
  BY <1>2, <1>3 DEF Busy, Knows, At
<1>5. UNCHANGED <<payments, charges, announced>>
  BY DEF Begin
<1> QED
  BY <1>2, <1>3, <1>4, <1>5, OwnStepKeeps DEF IndInv

(* The lookup: an order with a row settles on it, one without goes on to charge. *)
LEMMA LookupKeeps ==
    ASSUME IndInv, NEW w \in Workers, Lookup(w), faults' \in 0..MaxFaults
    PROVE  IndInv'
<1> DEFINE row == payments[worker[w].order]
<1>1. worker[w].pc # "idle" /\ worker[w].order \in Orders
  BY Executing DEF Lookup, At
<1>2. UNCHANGED <<payments, charges, announced>> /\ faults' \in 0..MaxFaults
  BY DEF Lookup, IndInv
<1>3. CASE row = NoPayment
  BY <1>1, <1>2, <1>3, GotoKeeps DEF Lookup, Pcs
<1>4. CASE row # NoPayment
  <2>1. row.status \in Statuses /\ payments \in [Orders -> Rows]
    BY <1>1, <1>4, Executing DEF IndInv
  <2>2. Settled(w, row.status)
    BY <1>4 DEF Lookup
  <2> QED
    BY <1>1, <1>2, <1>4, <2>1, <2>2, SettledKeeps
<1> QED
  BY <1>3, <1>4

(* The charge: the execution now holds the processor's answer. *)
LEMMA ChargeKeeps ==
    ASSUME IndInv, NEW w \in Workers, Charge(w), faults' \in 0..MaxFaults
    PROVE  IndInv'
<1> DEFINE s == GatewayCharge(worker[w].amount)
           e == [worker[w] EXCEPT !.status = s, !.pc = "record"]
<1>1. worker[w] \in Executions /\ worker[w].order \in Orders
  BY Executing DEF Charge, At
<1>2. s \in Statuses
  BY DEF GatewayCharge, Statuses
<1>3. worker' = [worker EXCEPT ![w] = e] /\ worker'[w] = e
  BY <1>1 DEF Charge, IndInv
<1> HIDE DEF s
<1>4. e \in Executions /\ e.pc = "record" /\ e.order = worker[w].order /\ e.status = s /\ e # Idle
  BY <1>1, <1>2 DEF Executions, Idle, Pcs
<1> HIDE DEF e
<1>5. Busy(w)' /\ Knows(w)'
  BY <1>1, <1>2, <1>3, <1>4 DEF Busy, Knows, At
<1>6. charges' \in [Orders -> Nat] /\ UNCHANGED <<payments, announced>>
  BY <1>1 DEF Charge, IndInv
<1> QED
  BY <1>3, <1>4, <1>5, <1>6, OwnStepKeeps DEF IndInv

(* What the insert leaves: every earlier row, and a row for the order; its own *)
(* status if there was none before.                                            *)
LEMMA InsertKeepsRows ==
    ASSUME IndInv, NEW w \in Workers, At(w, "record"), payments' = Recorded(w)
    PROVE  /\ payments' \in [Orders -> Rows]
           /\ \A o \in Orders : payments[o] # NoPayment => payments'[o] = payments[o]
           /\ payments'[worker[w].order] # NoPayment
           /\ payments[worker[w].order] = NoPayment =>
                 payments'[worker[w].order].status = worker[w].status
<1> DEFINE o == worker[w].order
           new == [status |-> worker[w].status, amount |-> worker[w].amount]
<1>1. /\ o \in Orders /\ worker[w].status \in Statuses /\ worker[w].amount \in Nat
      /\ NoPayment.status \notin Statuses
  BY Executing DEF IndInv, Knows, At, Executions
<1>2. new \in Rows /\ new # NoPayment /\ new.status = worker[w].status
  BY <1>1 DEF Rows
<1>3. payments' = IF payments[o] = NoPayment THEN [payments EXCEPT ![o] = new] ELSE payments
  BY DEF Recorded
<1> HIDE DEF o, new
<1> QED
  BY <1>1, <1>2, <1>3 DEF IndInv, o

(* The insert, answered: the winner settles on its own row, the loser goes to *)
(* load the winner's.                                                         *)
LEMMA RecordKeeps ==
    ASSUME IndInv, NEW w \in Workers, Record(w), faults' \in 0..MaxFaults
    PROVE  IndInv'
<1> DEFINE o == worker[w].order
<1>1. worker[w].pc # "idle" /\ o \in Orders /\ worker[w].status \in Statuses
  BY Executing DEF Record, At, IndInv, Knows
<1>2. At(w, "record") /\ payments' = Recorded(w) /\ UNCHANGED <<charges, announced>>
      /\ faults' \in 0..MaxFaults
  BY DEF Record, IndInv
<1>3. CASE payments[o] = NoPayment
  BY <1>1, <1>2, <1>3, InsertKeepsRows, SettledKeeps DEF Record
<1>4. CASE payments[o] # NoPayment
  <2>1. UNCHANGED payments /\ Goto(w, "winner")
    BY <1>2, <1>4 DEF Record, Recorded
  <2> QED
    BY <1>1, <1>2, <1>4, <2>1, GotoKeeps DEF Pcs
<1> QED
  BY <1>3, <1>4

(* The loser of the race settles on the winner's row. *)
LEMMA LoadWinnerKeeps ==
    ASSUME IndInv, NEW w \in Workers, LoadWinner(w), faults' \in 0..MaxFaults
    PROVE  IndInv'
<1> DEFINE row == payments[worker[w].order]
<1>1. worker[w].pc # "idle" /\ worker[w].order \in Orders /\ row # NoPayment
  BY Executing DEF LoadWinner, At, IndInv, Knows
<1>2. row.status \in Statuses /\ Settled(w, row.status)
  BY <1>1, Executing DEF LoadWinner
<1> QED
  BY <1>1, <1>2, SettledKeeps DEF LoadWinner, IndInv

(* Publishing adds the row's own outcome to the events. *)
LEMMA PublishKeeps ==
    ASSUME IndInv, NEW w \in Workers, NEW pc \in {"ok", "error"}, At(w, "publish"),
           announced' = announced \cup {<<worker[w].order, worker[w].status>>},
           Goto(w, pc), UNCHANGED <<payments, charges>>, faults' \in 0..MaxFaults
    PROVE  IndInv'
<1> DEFINE o == worker[w].order
           s == worker[w].status
           e == [worker[w] EXCEPT !.pc = pc]
<1>1. /\ worker[w] \in Executions /\ o \in Orders /\ s \in Statuses
      /\ payments[o].status = s
  BY Executing DEF At, IndInv, Knows
<1>2. e \in Executions /\ e.pc = pc /\ e.order = o /\ e # Idle
  BY <1>1 DEF Executions, Idle, Pcs
<1>3. worker' = [worker EXCEPT ![w] = e] /\ worker'[w] = e
  BY <1>1 DEF Goto, IndInv
<1> HIDE DEF e
<1>4. worker' \in [Workers -> Executions]
  BY <1>2, <1>3 DEF IndInv
<1>5. \A v \in Workers : Busy(v)' /\ Knows(v)'
  <2>1. TAKE v \in Workers
  <2>2. CASE v = w
    BY <1>1, <1>2, <1>3, <2>2 DEF Busy, Knows, At
  <2>3. CASE v # w
    <3>1. worker'[v] = worker[v]
      BY <1>3, <2>3 DEF IndInv
    <3> QED
      BY <3>1, OthersKnow
  <2> QED
    BY <2>2, <2>3
<1>6. \A x \in Orders, t \in Statuses : <<x, t>> \in announced' => payments'[x].status = t
  BY <1>1 DEF IndInv
<1>7. announced' \subseteq Orders \X Statuses
  BY <1>1 DEF IndInv
<1> QED
  BY <1>4, <1>5, <1>6, <1>7 DEF IndInv

(* Executions that end, or all of them ending in a crash, know nothing. *)
LEMMA IdleKeeps ==
    ASSUME IndInv, worker' \in [Workers -> Executions],
           \A v \in Workers : worker'[v] = worker[v] \/ worker'[v] = Idle,
           UNCHANGED <<payments, charges, announced>>, faults' \in 0..MaxFaults
    PROVE  IndInv'
<1>1. \A v \in Workers : Busy(v)' /\ Knows(v)'
  <2>1. TAKE v \in Workers
  <2>2. CASE worker'[v] = worker[v]
    BY <2>2, OthersKnow
  <2>3. CASE worker'[v] = Idle
    BY <2>3 DEF Busy, Knows, At, Idle
  <2> QED
    BY <2>2, <2>3
<1> QED
  BY <1>1 DEF IndInv

(* Every operation of the service keeps the inductive invariant, and none      *)
(* revises a recorded row.                                                     *)
Operation ==
    \/ \E w \in Workers, o \in Orders :
          \E a \in IF w \in Deliveries THEN {Total[o]} ELSE Amounts : Begin(w, o, a)
    \/ \E w \in Workers : \/ Step(w) \/ PublishOutcome(w) \/ Return(w) \/ CallFails(w)
                           \/ RecordUnanswered(w) \/ PublishUnanswered(w)
    \/ Crash
    \/ UNCHANGED payVars

LEMMA OperationKeeps ==
    ASSUME IndInv, Operation, faults' \in 0..MaxFaults
    PROVE  IndInv'
<1>1. Idle \in Executions
  BY DEF Idle, Executions, Pcs
<1>2. ASSUME NEW w \in Workers, NEW o \in Orders,
             NEW a \in IF w \in Deliveries THEN {Total[o]} ELSE Amounts, Begin(w, o, a)
      PROVE  IndInv'
  BY <1>2, BeginKeeps
<1>3. ASSUME NEW w \in Workers, Step(w) PROVE IndInv'
  BY <1>3, LookupKeeps, ChargeKeeps, RecordKeeps, LoadWinnerKeeps DEF Step
<1>4. ASSUME NEW w \in Workers, PublishOutcome(w) \/ PublishUnanswered(w) PROVE IndInv'
  BY <1>4, PublishKeeps DEF PublishOutcome, PublishUnanswered
<1>5. ASSUME NEW w \in Workers, Return(w) PROVE IndInv'
  BY <1>1, <1>5, IdleKeeps DEF Return, IndInv
<1>6. ASSUME NEW w \in Workers, CallFails(w) PROVE IndInv'
  BY <1>6, GotoKeeps DEF CallFails, Pcs
<1>7. ASSUME NEW w \in Workers, RecordUnanswered(w) PROVE IndInv'
  <2> DEFINE e == [worker[w] EXCEPT !.pc = "error"]
  <2>1. worker[w] \in Executions /\ worker[w].order \in Orders
    BY <1>7, Executing DEF RecordUnanswered, At
  <2>2. e \in Executions /\ e.pc = "error" /\ e.order = worker[w].order /\ e # Idle
    BY <2>1 DEF Executions, Idle, Pcs
  <2>3. worker' = [worker EXCEPT ![w] = e] /\ worker'[w] = e
    BY <1>7, <2>1 DEF RecordUnanswered, Goto, IndInv
  <2> HIDE DEF e
  <2>4. Busy(w)' /\ Knows(w)'
    BY <2>1, <2>2, <2>3 DEF Busy, Knows, At
  <2> QED
    BY <1>7, <2>2, <2>3, <2>4, InsertKeepsRows, OwnStepKeeps DEF RecordUnanswered, IndInv
<1>8. CASE Crash
  BY <1>1, <1>8, IdleKeeps DEF Crash
<1>9. CASE UNCHANGED payVars
  BY <1>9, IdleKeeps DEF payVars, IndInv
<1> QED
  BY <1>2, <1>3, <1>4, <1>5, <1>6, <1>7, <1>8, <1>9 DEF Operation

(* An execution stays with its order until it ends, and a consumer's execution *)
(* comes to its good end by no step but the publish.                           *)
LEMMA ExecutionGoesOn ==
    ASSUME IndInv, NEW v \in Deliveries, NEW w \in Workers,
           \/ Step(w) \/ PublishUnanswered(w) \/ Return(w) \/ CallFails(w) \/ RecordUnanswered(w)
           \/ w # v /\ \E o, a : Begin(w, o, a)
           \/ Crash
           \/ UNCHANGED payVars
    PROVE  \/ worker'[v] = worker[v]
           \/ worker'[v] = Idle
           \/ /\ worker[v].pc # "idle" /\ worker'[v].pc \notin {"idle", "ok"}
              /\ worker'[v].order = worker[v].order
<1>1. v \in Workers /\ worker \in [Workers -> Executions]
  BY DEF Workers, IndInv
<1>2. CASE Crash
  BY <1>1, <1>2 DEF Crash
<1>3. CASE UNCHANGED payVars
  BY <1>3 DEF payVars
<1>4. CASE w # v /\ ~Crash /\ ~UNCHANGED payVars
  <2>1. \E e : worker' = [worker EXCEPT ![w] = e]
    BY <1>4 DEF Step, Lookup, Charge, Record, LoadWinner, PublishUnanswered, Return,
       CallFails, RecordUnanswered, Begin, Goto, Settled
  <2> QED
    BY <1>1, <1>4, <2>1
<1>5. CASE Return(v)
  BY <1>1, <1>5 DEF Return
<1>6. ASSUME NEW pc \in {"charge", "winner", "error"}, Goto(v, pc)
      PROVE  worker'[v].pc = pc /\ worker'[v].order = worker[v].order
  BY <1>1, <1>6 DEF Goto, Executions
<1>7. ASSUME NEW s, Settled(v, s)
      PROVE  worker'[v].pc = "publish" /\ worker'[v].order = worker[v].order
  BY <1>1, <1>7 DEF Settled, Executions
<1>8. CASE Charge(v)
  <2>1. worker' = [worker EXCEPT ![v].status = GatewayCharge(worker[v].amount), ![v].pc = "record"]
    BY <1>8 DEF Charge
  <2>2. worker'[v].pc = "record" /\ worker'[v].order = worker[v].order
    BY <1>1, <2>1 DEF Executions
  <2> QED
    BY <1>8, <2>2 DEF Charge, At
<1>9. CASE Lookup(v) \/ Record(v) \/ LoadWinner(v)
  <2>1. worker[v].pc # "idle" /\ (Goto(v, "charge") \/ Goto(v, "winner") \/ \E s : Settled(v, s))
    BY <1>9 DEF Lookup, Record, LoadWinner, At
  <2> QED
    BY <1>6, <1>7, <2>1
<1>10. CASE CallFails(v) \/ RecordUnanswered(v) \/ PublishUnanswered(v)
  BY <1>6, <1>10 DEF CallFails, RecordUnanswered, PublishUnanswered, At
<1> QED
  BY <1>2, <1>3, <1>4, <1>5, <1>8, <1>9, <1>10 DEF Step

(* The publish ends it, and the event is the order's. *)
LEMMA ExecutionPublishes ==
    ASSUME IndInv, NEW w \in Workers, PublishOutcome(w) \/ PublishUnanswered(w)
    PROVE  /\ worker[w].pc = "publish" /\ worker[w].order \in Orders /\ worker[w].status \in Statuses
           /\ worker'[w].pc \in {"ok", "error"} /\ worker'[w].order = worker[w].order
           /\ announced' = announced \cup {<<worker[w].order, worker[w].status>>}
<1>1. worker \in [Workers -> Executions] /\ worker[w].pc = "publish"
  BY DEF IndInv, PublishOutcome, PublishUnanswered, At
<1>2. worker[w].order \in Orders /\ worker[w].status \in Statuses
  BY <1>1, Executing DEF IndInv, Knows, At
<1>3. ASSUME NEW pc \in {"ok", "error"}, Goto(w, pc)
      PROVE  worker'[w].pc = pc /\ worker'[w].order = worker[w].order
  BY <1>1, <1>3 DEF Goto, Executions
<1> QED
  BY <1>1, <1>2, <1>3 DEF PublishOutcome, PublishUnanswered

(* Only the insert writes the payments table. *)
LEMMA WritesRow ==
    ASSUME Operation
    PROVE  \/ UNCHANGED payments
           \/ \E w \in Workers : At(w, "record") /\ payments' = Recorded(w)
BY DEF Operation, payVars, Begin, Step, Lookup, Charge, Record, LoadWinner, PublishOutcome,
       Return, CallFails, RecordUnanswered, PublishUnanswered, Crash

LEMMA OperationIsFinal ==
    ASSUME IndInv, Operation
    PROVE  \A o \in Orders : payments[o] # NoPayment => payments'[o] = payments[o]
BY WritesRow, InsertKeepsRows

LEMMA NextIsOperation == [Next]_vars => Operation
BY DEF Next, vars, Operation

LEMMA PaymentStep == IndInv /\ [Next]_vars => IndInv'
<1> SUFFICES ASSUME IndInv, [Next]_vars PROVE IndInv'
  OBVIOUS
<1>1. faults' \in 0..MaxFaults
  BY PaymentAssumption DEF Next, vars, Fault, IndInv
<1> QED
  BY <1>1, NextIsOperation, OperationKeeps

(* The inductive invariant holds in every reachable state. *)
LEMMA PaymentIndInv == Spec => []IndInv
BY PaymentInit, PaymentStep, PTL DEF Spec

(* Only the outcomes the code knows are stored or published, for orders that  *)
(* exist, whatever executions overlap, fail or crash.                         *)
THEOREM PaymentTypeCorrect == Spec => []TypeOK
BY PaymentIndInv, IndInvTypes, PTL

(* Every payment.succeeded or payment.failed event repeats the one recorded   *)
(* charge attempt of its order: a redelivered or concurrent charge, a lost    *)
(* answer or a crash never makes the service announce both outcomes.          *)
THEOREM PaymentOutcomesAgree == Spec => []OutcomesAgree
BY PaymentIndInv, IndInvAgrees, PTL

(* A recorded charge attempt is never revised: only the insert writes the     *)
(* table, and the unique index on order_id makes it keep the first row.       *)
THEOREM PaymentRecordsAreFinal == Spec => PaymentIsFinal
<1> DEFINE Final == \A o \in Orders : payments[o] # NoPayment => payments'[o] = payments[o]
<1>1. IndInv /\ [Next]_vars => [Final]_vars
  BY NextIsOperation, OperationIsFinal
<1> QED
  BY <1>1, PaymentIndInv, PTL DEF Spec, PaymentIsFinal
=============================================================================
