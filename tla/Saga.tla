-------------------------------- MODULE Saga --------------------------------
(***************************************************************************)
(* What the checkout saga promises, without services, calls or messages:   *)
(* each line of an order is free, held or sold, each order is decided once *)
(* by its charge, and the order's status follows the two.  A line that was *)
(* sold is never held or given back, stock is sold only for a submitted    *)
(* order whose charge succeeded and returned only when it failed, and an   *)
(* order reaches its terminal status after its last line did.              *)
(***************************************************************************)
CONSTANTS
    OrderIds,
    Lines(_)     \* the products of an order

VARIABLES
    line,        \* "free", "held" or "sold", by order and product
    status,      \* "none", "pending", "confirmed" or "cancelled"
    submitted,   \* orders handed over for payment
    decision     \* "none", or how the order's charge went

svars == <<line, status, submitted, decision>>

AllLines(o, state) == \A p \in Lines(o) : line[o][p] = state

Init ==
    /\ line = [o \in OrderIds |-> [p \in Lines(o) |-> "free"]]
    /\ status = [o \in OrderIds |-> "none"]
    /\ submitted = {}
    /\ decision = [o \in OrderIds |-> "none"]

MoveLine(o, p, from, to) ==
    /\ line[o][p] = from
    /\ line' = [line EXCEPT ![o][p] = to]
    /\ UNCHANGED <<status, submitted, decision>>

Hold(o, p) == status[o] = "none" /\ MoveLine(o, p, "free", "held")

\* A request that fails lets go of its stock, unless it has been submitted.
Abandon(o, p) == o \notin submitted /\ MoveLine(o, p, "held", "free")

Sell(o, p) == o \in submitted /\ decision[o] = "succeeded" /\ MoveLine(o, p, "held", "sold")

GiveBack(o, p) == o \in submitted /\ decision[o] = "failed" /\ MoveLine(o, p, "held", "free")

Record(o) ==
    /\ status[o] = "none"
    /\ AllLines(o, "held")
    /\ status' = [status EXCEPT ![o] = "pending"]
    /\ UNCHANGED <<line, submitted, decision>>

Submit(o) ==
    /\ o \notin submitted
    /\ status[o] = "pending"
    /\ AllLines(o, "held")
    /\ submitted' = submitted \cup {o}
    /\ UNCHANGED <<line, status, decision>>

Decide(o) ==
    /\ decision[o] = "none"
    /\ \E d \in {"succeeded", "failed"} : decision' = [decision EXCEPT ![o] = d]
    /\ UNCHANGED <<line, status, submitted>>

Settle(o, outcome, state, final) ==
    /\ o \in submitted
    /\ status[o] = "pending"
    /\ decision[o] = outcome
    /\ AllLines(o, state)
    /\ status' = [status EXCEPT ![o] = final]
    /\ UNCHANGED <<line, submitted, decision>>

Next ==
    \E o \in OrderIds :
        \/ \E p \in Lines(o) : Hold(o, p) \/ Abandon(o, p) \/ Sell(o, p) \/ GiveBack(o, p)
        \/ Record(o)
        \/ Submit(o)
        \/ Decide(o)
        \/ Settle(o, "succeeded", "sold", "confirmed")
        \/ Settle(o, "failed", "free", "cancelled")

\* Nothing is a step of the saga that leaves it as it was.
Step == svars' # svars /\ Next

Spec == Init /\ [][Step]_svars
=============================================================================
