SPECIFICATION Spec
CONSTANTS
    o1 = o1
    o2 = o2
    d1 = d1
    d2 = d2
    r1 = r1
    Orders <- MCOrders
    Deliveries <- MCDeliveries
    Requests = {r1}
    Total <- MCTotal
    Amounts = {10, 13}
    FailAmountCents = 13
    FaultKinds = {"lost_request", "lost_reply", "crash"}
    MaxFaults = 2
SYMMETRY Symmetry
INVARIANTS
    TypeOK
    OutcomesAgree
PROPERTY PaymentIsFinal
