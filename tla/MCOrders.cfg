SPECIFICATION Spec
CONSTANTS
    o1 = o1
    o2 = o2
    o3 = o3
    p1 = p1
    p2 = p2
    p3 = p3
    OrderIds <- MCOrderIds
    Products <- MCProducts
    Cart <- MCCart
    Listed <- MCListed
    Settlers = {"s1", "s2"}
    Outcomes <- MCOutcomes
    FaultKinds = {"lost_request", "lost_reply", "client_gone", "crash"}
    MaxFaults = 2
    MaxInt = 2
    MaxSupply = 2
CHECK_DEADLOCK FALSE
INVARIANTS
    TypeOK
    ConfirmedIsSold
    CancelledIsReleased
    SubmittedIsHeld
    EachFaultStrandsOneLine
