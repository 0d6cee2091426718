SPECIFICATION FairSpec
CONSTANTS
    o1 = o1
    o2 = o2
    p1 = p1
    p2 = p2
    r1 = r1
    OrderIds <- MCOrderIds
    Products <- MCProducts
    Cart <- MCCart
    Listed <- MCListed
    Total <- MCTotal
    Partitions <- MCPartitions
    Hash <- MCHash
    FailAmountCents = 13
    Requests = {r1}
    Amounts = {10}
    MaxInt = 2
    MaxSupply = 2
    MaxEvents = 4
    FaultKinds = {"crash", "commit", "rebalance", "fetch", "call", "request", "charge"}
    MaxFaults = 2
CHECK_DEADLOCK FALSE
INVARIANTS
    OutcomeIsConsistent
    PaidIsBacked
    CommittedIsAnnounced
PROPERTIES ImplementsSaga SubmittedIsSettled
