SPECIFICATION FairSpec
CONSTANTS
    k1 = k1
    k2 = k2
    k3 = k3
    Topics = {"payment.failed"}
    Partitions = {1, 2}
    Keys <- MCKeys
    Hash <- MCHash
    FaultKinds = {"commit", "handler", "fetch", "restart", "rebalance"}
    MaxFaults = 2
    MaxEvents = 3
CHECK_DEADLOCK FALSE
INVARIANTS
    OnlyFailedIsSkipped
    TriedInOrder
PROPERTY PublishedIsHandled
