SPECIFICATION LimiterSpec
CONSTANTS
    Callers = {c1, c2}
    MaxDelay = 1
    MaxTime = 10
    Limit = 2
    Window = 5
SYMMETRY Symmetry
INVARIANTS
    TypeOK
    CeilingWithinDelay
    WaitsAreEnough
    ThrottledToRefill
    NoBoundaryBurst
    RetryIsEnough
