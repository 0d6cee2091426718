SPECIFICATION Spec
CONSTANTS
    Limit = 3
    Window = 4
    Millisecond = 2
    Grain = 3
    Start = 3
    MaxTime = 9
    MaxSteps = 1
    Margin = 1
    MaxEarly = 2
CHECK_DEADLOCK FALSE
INVARIANTS
    ThrottledToRefill
    CeilingIsExact
    WaitsAreEnough
    NoBoundaryBurst
    RetryIsEnough
