SPECIFICATION Spec
CONSTANTS
    r1 = r1  r2 = r2  w1 = w1  w2 = w2
    Requests = {r1}
    Workers = {w1}
    MaxRefs = 2
    PollLimit = 2
    FailingCalls <- NoCalls
    MaxFailures = 0
    MayCrash = FALSE
    InitiallyOpen = 1
INVARIANT ChargedOnce
CHECK_DEADLOCK FALSE
