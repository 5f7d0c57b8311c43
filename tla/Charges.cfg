SPECIFICATION FairSpec
CONSTANTS
    r1 = r1  r2 = r2  w1 = w1  w2 = w2
    Requests = {}
    Workers = {w1}
    MaxRefs = 2
    PollLimit = 3
    FailingCalls <- ChargesCalls
    MaxFailures = 2
    MayCrash = FALSE
    InitiallyOpen = 2
INVARIANTS
    ChargedOnce
    ReservedIsBeingCaptured
PROPERTIES
    AuthorizedIsCaptured
    PaymentQueueDrains
CHECK_DEADLOCK FALSE
