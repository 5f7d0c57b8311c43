SPECIFICATION Spec
CONSTANTS
    r1 = r1  r2 = r2  w1 = w1  w2 = w2
    Requests = {r1, r2}
    Workers = {w1, w2}
    MaxRefs = 2
    PollLimit = 2
    FailingCalls <- PaymentsCalls
    MaxFailures = 1
    MayCrash = TRUE
    InitiallyOpen = 1
SYMMETRY Symmetric
INVARIANTS
    PaymentsTypeOK
    OrderFollowsAttempts
    CapturedWasCharged
    AttemptsMirrorVipps
    PaymentsInv
PROPERTY ImplementsOrderPayment
CHECK_DEADLOCK FALSE
