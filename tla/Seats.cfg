SPECIFICATION Spec
CONSTANTS
    u1 = u1  u2 = u2  u3 = u3  u4 = u4
    s1 = s1  s2 = s2  s3 = s3
    r1 = r1  r2 = r2  r3 = r3
    w1 = w1  w2 = w2
    Users = {u1, u2, u3}
    Slots = {s1, s2}
    Requests = {r1, r2, r3}
    Workers = {w1}
    Years <- TwoYears
    GradeYear <- GradeYearsMixed
    EventType = "TICKETS"
    Retractable = TRUE
    MaxAttempts = 3
    InitialEvent <- SeatsEvent
    InitialSlots <- SeatsSlots
    InitialSignUps <- SeatsSignUps
    MaySignUp <- SeatsSignUpCalls
    MayRetract <- SeatsRetractCalls
    MayRemove <- SeatsRemoveCalls
    MayUpdate <- Nobody
    MaxNow = 1
    MayCrash = TRUE
    Undefined = Undefined
    NoSlot = NoSlot
INVARIANTS
    TypeOK
    EventSeatsAccounted
    WaitListHasNoOrder
    SeatsInv
PROPERTIES
    ConfirmedInEligibleSlot
    MailedOnce
    ImplementsSeatAllocation
CHECK_DEADLOCK FALSE
