SPECIFICATION Spec
CONSTANTS
    u1 = u1  u2 = u2  u3 = u3  u4 = u4
    s1 = s1  s2 = s2  s3 = s3
    r1 = r1  r2 = r2  r3 = r3
    w1 = w1  w2 = w2
    Users = {u1, u2}
    Slots = {s1}
    Requests = {r1, r2}
    Workers = {w1}
    Years <- TwoYears
    GradeYear <- AllFirstYear
    EventType = "TICKETS"
    Retractable = TRUE
    MaxAttempts = 20
    InitialEvent <- RoomyEvent
    InitialSlots <- RoomySlots
    InitialSignUps <- NobodySignedUp
    MaySignUp <- RoomySignUpCalls
    MayRetract <- Nobody
    MayRemove <- Nobody
    MayUpdate <- Nobody
    MaxNow = 0
    MayCrash = FALSE
    Undefined = Undefined
    NoSlot = NoSlot
INVARIANTS
    ConfirmedTicketHasOrder
CHECK_DEADLOCK FALSE
