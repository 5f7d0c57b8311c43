SPECIFICATION FairSpec
CONSTANTS
    u1 = u1  u2 = u2  u3 = u3  u4 = u4
    s1 = s1  s2 = s2  s3 = s3
    r1 = r1  r2 = r2  r3 = r3
    w1 = w1  w2 = w2
    Users = {u1, u2, u3, u4}
    Slots = {s1, s2}
    Requests = {r1, r2}
    Workers = {w1, w2}
    Years <- TwoYears
    GradeYear <- AllFirstYear
    EventType = "SIGN_UPS"
    Retractable = TRUE
    MaxAttempts = 2
    InitialEvent <- FullEvent
    InitialSlots <- FullSlots
    InitialSignUps <- FullSignUps
    MaySignUp <- Nobody
    MayRetract <- EachLeaves
    MayRemove <- EachLeaves
    MayUpdate <- Nobody
    MaxNow = 0
    MayCrash = FALSE
    Undefined = Undefined
    NoSlot = NoSlot
PROPERTIES
    FreedSeatsAreFilled
    QueueDrains
    PromotedInOrder
CHECK_DEADLOCK FALSE
