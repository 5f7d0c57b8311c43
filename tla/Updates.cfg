SPECIFICATION Spec
CONSTANTS
    u1 = u1  u2 = u2  u3 = u3  u4 = u4
    s1 = s1  s2 = s2  s3 = s3
    r1 = r1  r2 = r2  r3 = r3
    w1 = w1  w2 = w2
    Users = {u1, u2}
    Slots = {s1, s2, s3}
    Requests = {r1, r2, r3}
    Workers = {w1}
    Years <- TwoYears
    GradeYear <- AllFirstYear
    EventType = "SIGN_UPS"
    Retractable = TRUE
    MaxAttempts = 2
    InitialEvent <- UpdatesEvent
    InitialSlots <- UpdatesSlots
    InitialSignUps <- UpdatesSignUps
    MaySignUp <- UpdatesSignUpCalls
    MayRetract <- Nobody
    MayRemove <- UpdatesRemoveCalls
    MayUpdate <- UpdatesUpdateCalls
    MaxNow = 1
    MayCrash = TRUE
    Undefined = Undefined
    NoSlot = NoSlot
INVARIANTS
    ConfirmedHoldsSlot
    SeatsInv
CHECK_DEADLOCK FALSE
