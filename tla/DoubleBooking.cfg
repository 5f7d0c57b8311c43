SPECIFICATION Spec
CHECK_DEADLOCK FALSE
CONSTANTS
    c1 = c1
    c2 = c2
    b1 = b1
    a1 = a1
    a2 = a2
    Undefined = Undefined
    Null = Null
    NoRow = NoRow
    Cabins = {c1, c2}
    Days <- Week
    Bookers = {b1}
    Admins = {a1, a2}
    SemesterDefaults <- Defaults
    InitialToday = 1
    InitialCabins <- CabinsRows
    InitialSemesters <- FullWeek
    InitialBookings <- CabinsBookings
    InitialTerms <- OneTerms
    MayBook <- CabinsBook
    MaySetStatus <- BothStatus
    MaySetSemester <- NothingFor
    MayCreateCabin <- NothingFor
    MayUpdateCabin <- NothingFor
    MaySetContact <- NothingFor
    MayUpdateTerms <- NoTerms
    MayCrash = FALSE
    MaxCalls <- CabinsCalls
    MaxToday = 2
    MaxBookings = 3
INVARIANT ConfirmedDoNotOverlap
