SPECIFICATION FairSpec
CHECK_DEADLOCK FALSE
CONSTANTS
    c1 = c1
    c2 = c2
    b1 = b1
    a1 = a1
    a2 = a2
    Undefined = Undefined
    Null = Null
    NoRow = NoRow
    Cabins = {c1, c2}
    Days <- Week
    Bookers = {b1}
    Admins = {a1, a2}
    SemesterDefaults <- Defaults
    InitialToday = 1
    InitialCabins <- CabinsRows
    InitialSemesters <- CabinsSemesters
    InitialBookings <- CabinsBookings
    InitialTerms <- OneTerms
    MayBook <- CabinsBook
    MaySetStatus <- CabinsStatus
    MaySetSemester <- CabinsSetSemester
    MayCreateCabin <- CabinsCreate
    MayUpdateCabin <- CabinsUpdate
    MaySetContact <- CabinsContact
    MayUpdateTerms <- CabinsTerms
    MayCrash = TRUE
    MaxCalls <- CabinsCalls
    MaxToday = 2
    MaxBookings = 3
INVARIANTS
    CabinsTypeOK
    ConfirmedDoNotOverlap
    AcceptsExactlyFreeStays
    CalendarShowsWhatIsAccepted
PROPERTIES
    ImplementsReservations
    ReceiptIsSent
