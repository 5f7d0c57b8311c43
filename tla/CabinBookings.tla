---------------------------- MODULE CabinBookings ----------------------------
(***************************************************************************)
(* Bookings of the cabins: CabinService (src/src/services/cabins),         *)
(* CabinRepository, and the receipts the mail worker sends for them.       *)
(*                                                                         *)
(* One Prisma call is one atomic step.  A call of the service is a program *)
(* counter and the values it has read; guests book, admins do everything   *)
(* that needs the feature permission CABIN_ADMIN.                          *)
(***************************************************************************)
EXTENDS CabinCalendar, Sequences

CONSTANTS
    Bookers,          \* clients that book cabins, one call at a time each
    Admins,           \* clients with CABIN_ADMIN, one call at a time each
    SemesterDefaults, \* first and last day of SPRING and FALL
    InitialToday, InitialCabins, InitialSemesters, InitialBookings,
    InitialTerms,
    MayBook,          \* the stays bookers ask for
    \* for each admin:
    MaySetStatus,     \* the statuses given to bookings
    MaySetSemester,   \* the updates of a semester
    MayCreateCabin,   \* the rows of cabins that are created
    MayUpdateCabin,   \* the updates of a cabin
    MaySetContact,    \* the contacts that are set
    MayUpdateTerms,   \* whether new booking terms are made
    MayCrash,         \* whether processes may die
    MaxCalls,         \* a bound of the model: the calls of each client
    MaxToday,         \* a bound of the model: the last today
    MaxBookings,      \* a bound of the model: the number of bookings
    Undefined, Null,  \* an absent field, and one set to null
    NoRow             \* a row that does not exist

VARIABLES
    today,      \* the clock
    cabin,      \* the rows of Cabin
    semester,   \* the rows of BookingSemester
    booking,    \* the rows of Booking in the order of their creation
    terms,      \* BookingTerms: the numbers of their files, the latest last
    files,      \* the number of File rows created so far
    uploaded,   \* the files whose blob a client has put in the storage
    contact,    \* the row of BookingContact
    emails,     \* "cabin-booking-receipt" jobs in the queue: booking ids
    receipts,   \* bookings whose receipt was sent
    failed,     \* bookings whose job failed: BullMQ keeps it, nobody retries it
    unannounced,\* bookings whose call died before it added the job
    worker,     \* the mail worker
    req,        \* the call each client has under way
    calls       \* how many calls each client has made

rows == <<cabin, semester, booking, terms, files, contact>>
mail == <<emails, receipts, failed, unannounced, worker>>
vars == <<today, rows, uploaded, mail, req, calls>>

-----------------------------------------------------------------------------
(* Rows *)

Clients == Bookers \cup Admins
Semesters == {"SPRING", "FALL"}
Statuses == {"PENDING", "CONFIRMED", "CANCELLED", "REJECTED"}

CabinRows == [capacity : Nat, internalPrice : Nat, externalPrice : Nat,
              internalPriceWeekend : Nat, externalPriceWeekend : Nat]
SemesterRows == [startAt : Days, endAt : Days, bookingsEnabled : BOOLEAN]
BookingRows == [start : Days, end : Days, cabins : SUBSET Cabins,
                guests : Guests, status : Statuses, totalCost : Nat]

OrUndefined(S) == S \cup {Undefined}
SemesterUpdates ==
    [semester : Semesters,
     startAt : Days \cup {Undefined, Null},
     endAt : Days \cup {Undefined, Null},
     bookingsEnabled : BOOLEAN \cup {Undefined, Null}]
CabinUpdates ==
    [id : Cabins,
     capacity : OrUndefined(Nat),
     internalPrice : OrUndefined(Nat), externalPrice : OrUndefined(Nat),
     internalPriceWeekend : OrUndefined(Nat),
     externalPriceWeekend : OrUndefined(Nat)]

ASSUME BookingsAssumption ==
    /\ Bookers \cap Admins = {}
    /\ SemesterDefaults \in [Semesters -> [startAt : Days, endAt : Days]]
    /\ InitialToday \in Nat /\ MaxToday \in Nat /\ MaxCalls \in [Clients -> Nat]
    /\ InitialBookings \in Seq(BookingRows)
    /\ MaxBookings \in Nat /\ Len(InitialBookings) <= MaxBookings
    /\ InitialCabins \in [Cabins -> CabinRows \cup {NoRow}]
    /\ InitialSemesters \in [Semesters -> SemesterRows \cup {NoRow}]
    /\ MayBook \subseteq Stays
    /\ InitialTerms \in Seq(Nat)
    /\ MaySetStatus \in [Admins -> SUBSET Statuses]
    /\ MaySetSemester \in [Admins -> SUBSET SemesterUpdates]
    /\ MayCreateCabin \in [Admins -> SUBSET CabinRows]
    /\ MayUpdateCabin \in [Admins -> SUBSET CabinUpdates]
    /\ MayUpdateTerms \in [Admins -> BOOLEAN] /\ MayCrash \in BOOLEAN
    /\ Undefined \notin Days /\ Undefined \notin BOOLEAN
    /\ Null \notin Days /\ Null \notin BOOLEAN
    /\ NoRow \notin CabinRows /\ NoRow \notin SemesterRows

BookingIds == DOMAIN booking
BookingSet == {booking[b] : b \in BookingIds}
Exists(s) == semester[s] # NoRow
SemesterSet == {semester[s] : s \in {s \in Semesters : Exists(s)}}

-----------------------------------------------------------------------------
(* What a call remembers between two awaits *)

PCs == {"idle", "occupied", "cost", "create", "mail", "write",
        "createSemester", "createTerms"}
Calls == [pc : PCs,
          booking : Nat,                       \* the booking it is about
          status : Statuses,                   \* the status to be written
          stay : Stays \cup {Undefined},       \* what is booked or confirmed
          left : SUBSET Cabins,                \* cabins not looked up yet
          occupied : SUBSET Intervals,         \* what those looked up gave
          capacity : Nat, cost : Nat,
          update : SemesterUpdates \cup {Undefined},
          file : Nat]
Idle == [pc |-> "idle", booking |-> 0, status |-> "PENDING",
         stay |-> Undefined, left |-> {}, occupied |-> {}, capacity |-> 0,
         cost |-> 0, update |-> Undefined, file |-> 0]

Init ==
    /\ today = InitialToday
    /\ cabin = InitialCabins
    /\ semester = InitialSemesters
    /\ booking = InitialBookings
    /\ terms = InitialTerms
    /\ files = Len(terms) /\ uploaded = 1 .. Len(terms)
    /\ contact = NoRow
    /\ emails = {} /\ receipts = {} /\ failed = {} /\ unannounced = {}
    /\ worker = [pc |-> "idle", booking |-> 0, file |-> 0]
    /\ req = [p \in Clients |-> Idle]
    /\ calls = [p \in Clients |-> 0]

\* Client p begins a call that is at `call' after its first await.
Begin(p, call) ==
    /\ req[p] = Idle /\ calls[p] < MaxCalls[p]
    /\ calls' = [calls EXCEPT ![p] = @ + 1]
    /\ req' = [req EXCEPT ![p] = call]
Goto(p, call) == req' = [req EXCEPT ![p] = call] /\ UNCHANGED calls
Return(p) == Goto(p, Idle)

\* The arguments of getValidBookingIntervals; today is what it reads last.
Valid(occupied) ==
    ValidBookingIntervals(BookableDateIntervals(SemesterSet, today), occupied)

-----------------------------------------------------------------------------
(* newBooking *)

\* The cabins are read.  One that does not exist makes the call throw.
NewBooking(p) ==
    \E stay \in MayBook :
        /\ \A c \in stay.cabins : cabin[c] # NoRow
        /\ Begin(p, [Idle EXCEPT !.pc = "occupied", !.stay = stay,
                                 !.left = stay.cabins,
                                 !.capacity = Capacity(cabin, stay.cabins)])
        /\ UNCHANGED <<today, rows, uploaded, mail>>

\* getOccupiedDateIntervals asks for the confirmed bookings of one cabin
\* after the other.
FindOccupied(p) ==
    /\ req[p].pc = "occupied"
    /\ \E c \in req[p].left :
          Goto(p, [req[p] EXCEPT
                      !.left = @ \ {c},
                      !.occupied = @ \cup OccupiedDateIntervals(BookingSet, c)])
    /\ UNCHANGED <<today, rows, uploaded, mail>>

\* The semesters are read; validateBooking.
ValidateNewBooking(p) ==
    /\ req[p].pc = "occupied" /\ req[p].left = {}
    /\ IF ValidateBooking(req[p].stay, req[p].capacity,
                          Valid(req[p].occupied), today)
       THEN Goto(p, [Idle EXCEPT !.pc = "cost", !.stay = req[p].stay])
       ELSE Return(p)
    /\ UNCHANGED <<today, rows, uploaded, mail>>

\* totalCost reads the cabins again.
CalculateCost(p) ==
    /\ req[p].pc = "cost"
    /\ Goto(p, [req[p] EXCEPT !.pc = "create",
                              !.cost = TotalCost(cabin, req[p].stay)])
    /\ UNCHANGED <<today, rows, uploaded, mail>>

\* Mutant of CreateBooking: no job is added for a booking of several cabins.
CreateBookingQuietly(p) ==
    /\ req[p].pc = "create" /\ Len(booking) < MaxBookings
    /\ booking' = Append(booking,
          [start |-> req[p].stay.start, end |-> req[p].stay.end,
           cabins |-> req[p].stay.cabins, guests |-> req[p].stay.guests,
           status |-> "PENDING", totalCost |-> req[p].cost])
    /\ Goto(p, IF Cardinality(req[p].stay.cabins) > 1 THEN Idle
               ELSE [Idle EXCEPT !.pc = "mail", !.booking = Len(booking')])
    /\ UNCHANGED <<today, cabin, semester, terms, files, contact, uploaded,
                   mail>>
CreateBooking(p) ==
    /\ req[p].pc = "create" /\ Len(booking) < MaxBookings
    /\ booking' = Append(booking,
          [start |-> req[p].stay.start, end |-> req[p].stay.end,
           cabins |-> req[p].stay.cabins, guests |-> req[p].stay.guests,
           status |-> "PENDING", totalCost |-> req[p].cost])
    /\ Goto(p, [Idle EXCEPT !.pc = "mail", !.booking = Len(booking')])
    /\ UNCHANGED <<today, cabin, semester, terms, files, contact,
                   uploaded, mail>>

SendBookingConfirmation(p) ==
    /\ req[p].pc = "mail"
    /\ emails' = emails \cup {req[p].booking}
    /\ Return(p)
    /\ UNCHANGED <<today, rows, uploaded, receipts, failed, unannounced,
                   worker>>

-----------------------------------------------------------------------------
(* updateBookingStatus *)

StayOf(b) == [start |-> b.start, end |-> b.end, cabins |-> b.cabins,
              guests |-> b.guests]

\* Mutant of UpdateBookingStatus: only a pending booking is checked.
UpdateBookingStatusUnchecked(p) ==
    \E b \in BookingIds, s \in MaySetStatus[p] :
        /\ Begin(p, [Idle EXCEPT
              !.pc = IF s = "CONFIRMED" /\ booking[b].status = "PENDING"
                     THEN "occupied" ELSE "write",
              !.booking = b, !.status = s, !.stay = StayOf(booking[b]),
              !.left = booking[b].cabins])
        /\ UNCHANGED <<today, rows, uploaded, mail>>
\* A booking to be confirmed is read first.
UpdateBookingStatus(p) ==
    \E b \in BookingIds, s \in MaySetStatus[p] :
        /\ Begin(p, [Idle EXCEPT
              !.pc = IF s = "CONFIRMED" THEN "occupied" ELSE "write",
              !.booking = b, !.status = s, !.stay = StayOf(booking[b]),
              !.left = booking[b].cabins])
        /\ UNCHANGED <<today, rows, uploaded, mail>>

\* The semesters are read; the stay must still be available.
ValidateConfirmation(p) ==
    /\ req[p].pc = "occupied" /\ req[p].left = {}
    /\ IF IsBookingIntervalAvailable(req[p].stay, Valid(req[p].occupied))
       THEN Goto(p, [Idle EXCEPT !.pc = "write", !.booking = req[p].booking,
                                 !.status = req[p].status])
       ELSE Return(p)
    /\ UNCHANGED <<today, rows, uploaded, mail>>

\* The row is written whatever its status is by now.
UpdateBooking(p) ==
    /\ req[p].pc = "write"
    /\ booking' = [booking EXCEPT ![req[p].booking].status = req[p].status]
    /\ Return(p)
    /\ UNCHANGED <<today, cabin, semester, terms, files, contact,
                   uploaded, mail>>

-----------------------------------------------------------------------------
(* updateBookingSemester *)

Or(value, default) == IF value \in {Undefined, Null} THEN default ELSE value
Updated(row, u) ==
    [startAt |-> Or(u.startAt, row.startAt), endAt |-> Or(u.endAt, row.endAt),
     bookingsEnabled |-> Or(u.bookingsEnabled, row.bookingsEnabled)]

\* The row is updated, or the NotFoundError makes the call create it.
UpdateBookingSemester(p) ==
    \E u \in MaySetSemester[p] :
        /\ IF Exists(u.semester)
           THEN /\ Begin(p, Idle)
                /\ semester' = [semester EXCEPT ![u.semester] = Updated(@, u)]
           ELSE /\ Begin(p, [Idle EXCEPT !.pc = "createSemester",
                                         !.update = u])
                /\ UNCHANGED semester
        /\ UNCHANGED <<today, cabin, booking, terms, files, contact,
                       uploaded, mail>>

\* Mutant of CreateBookingSemester: null is not refused, and is stored.
CreateBookingSemesterRaw(p) ==
    LET u == req[p].update
        given(value, default) == IF value = Undefined THEN default ELSE value
    IN  /\ req[p].pc = "createSemester"
        /\ semester' = IF Exists(u.semester) THEN semester
              ELSE [semester EXCEPT ![u.semester] =
                 [startAt |->
                     given(u.startAt, SemesterDefaults[u.semester].startAt),
                  endAt |-> given(u.endAt, SemesterDefaults[u.semester].endAt),
                  bookingsEnabled |-> given(u.bookingsEnabled, FALSE)]]
        /\ Return(p)
        /\ UNCHANGED <<today, cabin, booking, terms, files, contact, uploaded,
                       mail>>
\* Fields that are absent get their defaults; one that is null is refused, and
\* so is a semester that was created meanwhile.
CreateBookingSemester(p) ==
    LET u == req[p].update
        default == [startAt |-> SemesterDefaults[u.semester].startAt,
                    endAt |-> SemesterDefaults[u.semester].endAt,
                    bookingsEnabled |-> FALSE]
    IN  /\ req[p].pc = "createSemester"
        /\ semester' = IF \/ Exists(u.semester)
                          \/ Null \in {u.startAt, u.endAt, u.bookingsEnabled}
                       THEN semester
                       ELSE [semester EXCEPT ![u.semester] = Updated(default, u)]
        /\ Return(p)
        /\ UNCHANGED <<today, cabin, booking, terms, files, contact,
                       uploaded, mail>>

-----------------------------------------------------------------------------
(* Cabins, the contact, and the booking terms *)

\* createCabin: a row of a new id, all its fields given.
CreateCabin(p) ==
    \E c \in Cabins, row \in MayCreateCabin[p] :
        /\ cabin[c] = NoRow
        /\ Begin(p, Idle)
        /\ cabin' = [cabin EXCEPT ![c] = row]
        /\ UNCHANGED <<today, semester, booking, terms, files, contact,
                       uploaded, mail>>

\* updateCabin: the fields given are written to a row that exists.
UpdateCabin(p) ==
    \E u \in MayUpdateCabin[p] :
        /\ cabin[u.id] # NoRow
        /\ Begin(p, Idle)
        /\ cabin' = [cabin EXCEPT ![u.id] =
              [capacity |-> Or(u.capacity, @.capacity),
               internalPrice |-> Or(u.internalPrice, @.internalPrice),
               externalPrice |-> Or(u.externalPrice, @.externalPrice),
               internalPriceWeekend |->
                  Or(u.internalPriceWeekend, @.internalPriceWeekend),
               externalPriceWeekend |->
                  Or(u.externalPriceWeekend, @.externalPriceWeekend)]]
        /\ UNCHANGED <<today, semester, booking, terms, files, contact,
                       uploaded, mail>>

UpdateBookingContact(p) ==
    \E c \in MaySetContact[p] :
        /\ Begin(p, Idle)
        /\ contact' = c
        /\ UNCHANGED <<today, cabin, semester, booking, terms, files,
                       uploaded, mail>>

\* createFileUploadUrl: the row of a file, and a URL to upload it.
UpdateBookingTerms(p) ==
    /\ MayUpdateTerms[p]
    /\ files' = files + 1
    /\ Begin(p, [Idle EXCEPT !.pc = "createTerms", !.file = files'])
    /\ UNCHANGED <<today, cabin, semester, booking, terms, contact,
                   uploaded, mail>>

CreateBookingTerms(p) ==
    /\ req[p].pc = "createTerms"
    /\ terms' = Append(terms, req[p].file)
    /\ Return(p)
    /\ UNCHANGED <<today, cabin, semester, booking, files, contact,
                   uploaded, mail>>

-----------------------------------------------------------------------------
(* The mail worker and the job "cabin-booking-receipt" *)

\* The booking and the latest terms are read; 0 is no file.
TakeReceiptJob ==
    /\ worker.pc = "idle"
    /\ \E b \in emails :
          /\ emails' = emails \ {b}
          /\ worker' = [pc |-> "download", booking |-> b,
                        file |-> IF terms = <<>> THEN 0
                                 ELSE terms[Len(terms)]]
    /\ UNCHANGED <<today, rows, uploaded, receipts, failed, unannounced, req,
                   calls>>

\* The file of the terms is downloaded and the receipt sent.  Without the
\* blob, or without terms, the job fails, and failed jobs are not tried again.
SendReceipt ==
    /\ worker.pc = "download"
    /\ IF worker.file \in uploaded
       THEN receipts' = receipts \cup {worker.booking} /\ UNCHANGED failed
       ELSE failed' = failed \cup {worker.booking} /\ UNCHANGED receipts
    /\ worker' = [worker EXCEPT !.pc = "idle"]
    /\ UNCHANGED <<today, rows, uploaded, emails, unannounced, req, calls>>

-----------------------------------------------------------------------------
(* The world *)

\* A client uploads a file with the URL it was given.
Upload ==
    /\ \E n \in 1 .. files : n \notin uploaded /\ uploaded' = uploaded \cup {n}
    /\ UNCHANGED <<today, rows, mail, req, calls>>

Tick ==
    /\ today < MaxToday
    /\ today' = today + 1
    /\ UNCHANGED <<rows, uploaded, mail, req, calls>>

\* The process that serves the call dies, or Redis refuses the job.
CallFails(p) ==
    /\ MayCrash /\ req[p].pc # "idle"
    /\ unannounced' = IF req[p].pc = "mail"
                      THEN unannounced \cup {req[p].booking} ELSE unannounced
    /\ Return(p)
    /\ UNCHANGED <<today, rows, uploaded, emails, receipts, failed, worker>>

-----------------------------------------------------------------------------

BookerContinues(p) ==
    \/ FindOccupied(p)
    \/ ValidateNewBooking(p)
    \/ CalculateCost(p)
    \/ CreateBooking(p)
    \/ SendBookingConfirmation(p)

AdminContinues(p) ==
    \/ FindOccupied(p)
    \/ ValidateConfirmation(p)
    \/ UpdateBooking(p)
    \/ CreateBookingSemester(p)
    \/ CreateBookingTerms(p)

Booker(p) == NewBooking(p) \/ BookerContinues(p)
Admin(p) ==
    \/ UpdateBookingStatus(p)
    \/ UpdateBookingSemester(p)
    \/ CreateCabin(p)
    \/ UpdateCabin(p)
    \/ UpdateBookingContact(p)
    \/ UpdateBookingTerms(p)
    \/ AdminContinues(p)

MailWorker == TakeReceiptJob \/ SendReceipt

Next ==
    \/ \E p \in Bookers : Booker(p)
    \/ \E p \in Admins : Admin(p)
    \/ \E p \in Clients : CallFails(p)
    \/ MailWorker
    \/ Upload
    \/ Tick

Spec == Init /\ [][Next]_vars

\* Node runs the callbacks of settled promises, and BullMQ polls its queue.
FairSpec ==
    /\ Spec
    /\ \A p \in Bookers : WF_vars(BookerContinues(p))
    /\ \A p \in Admins : WF_vars(AdminContinues(p))
    /\ WF_vars(MailWorker)

=============================================================================
