------------------------ MODULE CabinBookings_proofs ------------------------
(***************************************************************************)
(* Proofs about CabinBookings, for any cabins, days, bookings and clients: *)
(* as long as one client alone confirms, confirmed bookings are apart, and *)
(* the bookings implement CabinReservations.                               *)
(***************************************************************************)
EXTENDS CabinBookingsProperties, SequenceTheorems, TLAPS

-----------------------------------------------------------------------------
(* Shapes.  What a stay costs and how many beds there are is left open: the *)
(* sums are folds, and nothing here depends on them.                        *)

BookingsOf(X) == [start : Days, end : Days, cabins : SUBSET Cabins,
                  guests : Guests, status : Statuses, totalCost : X]
CallsOf(X) == [pc : PCs, booking : Nat, status : Statuses,
               stay : Stays \cup {Undefined}, left : SUBSET Cabins,
               occupied : SUBSET Intervals, capacity : X, cost : X,
               update : X, file : X]
Shapes ==
    \E X : booking \in Seq(BookingsOf(X)) /\ req \in [Clients -> CallsOf(X)]

\* More costs are no harm.
LEMMA MoreCosts ==
    ASSUME NEW X, NEW Y, X \subseteq Y
    PROVE  /\ BookingsOf(X) \subseteq BookingsOf(Y) /\ CallsOf(X) \subseteq CallsOf(Y)
           /\ Seq(BookingsOf(X)) \subseteq Seq(BookingsOf(Y))
<1>1. BookingsOf(X) \subseteq BookingsOf(Y) /\ CallsOf(X) \subseteq CallsOf(Y)
  BY DEF BookingsOf, CallsOf
<1> QED
  BY <1>1, SeqMonotonic

\* The record that calls start from.
LEMMA IdleShape == Idle \in CallsOf({0, Undefined})
  BY DEF Idle, CallsOf, PCs, Statuses

\* A call that moves keeps the shapes.
LEMMA MoveKeepsShapes ==
    ASSUME Shapes, NEW p \in Clients, NEW Y, NEW call \in CallsOf(Y),
           req' = [req EXCEPT ![p] = call], UNCHANGED booking
    PROVE  Shapes' /\ req'[p] = call /\ \A q \in Clients \ {p} : req'[q] = req[q]
<1>1. PICK X : booking \in Seq(BookingsOf(X)) /\ req \in [Clients -> CallsOf(X)]
  BY DEF Shapes
<1> DEFINE Z == X \cup Y
<1>2. booking' \in Seq(BookingsOf(Z)) /\ req \in [Clients -> CallsOf(Z)]
  BY <1>1, MoreCosts
<1>3. call \in CallsOf(Z)
  BY MoreCosts
<1>4. req' \in [Clients -> CallsOf(Z)]
  BY <1>2, <1>3
<1>5. Shapes'
  BY <1>2, <1>4 DEF Shapes
<1> QED
  BY <1>1, <1>5

\* The rows of bookings.
LEMMA BookingShape ==
    ASSUME Shapes, NEW b \in BookingIds
    PROVE  /\ b \in Nat /\ b >= 1 /\ b <= Len(booking)
           /\ booking[b].start \in Days /\ booking[b].end \in Days
           /\ booking[b].cabins \subseteq Cabins /\ booking[b].guests \in Guests
           /\ booking[b].status \in Statuses
           /\ StayOf(booking[b]) \in Stays
           /\ \A s : /\ [booking[b] EXCEPT !.status = s].start = booking[b].start
                     /\ [booking[b] EXCEPT !.status = s].end = booking[b].end
                     /\ [booking[b] EXCEPT !.status = s].cabins = booking[b].cabins
                     /\ [booking[b] EXCEPT !.status = s].guests = booking[b].guests
                     /\ [booking[b] EXCEPT !.status = s].status = s
<1>1. PICK X : booking \in Seq(BookingsOf(X))
  BY DEF Shapes
<1>2. b \in 1 .. Len(booking) /\ Len(booking) \in Nat
  BY <1>1, LenProperties DEF BookingIds
<1>3. booking[b] \in BookingsOf(X)
  BY <1>1, <1>2, ElementOfSeq
<1> QED
  BY <1>2, <1>3 DEF BookingsOf, StayOf, Stays

\* Days are numbers.
LEMMA DaysAreNumbers == Days \subseteq Nat
  BY CalendarAssumption

-----------------------------------------------------------------------------
(* The invariant *)

\* Client r alone confirms bookings.
OneConfirmer(r) == \A a \in Admins \ {r} : "CONFIRMED" \notin MaySetStatus[a]

\* Bookings end after they begin, and the confirmed ones are apart.
StartsApart ==
    /\ \A n \in DOMAIN InitialBookings :
          InitialBookings[n].start <= InitialBookings[n].end
    /\ \A m, n \in DOMAIN InitialBookings :
          /\ m # n /\ InitialBookings[m].status = "CONFIRMED"
          /\ InitialBookings[n].status = "CONFIRMED"
          => ~Overlap(InitialBookings[m], InitialBookings[n])

\* Which calls there are, and whose.
CallFits(r, p, call) ==
    /\ call.pc \in {"occupied", "cost", "create"} => call.stay \in Stays
    /\ call.pc \in {"cost", "create"} =>
          p \notin Admins /\ call.stay.start <= call.stay.end
    /\ call.pc = "write" => p \in Admins
    /\ p \in Admins /\ call.pc \in {"occupied", "write"} => call.booking \in BookingIds
    /\ p \in Admins \ {r} /\ call.pc = "write" => call.status # "CONFIRMED"
    /\ p \in Admins \ {r} => call.pc # "occupied"

\* What the one confirmer has looked up is all there is, and stays so: others
\* only give days back.
Confirming(call) ==
    /\ call.pc = "occupied" =>
          /\ call.stay = StayOf(booking[call.booking])
          /\ call.left \subseteq call.stay.cabins
          /\ \A x \in ConfirmedIds : \A c \in booking[x].cabins :
                c \in call.stay.cabins \ call.left =>
                    Interval(booking[x].start, booking[x].end) \in call.occupied
    /\ call.pc = "write" /\ call.status = "CONFIRMED" =>
          \A x \in ConfirmedIds : ~Overlap(booking[x], booking[call.booking])

Dated == \A b \in BookingIds : booking[b].start <= booking[b].end

CabinsInv(r) ==
    /\ Shapes /\ Len(booking) <= MaxBookings
    /\ Dated /\ ConfirmedDoNotOverlap
    /\ \A p \in Clients : CallFits(r, p, req[p])
    /\ Confirming(req[r])

\* A call of client p goes on and the bookings stay.
Reading(r, p) ==
    \E Y, call :
        /\ call \in CallsOf(Y) /\ req' = [req EXCEPT ![p] = call]
        /\ UNCHANGED booking
        /\ CallFits(r, p, call) /\ (p = r => Confirming(call))

-----------------------------------------------------------------------------
(* Steps that only read *)

\* Ending a call.
LEMMA ReturnReads ==
    ASSUME NEW r, NEW p \in Clients, req' = [req EXCEPT ![p] = Idle], UNCHANGED booking
    PROVE  Reading(r, p)
<1>1. Idle.pc = "idle"
  BY DEF Idle
<1>2. CallFits(r, p, Idle) /\ Confirming(Idle)
  BY <1>1 DEF CallFits, Confirming
<1> QED
  BY <1>2, IdleShape DEF Reading

\* newBooking and its queries, and those of a confirmation.
LEMMA BookerReads ==
    ASSUME NEW r \in Admins, CabinsInv(r), NEW p \in Bookers,
           NewBooking(p) \/ FindOccupied(p) \/ ValidateNewBooking(p) \/ CalculateCost(p)
           \/ SendBookingConfirmation(p)
    PROVE  Reading(r, p)
<1>0. p \in Clients /\ p \notin Admins /\ p # r
  BY BookingsAssumption DEF Clients
<1>1. PICK X : req \in [Clients -> CallsOf(X)]
  BY DEF CabinsInv, Shapes
<1>2. CallFits(r, p, req[p]) /\ req[p] \in CallsOf(X)
  BY <1>0, <1>1 DEF CabinsInv
<1>3. CASE NewBooking(p)
  <2>1. PICK stay \in MayBook :
          /\ req' = [req EXCEPT ![p] = [Idle EXCEPT !.pc = "occupied", !.stay = stay,
                                 !.left = stay.cabins,
                                 !.capacity = Capacity(cabin, stay.cabins)]]
          /\ UNCHANGED booking
    BY <1>3 DEF NewBooking, Begin, rows
  <2> DEFINE capacity == Capacity(cabin, stay.cabins)
             call == [Idle EXCEPT !.pc = "occupied", !.stay = stay,
                                  !.left = stay.cabins, !.capacity = capacity]
  <2>2. stay \in Stays
    BY BookingsAssumption
  <2>3. call \in CallsOf({0, Undefined, capacity})
    BY <2>2 DEF Idle, CallsOf, PCs, Statuses, Stays
  <2>4. CallFits(r, p, call)
    BY <1>0, <2>2 DEF Idle, CallFits
  <2> QED
    BY <1>0, <2>1, <2>3, <2>4 DEF Reading
<1>4. CASE FindOccupied(p)
  <2>1. PICK c \in req[p].left :
          /\ req[p].pc = "occupied" /\ UNCHANGED booking
          /\ req' = [req EXCEPT ![p] = [req[p] EXCEPT
                      !.left = @ \ {c},
                      !.occupied = @ \cup OccupiedDateIntervals(BookingSet, c)]]
    BY <1>4 DEF FindOccupied, Goto, rows
  <2> DEFINE call == [req[p] EXCEPT
                      !.left = @ \ {c},
                      !.occupied = @ \cup OccupiedDateIntervals(BookingSet, c)]
  <2>2. OccupiedDateIntervals(BookingSet, c) \subseteq Intervals
    BY BookingShape DEF CabinsInv, OccupiedDateIntervals, BookingSet, Intervals
  <2>3. call \in CallsOf(X)
    BY <1>2, <2>2 DEF CallsOf
  <2>4. CallFits(r, p, call)
    BY <1>0, <1>2, <2>1 DEF CallFits, CallsOf
  <2> QED
    BY <1>0, <2>1, <2>3, <2>4 DEF Reading
<1>5. CASE ValidateNewBooking(p)
  <2>1. CASE req' = [req EXCEPT ![p] = Idle]
    BY <1>0, <1>5, <2>1, ReturnReads DEF ValidateNewBooking, rows
  <2>2. CASE req' # [req EXCEPT ![p] = Idle]
    <3> DEFINE call == [Idle EXCEPT !.pc = "cost", !.stay = req[p].stay]
    <3>1. /\ req[p].pc = "occupied" /\ UNCHANGED booking
          /\ ValidateBooking(req[p].stay, req[p].capacity, Valid(req[p].occupied), today)
          /\ req' = [req EXCEPT ![p] = call]
      BY <1>5, <2>2 DEF ValidateNewBooking, Return, Goto, rows
    <3>2. req[p].stay.start <= req[p].stay.end /\ req[p].stay \in Stays
      BY <1>2, <3>1 DEF ValidateBooking, CallFits
    <3>3. call \in CallsOf({0, Undefined})
      BY <3>2 DEF Idle, CallsOf, PCs, Statuses
    <3>4. CallFits(r, p, call)
      BY <1>0, <3>2 DEF Idle, CallFits
    <3> QED
      BY <1>0, <3>1, <3>3, <3>4 DEF Reading
  <2> QED
    BY <2>1, <2>2
<1>6. CASE CalculateCost(p)
  <2> DEFINE cost == TotalCost(cabin, req[p].stay)
             call == [req[p] EXCEPT !.pc = "create", !.cost = cost]
  <2>1. req[p].pc = "cost" /\ UNCHANGED booking /\ req' = [req EXCEPT ![p] = call]
    BY <1>6 DEF CalculateCost, Goto, rows
  <2>2. call \in CallsOf(X \cup {cost})
    BY <1>2 DEF CallsOf, PCs
  <2>3. CallFits(r, p, call)
    BY <1>0, <1>2, <2>1 DEF CallFits, CallsOf
  <2> QED
    BY <1>0, <2>1, <2>2, <2>3 DEF Reading
<1>7. CASE SendBookingConfirmation(p)
  BY <1>0, <1>7, ReturnReads DEF SendBookingConfirmation, Return, Goto, rows
<1> QED
  BY <1>3, <1>4, <1>5, <1>6, <1>7

\* A lookup adds the confirmed bookings of one more cabin.
LEMMA LookupReads ==
    ASSUME NEW r \in Admins, CabinsInv(r), NEW p \in Admins, FindOccupied(p)
    PROVE  Reading(r, p)
<1>0. p \in Clients
  BY DEF Clients
<1>1. PICK X : req \in [Clients -> CallsOf(X)]
  BY DEF CabinsInv, Shapes
<1>2. CallFits(r, p, req[p]) /\ req[p] \in CallsOf(X)
  BY <1>0, <1>1 DEF CabinsInv
<1>3. PICK c \in req[p].left :
        /\ req[p].pc = "occupied" /\ UNCHANGED booking
        /\ req' = [req EXCEPT ![p] = [req[p] EXCEPT
                    !.left = @ \ {c},
                    !.occupied = @ \cup OccupiedDateIntervals(BookingSet, c)]]
  BY DEF FindOccupied, Goto, rows
<1>4. p = r
  BY <1>2, <1>3 DEF CallFits
<1> DEFINE found == OccupiedDateIntervals(BookingSet, c)
           call == [req[p] EXCEPT !.left = @ \ {c}, !.occupied = @ \cup found]
<1>5. found \subseteq Intervals
  BY BookingShape DEF CabinsInv, OccupiedDateIntervals, BookingSet, Intervals
<1>6. call \in CallsOf(X)
  BY <1>2, <1>5 DEF CallsOf
<1>7. /\ call.pc = "occupied" /\ call.stay = req[p].stay /\ call.booking = req[p].booking
      /\ call.status = req[p].status
      /\ call.left = req[p].left \ {c} /\ call.occupied = req[p].occupied \cup found
  BY <1>2, <1>3 DEF CallsOf
<1>8. \A x \in ConfirmedIds : c \in booking[x].cabins =>
          Interval(booking[x].start, booking[x].end) \in found
  BY DEF ConfirmedIds, OccupiedDateIntervals, BookingSet
<1> HIDE DEF call, found
<1>9. CallFits(r, p, call)
  BY <1>2, <1>3, <1>7 DEF CallFits
<1>10. Confirming(req[p])
  BY <1>4 DEF CabinsInv
<1>11. Confirming(call)
  BY <1>3, <1>7, <1>8, <1>10 DEF Confirming
<1>12. req' = [req EXCEPT ![p] = call]
  BY <1>3 DEF call, found
<1> QED
  BY <1>3, <1>6, <1>9, <1>11, <1>12 DEF Reading

\* A stay that fits between the bookings that were found overlaps none.
LEMMA AvailableIsApart ==
    ASSUME Shapes, Dated, NEW b \in BookingIds, NEW x \in ConfirmedIds, NEW occupied,
           IsBookingIntervalAvailable(StayOf(booking[b]), Valid(occupied)),
           \A c \in booking[x].cabins : c \in booking[b].cabins =>
               Interval(booking[x].start, booking[x].end) \in occupied
    PROVE  ~Overlap(booking[x], booking[b])
<1> SUFFICES ASSUME Overlap(booking[x], booking[b]) PROVE FALSE
  OBVIOUS
<1>1. x \in BookingIds
  BY DEF ConfirmedIds
<1>2. /\ booking[x].start \in Nat /\ booking[x].end \in Nat
      /\ booking[b].start \in Nat /\ booking[b].end \in Nat
      /\ booking[x].start \in Days /\ booking[b].start \in Days
  BY <1>1, BookingShape, DaysAreNumbers
<1>3. Interval(booking[x].start, booking[x].end) \in occupied
  BY DEF Overlap
<1>4. PICK i \in Intervals :
        /\ i.start <= booking[b].start /\ booking[b].end < i.end
        /\ \A d \in Days : Contains(i, d) => IsDateAvailable(d, occupied)
  BY DEF IsBookingIntervalAvailable, Valid, ValidBookingIntervals, Engulfs, StayOf
<1>5. i.start \in Nat /\ i.end \in Nat
  BY <1>4, DaysAreNumbers DEF Intervals, Interval
<1>6. PICK d \in Days : d \in {booking[x].start, booking[b].start}
                        /\ booking[x].start <= d /\ booking[b].start <= d
  BY <1>2
<1>7. /\ booking[x].start <= booking[x].end /\ booking[b].start <= booking[b].end
      /\ booking[x].start <= booking[b].end /\ booking[b].start <= booking[x].end
  BY <1>1 DEF Dated, Overlap
<1>8. d \in Nat /\ d <= booking[x].end /\ d <= booking[b].end
  BY <1>2, <1>6, <1>7
<1>9. Contains(i, d) /\ Contains(Interval(booking[x].start, booking[x].end), d)
  BY <1>2, <1>4, <1>5, <1>6, <1>8 DEF Contains, Interval
<1> QED
  BY <1>3, <1>4, <1>9 DEF IsDateAvailable

\* The stay that is confirmed is validated against all confirmed bookings.
LEMMA ConfirmationReads ==
    ASSUME NEW r \in Admins, CabinsInv(r), NEW p \in Admins, ValidateConfirmation(p)
    PROVE  Reading(r, p)
<1>0. p \in Clients
  BY DEF Clients
<1>1. PICK X : req \in [Clients -> CallsOf(X)]
  BY DEF CabinsInv, Shapes
<1>2. CallFits(r, p, req[p]) /\ req[p] \in CallsOf(X)
  BY <1>0, <1>1 DEF CabinsInv
<1>3. CASE req' = [req EXCEPT ![p] = Idle]
  BY <1>0, <1>3, ReturnReads DEF ValidateConfirmation, rows
<1>4. CASE req' # [req EXCEPT ![p] = Idle]
  <2> DEFINE call == [Idle EXCEPT !.pc = "write", !.booking = req[p].booking,
                                  !.status = req[p].status]
  <2>1. /\ req[p].pc = "occupied" /\ req[p].left = {} /\ UNCHANGED booking
        /\ IsBookingIntervalAvailable(req[p].stay, Valid(req[p].occupied))
        /\ req' = [req EXCEPT ![p] = call]
    BY <1>4 DEF ValidateConfirmation, Return, Goto, rows
  <2>2. p = r /\ req[p].booking \in BookingIds
    BY <1>2, <2>1 DEF CallFits
  <2>3. call \in CallsOf({0, Undefined})
    BY <1>2 DEF Idle, CallsOf, PCs
  <2>4. call.pc = "write" /\ call.booking = req[p].booking /\ call.status = req[p].status
    BY DEF Idle
  <2> HIDE DEF call
  <2>5. CallFits(r, p, call)
    BY <2>2, <2>4 DEF CallFits
  <2>6. /\ req[p].stay = StayOf(booking[req[p].booking])
        /\ \A x \in ConfirmedIds : \A c \in booking[x].cabins :
               c \in req[p].stay.cabins =>
                   Interval(booking[x].start, booking[x].end) \in req[p].occupied
    BY <2>1, <2>2 DEF CabinsInv, Confirming
  <2>7. req[p].stay.cabins = booking[req[p].booking].cabins
    BY <2>6 DEF StayOf
  <2>8. \A x \in ConfirmedIds : ~Overlap(booking[x], booking[req[p].booking])
    BY <2>1, <2>2, <2>6, <2>7, AvailableIsApart DEF CabinsInv
  <2>9. Confirming(call)
    BY <2>4, <2>8 DEF Confirming
  <2> QED
    BY <2>1, <2>3, <2>5, <2>9 DEF Reading
<1> QED
  BY <1>3, <1>4

\* updateBookingStatus begins.
LEMMA StatusReads ==
    ASSUME NEW r \in Admins, OneConfirmer(r), CabinsInv(r), NEW p \in Admins,
           UpdateBookingStatus(p)
    PROVE  Reading(r, p)
<1>1. PICK b \in BookingIds, s \in MaySetStatus[p] :
        /\ req' = [req EXCEPT ![p] = [Idle EXCEPT
              !.pc = IF s = "CONFIRMED" THEN "occupied" ELSE "write",
              !.booking = b, !.status = s, !.stay = StayOf(booking[b]),
              !.left = booking[b].cabins]]
        /\ UNCHANGED booking
  BY DEF UpdateBookingStatus, Begin, rows
<1> DEFINE call == [Idle EXCEPT
              !.pc = IF s = "CONFIRMED" THEN "occupied" ELSE "write",
              !.booking = b, !.status = s, !.stay = StayOf(booking[b]),
              !.left = booking[b].cabins]
<1>2. s \in Statuses /\ StayOf(booking[b]) \in Stays /\ b \in Nat
      /\ booking[b].cabins \subseteq Cabins
  BY BookingsAssumption, BookingShape DEF CabinsInv
<1>3. call \in CallsOf({0, Undefined})
  BY <1>2 DEF Idle, CallsOf, PCs
<1>4. /\ call.pc = IF s = "CONFIRMED" THEN "occupied" ELSE "write"
      /\ call.booking = b /\ call.status = s /\ call.stay = StayOf(booking[b])
      /\ call.left = booking[b].cabins
  BY DEF Idle
<1>5. StayOf(booking[b]).cabins = booking[b].cabins
  BY DEF StayOf
<1> HIDE DEF call
<1>6. CallFits(r, p, call)
  BY <1>2, <1>4 DEF CallFits, OneConfirmer
<1>7. Confirming(call)
  BY <1>4, <1>5 DEF Confirming
<1>8. req' = [req EXCEPT ![p] = call]
  BY <1>1 DEF call
<1> QED
  BY <1>1, <1>3, <1>6, <1>7, <1>8 DEF Reading

\* The other calls of admins do not touch bookings.
LEMMA AdminReads ==
    ASSUME NEW r \in Admins, CabinsInv(r), NEW p \in Admins,
           \/ UpdateBookingSemester(p) \/ CreateCabin(p) \/ UpdateCabin(p)
           \/ UpdateBookingContact(p) \/ UpdateBookingTerms(p)
           \/ CreateBookingSemester(p) \/ CreateBookingTerms(p)
    PROVE  Reading(r, p)
<1>0. p \in Clients
  BY DEF Clients
<1>1. ASSUME NEW u, NEW n, NEW pc \in {"createSemester", "createTerms"},
             NEW call \in {[Idle EXCEPT !.pc = pc, !.update = u],
                           [Idle EXCEPT !.pc = pc, !.file = n]},
             req' = [req EXCEPT ![p] = call], UNCHANGED booking
      PROVE  Reading(r, p)
  <2>1. call \in CallsOf({0, Undefined, u, n}) /\ call.pc = pc
    <3>1. CASE call = [Idle EXCEPT !.pc = pc, !.update = u]
      BY <3>1 DEF Idle, CallsOf, PCs, Statuses
    <3>2. CASE call = [Idle EXCEPT !.pc = pc, !.file = n]
      BY <3>2 DEF Idle, CallsOf, PCs, Statuses
    <3> QED
      BY <3>1, <3>2
  <2>2. CallFits(r, p, call) /\ Confirming(call)
    BY <2>1 DEF CallFits, Confirming
  <2> QED
    BY <1>1, <2>1, <2>2 DEF Reading
<1>2. CASE UpdateBookingSemester(p)
  <2>1. PICK u \in MaySetSemester[p] :
          /\ \/ req' = [req EXCEPT ![p] = Idle]
             \/ req' = [req EXCEPT ![p] = [Idle EXCEPT !.pc = "createSemester",
                                                       !.update = u]]
          /\ UNCHANGED booking
    BY <1>2 DEF UpdateBookingSemester, Begin
  <2> QED
    BY <1>0, <1>1, <2>1, ReturnReads
<1>3. CASE UpdateBookingTerms(p)
  <2>1. /\ req' = [req EXCEPT ![p] = [Idle EXCEPT !.pc = "createTerms", !.file = files']]
        /\ UNCHANGED booking
    BY <1>3 DEF UpdateBookingTerms, Begin
  <2>2. PICK n : n = files'
    OBVIOUS
  <2> QED
    BY <1>1, <2>1, <2>2
<1>4. CASE \/ CreateCabin(p) \/ UpdateCabin(p) \/ UpdateBookingContact(p)
           \/ CreateBookingSemester(p) \/ CreateBookingTerms(p)
  BY <1>0, <1>4, ReturnReads
     DEF CreateCabin, UpdateCabin, UpdateBookingContact, CreateBookingSemester,
         CreateBookingTerms, Begin, Return, Goto
<1> QED
  BY <1>2, <1>3, <1>4

\* Reads keep the invariant.
LEMMA ReadingKeeps ==
    ASSUME NEW r \in Admins, CabinsInv(r), NEW p \in Clients, Reading(r, p)
    PROVE  CabinsInv(r)'
<1>1. PICK Y, call :
        /\ call \in CallsOf(Y) /\ req' = [req EXCEPT ![p] = call]
        /\ UNCHANGED booking
        /\ CallFits(r, p, call) /\ (p = r => Confirming(call))
  BY DEF Reading
<1>2. Shapes' /\ req'[p] = call /\ \A q \in Clients \ {p} : req'[q] = req[q]
  BY <1>1, MoveKeepsShapes DEF CabinsInv
<1>3. /\ ConfirmedDoNotOverlap' /\ Dated' /\ Len(booking)' <= MaxBookings
  BY <1>1 DEF CabinsInv, ConfirmedDoNotOverlap, ConfirmedIds, BookingIds, Dated
<1>4. ASSUME NEW q \in Clients PROVE CallFits(r, q, req[q])'
  <2>1. CallFits(r, q, req'[q])
    BY <1>1, <1>2 DEF CabinsInv
  <2> QED
    BY <1>1, <2>1 DEF CallFits, BookingIds
<1>5. Confirming(req[r])'
  <2>1. Confirming(req'[r])
    BY <1>1, <1>2 DEF CabinsInv, Clients
  <2> QED
    BY <1>1, <2>1 DEF Confirming, ConfirmedIds, BookingIds, StayOf
<1> QED
  BY <1>2, <1>3, <1>4, <1>5 DEF CabinsInv

-----------------------------------------------------------------------------
(* Steps that write bookings *)

\* Bookings keep their ids, dates and cabins.
Kept ==
    /\ BookingIds \subseteq BookingIds'
    /\ \A b \in BookingIds :
          /\ booking'[b].start = booking[b].start /\ booking'[b].end = booking[b].end
          /\ booking'[b].cabins = booking[b].cabins
          /\ booking'[b].guests = booking[b].guests

\* A write that confirms nothing takes nothing from what calls rely on.
LEMMA ReleaseKeeps ==
    ASSUME NEW r \in Admins, CabinsInv(r), Kept, Shapes',
           Len(booking)' <= MaxBookings, Dated',
           ConfirmedIds' \subseteq ConfirmedIds,
           \A q \in Clients : \/ req'[q] = req[q]
                              \/ req'[q].pc = "idle"
                              \/ q \notin Admins /\ req'[q].pc = "mail"
    PROVE  CabinsInv(r)'
<1>0. ConfirmedIds \subseteq BookingIds /\ Idle.pc = "idle"
  BY DEF ConfirmedIds, Idle
<1>1. ConfirmedDoNotOverlap'
  BY <1>0 DEF CabinsInv, ConfirmedDoNotOverlap, Kept, Overlap
<1>2. ASSUME NEW q \in Clients PROVE CallFits(r, q, req[q])'
  <2>1. CallFits(r, q, req'[q])
    <3>1. CASE req'[q] = req[q]
      BY <3>1 DEF CabinsInv
    <3>2. CASE req'[q] # req[q]
      BY <1>0, <3>2 DEF CallFits
    <3> QED
      BY <3>1, <3>2
  <2> QED
    BY <2>1 DEF CallFits, Kept
<1>3. Confirming(req[r])'
  <2>1. PICK call : call = req'[r]
    OBVIOUS
  <2>2. call.pc = "idle" \/ call = req[r]
    BY <1>0, <2>1 DEF Clients
  <2>3. Confirming(call) /\ CallFits(r, r, call)
    BY <1>0, <2>2 DEF CabinsInv, Confirming, CallFits, Clients
  <2>4. call.pc \in {"occupied", "write"} => call.booking \in BookingIds
    BY <2>3 DEF CallFits
  <2>5. Confirming(call)'
    BY <1>0, <2>3, <2>4 DEF Confirming, Kept, StayOf, Overlap
  <2> QED
    BY <2>1, <2>5 DEF Confirming, StayOf
<1> QED
  BY <1>1, <1>2, <1>3 DEF CabinsInv

\* A booking that is created is pending.
LEMMA CreateKeeps ==
    ASSUME NEW r \in Admins, CabinsInv(r), NEW p \in Bookers, CreateBooking(p)
    PROVE  CabinsInv(r)' /\ Kept /\ ConfirmedIds' = ConfirmedIds
<1>0. p \in Clients /\ p \notin Admins
  BY BookingsAssumption DEF Clients
<1>1. PICK X : booking \in Seq(BookingsOf(X)) /\ req \in [Clients -> CallsOf(X)]
  BY DEF CabinsInv, Shapes
<1> DEFINE row == [start |-> req[p].stay.start, end |-> req[p].stay.end,
                   cabins |-> req[p].stay.cabins, guests |-> req[p].stay.guests,
                   status |-> "PENDING", totalCost |-> req[p].cost]
           n == Len(booking) + 1
<1>2. /\ req[p].pc = "create" /\ Len(booking) < MaxBookings
      /\ booking' = Append(booking, row)
      /\ req' = [req EXCEPT ![p] = [Idle EXCEPT !.pc = "mail", !.booking = Len(booking')]]
  BY DEF CreateBooking, Goto
<1>3. /\ req[p].stay \in Stays /\ req[p].stay.start <= req[p].stay.end
      /\ req[p] \in CallsOf(X)
  BY <1>0, <1>1, <1>2 DEF CabinsInv, CallFits
<1>4. row \in BookingsOf(X)
  BY <1>3 DEF BookingsOf, CallsOf, Stays, Statuses
<1>5. row.status = "PENDING" /\ row.start <= row.end
  BY <1>3
<1> HIDE DEF row
<1>6. Len(booking) \in Nat /\ DOMAIN booking = 1 .. Len(booking) /\ MaxBookings \in Nat
  BY <1>1, LenProperties, BookingsAssumption
<1>7. /\ booking' \in Seq(BookingsOf(X)) /\ Len(booking') = n
      /\ booking'[n] = row /\ \A i \in 1 .. Len(booking) : booking'[i] = booking[i]
  BY <1>1, <1>2, <1>4
<1>8. DOMAIN booking' = 1 .. n /\ n <= MaxBookings
  BY <1>2, <1>6, <1>7, LenProperties
<1>9. BookingIds' = BookingIds \cup {n}
  BY <1>6, <1>8 DEF BookingIds
<1>10. Kept
  BY <1>6, <1>7, <1>9 DEF Kept, BookingIds
<1>11. ConfirmedIds' = ConfirmedIds
  BY <1>5, <1>6, <1>7, <1>9 DEF ConfirmedIds, BookingIds
<1>12. Dated'
  BY <1>5, <1>6, <1>7, <1>9 DEF Dated, CabinsInv, BookingIds
<1>13. Shapes'
  <2> DEFINE Z == X \cup {0, Undefined}
             call == [Idle EXCEPT !.pc = "mail", !.booking = Len(booking')]
  <2>1. booking' \in Seq(BookingsOf(Z)) /\ req \in [Clients -> CallsOf(Z)]
    BY <1>1, <1>7, MoreCosts
  <2>2. call \in CallsOf(Z)
    <3>1. Len(booking') \in Nat
      BY <1>6, <1>7
    <3> QED
      BY <3>1 DEF Idle, CallsOf, PCs, Statuses
  <2>3. req' \in [Clients -> CallsOf(Z)]
    BY <1>2, <2>1, <2>2
  <2> QED
    BY <2>1, <2>3 DEF Shapes
<1>14. \A q \in Clients : \/ req'[q] = req[q]
                          \/ q \notin Admins /\ req'[q].pc = "mail"
  <2>1. req'[p].pc = "mail" /\ \A q \in Clients \ {p} : req'[q] = req[q]
    BY <1>0, <1>1, <1>2 DEF Idle
  <2> QED
    BY <1>0, <2>1
<1>15. Len(booking)' <= MaxBookings
  BY <1>7, <1>8
<1>16. CabinsInv(r)'
  BY <1>0, <1>10, <1>11, <1>12, <1>13, <1>14, <1>15, ReleaseKeeps
<1> QED
  BY <1>10, <1>11, <1>16

\* What a write of a status changes.
LEMMA UpdateWrites ==
    ASSUME NEW r \in Admins, CabinsInv(r), NEW p \in Admins, UpdateBooking(p)
    PROVE  /\ Kept /\ Shapes' /\ Dated' /\ Len(booking)' <= MaxBookings
           /\ BookingIds' = BookingIds
           /\ req[p].booking \in BookingIds
           /\ ConfirmedIds' = IF req[p].status = "CONFIRMED"
                              THEN ConfirmedIds \cup {req[p].booking}
                              ELSE ConfirmedIds \ {req[p].booking}
           /\ \A q \in Clients : req'[q] = IF q = p THEN Idle ELSE req[q]
<1>0. p \in Clients
  BY DEF Clients
<1>1. PICK X : booking \in Seq(BookingsOf(X)) /\ req \in [Clients -> CallsOf(X)]
  BY DEF CabinsInv, Shapes
<1> DEFINE b == req[p].booking
           row == [booking[b] EXCEPT !.status = req[p].status]
<1>2. /\ req[p].pc = "write" /\ req' = [req EXCEPT ![p] = Idle]
      /\ booking' = [booking EXCEPT ![b] = row]
  BY DEF UpdateBooking, Return, Goto
<1>3. b \in BookingIds /\ req[p].status \in Statuses
  BY <1>0, <1>1, <1>2 DEF CabinsInv, CallFits, CallsOf
<1>4. /\ row.start = booking[b].start /\ row.end = booking[b].end
      /\ row.cabins = booking[b].cabins /\ row.guests = booking[b].guests
      /\ row.status = req[p].status
  BY <1>3, BookingShape DEF CabinsInv
<1>5. row \in BookingsOf(X)
  <2>1. booking[b] \in BookingsOf(X)
    BY <1>1, <1>3, LenProperties, ElementOfSeq DEF BookingIds
  <2> QED
    BY <1>3, <2>1 DEF BookingsOf
<1> HIDE DEF row
<1>6. /\ booking' \in Seq(BookingsOf(X)) /\ Len(booking') = Len(booking)
      /\ DOMAIN booking' = DOMAIN booking /\ booking'[b] = row
      /\ \A i \in DOMAIN booking \ {b} : booking'[i] = booking[i]
  <2>1. booking \in [1 .. Len(booking) -> BookingsOf(X)] /\ Len(booking) \in Nat
    BY <1>1, LenProperties
  <2>2. booking' \in [1 .. Len(booking) -> BookingsOf(X)]
    BY <1>2, <1>5, <2>1
  <2>3. booking' \in Seq(BookingsOf(X)) /\ Len(booking') \in Nat
        /\ DOMAIN booking' = 1 .. Len(booking')
    BY <2>1, <2>2, SeqDef, LenProperties
  <2>4. Len(booking') = Len(booking)
    BY <2>1, <2>2, <2>3
  <2> QED
    BY <1>2, <1>3, <2>1, <2>2, <2>3, <2>4 DEF BookingIds
<1>7. Kept /\ BookingIds' = BookingIds
  BY <1>4, <1>6 DEF Kept, BookingIds
<1>8. Dated' /\ Len(booking)' <= MaxBookings
  BY <1>6, <1>7 DEF Dated, CabinsInv, Kept
<1>9. ConfirmedIds' = IF req[p].status = "CONFIRMED"
                      THEN ConfirmedIds \cup {b} ELSE ConfirmedIds \ {b}
  BY <1>3, <1>4, <1>6, <1>7 DEF ConfirmedIds, BookingIds
<1>10. Shapes'
  <2> DEFINE Z == X \cup {0, Undefined}
  <2>1. booking' \in Seq(BookingsOf(Z)) /\ req \in [Clients -> CallsOf(Z)]
    BY <1>1, <1>6, MoreCosts
  <2>2. Idle \in CallsOf(Z)
    BY IdleShape, MoreCosts
  <2>3. req' \in [Clients -> CallsOf(Z)]
    BY <1>2, <2>1, <2>2
  <2> QED
    BY <2>1, <2>3 DEF Shapes
<1>11. \A q \in Clients : req'[q] = IF q = p THEN Idle ELSE req[q]
  BY <1>1, <1>2
<1> QED
  BY <1>3, <1>7, <1>8, <1>9, <1>10, <1>11

\* The one confirmer's write takes days that are free.
LEMMA UpdateKeeps ==
    ASSUME NEW r \in Admins, CabinsInv(r), NEW p \in Admins, UpdateBooking(p)
    PROVE  CabinsInv(r)'
<1>0. p \in Clients /\ r \in Clients /\ Idle.pc = "idle" /\ req[p].pc = "write"
  BY DEF Clients, Idle, UpdateBooking
<1> DEFINE b == req[p].booking
<1>1. CASE req[p].status # "CONFIRMED"
  BY <1>0, <1>1, UpdateWrites, ReleaseKeeps
<1>2. CASE req[p].status = "CONFIRMED"
  <2>1. p = r
    BY <1>0, <1>2 DEF CabinsInv, CallFits
  <2>2. /\ Kept /\ Shapes' /\ Dated' /\ Len(booking)' <= MaxBookings
        /\ BookingIds' = BookingIds /\ b \in BookingIds
        /\ ConfirmedIds' = ConfirmedIds \cup {b}
        /\ \A q \in Clients : req'[q] = IF q = p THEN Idle ELSE req[q]
    BY <1>2, UpdateWrites
  <2>3. \A x \in ConfirmedIds : ~Overlap(booking[x], booking[b])
    BY <1>0, <1>2, <2>1 DEF CabinsInv, Confirming
  <2>4. \A x, y \in BookingIds :
            (Overlap(booking[x], booking[y]) <=> Overlap(booking'[x], booking'[y]))
            /\ (Overlap(booking[x], booking[y]) <=> Overlap(booking[y], booking[x]))
    BY <2>2 DEF Kept, Overlap
  <2>5. ConfirmedDoNotOverlap'
    BY <2>2, <2>3, <2>4 DEF ConfirmedDoNotOverlap, CabinsInv, ConfirmedIds
  <2>6. ASSUME NEW q \in Clients PROVE CallFits(r, q, req[q])'
    <3>1. CallFits(r, q, req'[q])
      BY <1>0, <2>2 DEF CabinsInv, CallFits
    <3> QED
      BY <2>2, <3>1 DEF CallFits
  <2>7. Confirming(req[r])'
    BY <1>0, <2>1, <2>2 DEF Confirming
  <2> QED
    BY <2>2, <2>5, <2>6, <2>7 DEF CabinsInv
<1> QED
  BY <1>1, <1>2

-----------------------------------------------------------------------------
(* Confirmed bookings are apart *)

\* Every step keeps the invariant.
LEMMA CabinsStep ==
    ASSUME NEW r \in Admins, OneConfirmer(r), CabinsInv(r), [Next]_vars
    PROVE  CabinsInv(r)'
<1>1. ASSUME UNCHANGED <<booking, req>> PROVE CabinsInv(r)'
  BY <1>1 DEF CabinsInv, Shapes, Dated, ConfirmedDoNotOverlap, ConfirmedIds, BookingIds,
              CallFits, Confirming, StayOf
<1>2. CASE UNCHANGED vars
  BY <1>1, <1>2 DEF vars, rows
<1>3. ASSUME NEW p \in Bookers, Booker(p) PROVE CabinsInv(r)'
  <2>1. p \in Clients
    BY DEF Clients
  <2> QED
    BY <1>3, <2>1, BookerReads, CreateKeeps, ReadingKeeps DEF Booker, BookerContinues
<1>4. ASSUME NEW p \in Admins, Admin(p) PROVE CabinsInv(r)'
  <2>1. p \in Clients
    BY DEF Clients
  <2> QED
    BY <1>4, <2>1, StatusReads, LookupReads, ConfirmationReads, AdminReads, UpdateKeeps,
       ReadingKeeps DEF Admin, AdminContinues
<1>5. ASSUME NEW p \in Clients, CallFails(p) PROVE CabinsInv(r)'
  BY <1>5, ReturnReads, ReadingKeeps DEF CallFails, Return, Goto, rows
<1>6. CASE MailWorker \/ Upload \/ Tick
  BY <1>1, <1>6 DEF MailWorker, TakeReceiptJob, SendReceipt, Upload, Tick, rows
<1> QED
  BY <1>2, <1>3, <1>4, <1>5, <1>6 DEF Next

\* It holds at first if the bookings in the database are apart.
LEMMA CabinsInit ==
    ASSUME NEW r \in Admins, StartsApart, Init
    PROVE  CabinsInv(r)
<1>1. InitialBookings \in Seq(BookingRows) /\ Len(InitialBookings) <= MaxBookings
  BY BookingsAssumption
<1>2. Shapes
  <2>1. BookingRows = BookingsOf(Nat)
    BY DEF BookingRows, BookingsOf
  <2> DEFINE Z == Nat \cup {0, Undefined}
  <2>2. booking \in Seq(BookingsOf(Z))
    BY <1>1, <2>1, MoreCosts DEF Init
  <2>3. req \in [Clients -> CallsOf(Z)]
    BY IdleShape, MoreCosts DEF Init
  <2> QED
    BY <2>2, <2>3 DEF Shapes
<1>3. \A p \in Clients : req[p] = Idle /\ Idle.pc = "idle"
  BY DEF Init, Idle
<1>4. \A p \in Clients : CallFits(r, p, req[p])
  BY <1>3 DEF CallFits
<1>5. Confirming(req[r])
  BY <1>3 DEF Confirming, Clients
<1>6. Dated /\ ConfirmedDoNotOverlap
  BY DEF Init, StartsApart, Dated, ConfirmedDoNotOverlap, ConfirmedIds, BookingIds
<1> QED
  BY <1>1, <1>2, <1>4, <1>5, <1>6 DEF CabinsInv, Init

\* No two confirmed bookings share a day of a cabin, as long as one client
\* alone confirms: for any cabins, days, bookings and other clients.
THEOREM OneConfirmerKeepsApart ==
    ASSUME NEW r \in Admins, OneConfirmer(r), StartsApart
    PROVE  Spec => []ConfirmedDoNotOverlap
<1>1. Init => CabinsInv(r)
  BY CabinsInit
<1>2. CabinsInv(r) /\ [Next]_vars => CabinsInv(r)'
  BY CabinsStep
<1>3. CabinsInv(r) => ConfirmedDoNotOverlap
  BY DEF CabinsInv
<1> QED
  BY <1>1, <1>2, <1>3, PTL DEF Spec

-----------------------------------------------------------------------------
(* The bookings implement CabinReservations *)

Cells == Cabins \X Days
Chosen(S) == IF S = {} THEN 0 ELSE CHOOSE b \in S : TRUE
Holder == [x \in Cells |-> Chosen(HoldersOf(x))]

\* What is chosen of at most one.
LEMMA ChosenIs == Chosen({}) = 0 /\ \A a : Chosen({a}) = a
  BY DEF Chosen

\* A day of a cabin has one holder.
LEMMA OneHolder ==
    ASSUME Shapes, ConfirmedDoNotOverlap, NEW x \in Cells, NEW b \in HoldersOf(x)
    PROVE  /\ HoldersOf(x) = {b} /\ Holder[x] = b /\ b \in BookingIds
           /\ Covers(booking[b], x)
<1>1. ASSUME NEW a \in HoldersOf(x) PROVE a = b
  <2>1. /\ a \in BookingIds /\ b \in BookingIds
        /\ Covers(booking[a], x) /\ Covers(booking[b], x)
        /\ a \in ConfirmedIds /\ b \in ConfirmedIds
    BY DEF HoldersOf, ConfirmedIds
  <2>2. /\ x[2] \in Nat /\ booking[a].start \in Nat /\ booking[a].end \in Nat
        /\ booking[b].start \in Nat /\ booking[b].end \in Nat
    BY <2>1, BookingShape, DaysAreNumbers DEF Cells
  <2>3. booking[a].start <= booking[b].end /\ booking[b].start <= booking[a].end
    BY <2>1, <2>2 DEF Covers
  <2>4. Overlap(booking[a], booking[b])
    BY <2>1, <2>3 DEF Overlap, Covers
  <2> QED
    BY <2>1, <2>4 DEF ConfirmedDoNotOverlap
<1>2. HoldersOf(x) = {b}
  BY <1>1
<1>3. Holder[x] = b
  BY <1>2, ChosenIs DEF Holder
<1> QED
  BY <1>2, <1>3 DEF HoldersOf, ConfirmedIds

\* Holders are bookings.
LEMMA HolderType ==
    ASSUME NEW r, CabinsInv(r)
    PROVE  Holder \in [Cells -> (1 .. MaxBookings) \cup {0}]
<1>1. ASSUME NEW x \in Cells, NEW b \in HoldersOf(x) PROVE Holder[x] \in 1 .. MaxBookings
  <2>1. Holder[x] = b /\ b \in BookingIds
    BY <1>1, OneHolder DEF CabinsInv
  <2>2. b \in Nat /\ b >= 1 /\ b <= Len(booking) /\ Len(booking) <= MaxBookings
        /\ Len(booking) \in Nat
    BY <2>1, BookingShape, LenProperties DEF CabinsInv, Shapes
  <2> QED
    BY <2>1, <2>2, BookingsAssumption
<1>2. ASSUME NEW x \in Cells, HoldersOf(x) = {} PROVE Holder[x] = 0
  BY <1>2, ChosenIs DEF Holder
<1>3. \A x \in Cells : Holder[x] \in (1 .. MaxBookings) \cup {0}
  BY <1>1, <1>2
<1> QED
  BY <1>3 DEF Holder

\* Steps that keep the confirmed bookings keep the holders.
LEMMA HolderStays ==
    ASSUME Kept, ConfirmedIds' = ConfirmedIds
    PROVE  Holder' = Holder
<1>1. \A x \in Cells : HoldersOf(x)' = HoldersOf(x)
  BY DEF HoldersOf, Kept, Covers, ConfirmedIds
<1> QED
  BY <1>1 DEF Holder

\* To confirm takes free days; any other status gives days back.
LEMMA UpdateMovesHolder ==
    ASSUME NEW r \in Admins, CabinsInv(r), NEW p \in Admins, UpdateBooking(p),
           NEW b, b = req[p].booking
    PROVE  \/ /\ \A x \in Cells : Holder[x] # b
              /\ \A x \in Cells : Holder'[x] # Holder[x] =>
                                      Holder[x] = 0 /\ Holder'[x] = b
           \/ /\ \A x \in Cells : Holder'[x] # Holder[x] =>
                                      Holder[x] = b /\ Holder'[x] = 0
              /\ \A x \in Cells : Holder'[x] # b
<1>0. p \in Clients /\ req[p].pc = "write"
  BY DEF Clients, UpdateBooking
<1>1. /\ Kept /\ BookingIds' = BookingIds /\ b \in BookingIds
      /\ ConfirmedIds' = IF req[p].status = "CONFIRMED"
                         THEN ConfirmedIds \cup {b} ELSE ConfirmedIds \ {b}
  BY UpdateWrites
<1>2. b \in Nat /\ b >= 1 /\ booking[b].start \in Nat /\ booking[b].end \in Nat
  BY <1>1, BookingShape, DaysAreNumbers DEF CabinsInv
<1>3. \A x \in Cells : HoldersOf(x) = {} => Holder[x] = 0
  BY ChosenIs DEF Holder
<1>4. \A x \in Cells : \A a \in HoldersOf(x) : HoldersOf(x) = {a} /\ Holder[x] = a
  BY OneHolder DEF CabinsInv
<1>5. ASSUME NEW x \in Cells
      PROVE  /\ HoldersOf(x)' = {} => Holder'[x] = 0
             /\ \A a : HoldersOf(x)' = {a} => Holder'[x] = a
             /\ HoldersOf(x)' = HoldersOf(x) => Holder'[x] = Holder[x]
  BY <1>5, ChosenIs DEF Holder
<1>6. \A x : HoldersOf(x)' = {a \in ConfirmedIds' : Covers(booking[a], x)}
  BY <1>1 DEF HoldersOf, Kept, Covers, ConfirmedIds
<1>7. CASE req[p].status = "CONFIRMED"
  <2>1. \A a \in ConfirmedIds : ~Overlap(booking[a], booking[b])
    BY <1>0, <1>7 DEF CabinsInv, CallFits, Confirming
  <2>2. ASSUME NEW x \in Cells, Covers(booking[b], x) PROVE HoldersOf(x) = {}
    <3>1. SUFFICES ASSUME NEW a \in HoldersOf(x) PROVE FALSE
      OBVIOUS
    <3>2. a \in ConfirmedIds /\ a \in BookingIds /\ Covers(booking[a], x)
      BY DEF HoldersOf, ConfirmedIds
    <3>3. x[2] \in Nat /\ booking[a].start \in Nat /\ booking[a].end \in Nat
      BY <3>2, BookingShape, DaysAreNumbers DEF Cells, CabinsInv
    <3>4. booking[a].start <= booking[b].end /\ booking[b].start <= booking[a].end
      BY <1>2, <2>2, <3>2, <3>3 DEF Covers
    <3>5. Overlap(booking[a], booking[b])
      BY <2>2, <3>2, <3>4 DEF Overlap, Covers
    <3> QED
      BY <2>1, <3>2, <3>5
  <2>3. ASSUME NEW x \in Cells PROVE Holder[x] # b
    <3>1. b \notin HoldersOf(x)
      BY <2>2 DEF HoldersOf
    <3> QED
      BY <1>2, <1>3, <1>4, <3>1
  <2>4. ASSUME NEW x \in Cells
        PROVE  Holder'[x] # Holder[x] => Holder[x] = 0 /\ Holder'[x] = b
    <3>1. CASE Covers(booking[b], x)
      <4>1. HoldersOf(x) = {} /\ Holder[x] = 0
        BY <1>3, <2>2, <3>1
      <4>2. HoldersOf(x)' = {b}
        BY <1>1, <1>6, <1>7, <3>1, <4>1 DEF HoldersOf
      <4> QED
        BY <1>5, <4>1, <4>2
    <3>2. CASE ~Covers(booking[b], x)
      <4>1. HoldersOf(x)' = HoldersOf(x)
        BY <1>1, <1>6, <1>7, <3>2 DEF HoldersOf
      <4> QED
        BY <1>5, <4>1
    <3> QED
      BY <3>1, <3>2
  <2> QED
    BY <2>3, <2>4
<1>8. CASE req[p].status # "CONFIRMED"
  <2>1. \A x : HoldersOf(x)' = HoldersOf(x) \ {b}
    BY <1>1, <1>6, <1>8 DEF HoldersOf
  <2>2. ASSUME NEW x \in Cells
        PROVE  /\ Holder'[x] # Holder[x] => Holder[x] = b /\ Holder'[x] = 0
               /\ Holder'[x] # b
    <3>1. CASE HoldersOf(x) = {}
      <4>1. HoldersOf(x)' = {}
        BY <2>1, <3>1
      <4> QED
        BY <1>2, <1>3, <1>5, <3>1, <4>1
    <3>2. ASSUME NEW a \in HoldersOf(x)
          PROVE  /\ Holder'[x] # Holder[x] => Holder[x] = b /\ Holder'[x] = 0
                 /\ Holder'[x] # b
      <4>1. HoldersOf(x) = {a} /\ Holder[x] = a
        BY <1>4
      <4>2. CASE a = b
        <5>1. HoldersOf(x)' = {}
          BY <2>1, <4>1, <4>2
        <5> QED
          BY <1>2, <1>5, <4>1, <4>2, <5>1
      <4>3. CASE a # b
        <5>1. HoldersOf(x)' = {a}
          BY <2>1, <4>1, <4>3
        <5> QED
          BY <1>5, <4>1, <4>3, <5>1
      <4> QED
        BY <4>2, <4>3
    <3> QED
      BY <3>1, <3>2
  <2> QED
    BY <2>2
<1> QED
  BY <1>7, <1>8

\* Every step is a step of CabinReservations, or a stutter.
LEMMA ReservationsStep ==
    ASSUME NEW r \in Admins, OneConfirmer(r), CabinsInv(r), CabinsInv(r)', [Next]_vars
    PROVE  Reservations!Next \/ Holder' = Holder
<1>1. ASSUME UNCHANGED booking PROVE Holder' = Holder
  BY <1>1 DEF Holder, HoldersOf, ConfirmedIds, BookingIds, Covers
<1>2. ASSUME NEW p \in Admins, UpdateBooking(p) PROVE Reservations!Next
  <2>1. PICK b : b = req[p].booking
    OBVIOUS
  <2>2. b \in 1 .. MaxBookings
    <3>1. b \in BookingIds
      BY <1>2, <2>1, UpdateWrites
    <3>2. b \in Nat /\ b >= 1 /\ b <= Len(booking) /\ Len(booking) <= MaxBookings
          /\ Len(booking) \in Nat
      BY <3>1, BookingShape, LenProperties DEF CabinsInv, Shapes
    <3> QED
      BY <3>2, BookingsAssumption
  <2>3. Holder \in [Cells -> (1 .. MaxBookings) \cup {0}]
        /\ Holder' \in [Cells -> (1 .. MaxBookings) \cup {0}]
    <3>1. Holder \in [Cells -> (1 .. MaxBookings) \cup {0}]
      BY HolderType
    <3>2. (Holder \in [Cells -> (1 .. MaxBookings) \cup {0}])'
      BY HolderType, PTL
    <3> QED
      BY <3>1, <3>2
  <2>4. \/ /\ \A x \in Cells : Holder[x] # b
           /\ \A x \in Cells : Holder'[x] # Holder[x] =>
                                   Holder[x] = 0 /\ Holder'[x] = b
        \/ /\ \A x \in Cells : Holder'[x] # Holder[x] =>
                                   Holder[x] = b /\ Holder'[x] = 0
           /\ \A x \in Cells : Holder'[x] # b
    BY <1>2, <2>1, UpdateMovesHolder
  <2>5. Reservations!Take(b) \/ Reservations!Release(b)
    BY <2>4 DEF Reservations!Take, Reservations!Release, Reservations!Moved, Holder, Cells, Chosen
  <2> QED
    BY <2>2, <2>3, <2>5 DEF Reservations!Next, Holder, Cells, Chosen
<1>3. CASE UNCHANGED vars
  BY <1>1, <1>3 DEF vars, rows
<1>4. ASSUME NEW p \in Bookers, Booker(p) PROVE Holder' = Holder
  <2>1. UNCHANGED booking \/ CreateBooking(p)
    BY <1>4, BookerReads DEF Booker, BookerContinues, Reading
  <2> QED
    BY <1>1, <2>1, CreateKeeps, HolderStays
<1>5. ASSUME NEW p \in Admins, Admin(p) PROVE UNCHANGED booking \/ UpdateBooking(p)
  BY <1>5, StatusReads, LookupReads, ConfirmationReads, AdminReads
     DEF Admin, AdminContinues, Reading
<1>6. ASSUME NEW p \in Clients, CallFails(p) PROVE UNCHANGED booking
  BY <1>6 DEF CallFails, rows
<1>7. CASE MailWorker \/ Upload \/ Tick
  BY <1>1, <1>7 DEF MailWorker, TakeReceiptJob, SendReceipt, Upload, Tick, rows
<1> QED
  BY <1>1, <1>2, <1>3, <1>4, <1>5, <1>6, <1>7 DEF Next

\* As long as one client alone confirms, the bookings of the cabins are
\* reservations: whatever is confirmed takes days that are free, all of them
\* at once, and whatever is given another status gives all of them back.
THEOREM OneConfirmerReserves ==
    ASSUME NEW r \in Admins, OneConfirmer(r), StartsApart
    PROVE  Spec => ImplementsReservations
<1>1. Spec => []CabinsInv(r)
  <2>1. Init => CabinsInv(r)
    BY CabinsInit
  <2>2. CabinsInv(r) /\ [Next]_vars => CabinsInv(r)'
    BY CabinsStep
  <2> QED
    BY <2>1, <2>2, PTL DEF Spec
<1>2. Init => Reservations!Init
  <2>1. Init => Holder \in [Cells -> (1 .. MaxBookings) \cup {0}]
    BY CabinsInit, HolderType
  <2> QED
    BY <2>1 DEF Reservations!Init, Holder, Cells, Chosen
<1>3. CabinsInv(r) /\ CabinsInv(r)' /\ [Next]_vars =>
          [Reservations!Next]_[x \in Cabins \X Days |->
                       IF HoldersOf(x) = {} THEN 0
                       ELSE CHOOSE b \in HoldersOf(x) : TRUE]
  <2>1. CabinsInv(r) /\ CabinsInv(r)' /\ [Next]_vars =>
            Reservations!Next \/ Holder' = Holder
    BY ReservationsStep
  <2> QED
    BY <2>1 DEF Holder, Cells, Chosen
<1> QED
  BY <1>1, <1>2, <1>3, PTL DEF Spec, ImplementsReservations, Reservations!Spec
=============================================================================
