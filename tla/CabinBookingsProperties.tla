---------------------- MODULE CabinBookingsProperties ----------------------
(***************************************************************************)
(* What CabinBookings should guarantee.                                    *)
(***************************************************************************)
EXTENDS CabinBookings

WorkerStates == [pc : {"idle", "download"}, booking : Nat, file : Nat]

\* Every variable has its type.
CabinsTypeOK ==
    /\ today \in Nat
    /\ cabin \in [Cabins -> CabinRows \cup {NoRow}]
    /\ semester \in [Semesters -> SemesterRows \cup {NoRow}]
    /\ booking \in Seq(BookingRows)
    /\ terms \in Seq(Nat) /\ files \in Nat
    /\ uploaded \subseteq Nat /\ emails \subseteq Nat
    /\ receipts \subseteq Nat /\ failed \subseteq Nat
    /\ unannounced \subseteq Nat
    /\ worker \in WorkerStates
    /\ req \in [Clients -> Calls]
    /\ calls \in [Clients -> Nat]

-----------------------------------------------------------------------------
(* Confirmed bookings *)

Overlap(a, b) ==
    /\ a.cabins \cap b.cabins # {}
    /\ a.start <= b.end /\ b.start <= a.end
ConfirmedIds == {b \in BookingIds : booking[b].status = "CONFIRMED"}

\* No two confirmed bookings share a day of a cabin: the check and the write
\* of updateBookingStatus are apart, and the write has no condition.
ConfirmedDoNotOverlap ==
    \A a, b \in ConfirmedIds : a # b => ~Overlap(booking[a], booking[b])

Covers(b, x) == x[1] \in b.cabins /\ b.start <= x[2] /\ x[2] <= b.end
HoldersOf(x) == {b \in ConfirmedIds : Covers(booking[b], x)}

Reservations ==
    INSTANCE CabinReservations
    WITH Cells <- Cabins \X Days, Holders <- 1 .. MaxBookings, Nobody <- 0,
         holder <- [x \in Cabins \X Days |->
                       IF HoldersOf(x) = {} THEN 0
                       ELSE CHOOSE b \in HoldersOf(x) : TRUE]

\* The bookings implement CabinReservations: to confirm takes free days of
\* the cabins, and any other status gives them back.
ImplementsReservations == Reservations!Spec

-----------------------------------------------------------------------------
(* The calendar against what is accepted, for all cabins and stays *)

Occupied(cabins) == UNION {OccupiedDateIntervals(BookingSet, c) : c \in cabins}
Stay(first, last, cabins) ==
    [start |-> first, end |-> last, cabins |-> cabins,
     guests |-> [internal |-> 0, external |-> 0]]
Accepted(first, last, cabins, valid) ==
    ValidateBooking(Stay(first, last, cabins), 0, valid, today)

HeldBy(d, cabins) ==
    \E b \in ConfirmedIds : \E c \in cabins : Covers(booking[b], <<c, d>>)
OpenSemesters == {s \in SemesterSet : s.bookingsEnabled}

\* A booking is accepted if and only if it begins after today and ends on a
\* later day, none of its days is held by a confirmed booking of one of its
\* cabins, and it never leaves the semesters that are open: each of its nights
\* lies within one of them.  What getValidBookingIntervals merges, shifts by a
\* day and cuts amounts to that, in every state that can be reached.
AcceptsExactlyFreeStays ==
    \A cabins \in (SUBSET Cabins) \ {{}} :
        LET valid == Valid(Occupied(cabins))
            free == {d \in Days : ~HeldBy(d, cabins)}
            nights == {d \in Days :
                          \E s \in OpenSemesters : s.startAt <= d /\ d < s.endAt}
        IN  \A first, last \in Days :
                Accepted(first, last, cabins, valid) <=>
                    /\ today < first /\ first < last
                    /\ first .. last \subseteq free
                    /\ first .. last - 1 \subseteq nights

\* The availability calendar is right about what newBooking would accept now:
\* a day is bookable if some stay that is accepted covers it; it is marked for
\* check-in if such stays can only begin on it, and for check-out if they
\* can only end on it.
CalendarShowsWhatIsAccepted ==
    \A cabins \in (SUBSET {c \in Cabins : cabin[c] # NoRow}) \ {{}} :
        LET occupied == Occupied(cabins)
            valid == Valid(occupied)
            accepted == {i \in Intervals :
                            Accepted(i.start, i.end - 1, cabins, valid)}
        IN  \A d \in Days :
            LET day == CalendarDay(d, valid, occupied, cabin, cabins,
                                   [internal |-> 0, external |-> 0])
                covering == {i \in accepted : Contains(i, d)}
            IN
            /\ day.bookable <=> covering # {}
            /\ day.availableForCheckIn <=>
                  day.bookable /\ \A i \in covering : i.start = d
            /\ day.availableForCheckOut <=>
                  day.bookable /\ \A i \in covering : i.end = d + 1
            /\ day.bookable => day.available

-----------------------------------------------------------------------------
(* Receipts *)

NewBookings == Len(InitialBookings) + 1 .. MaxBookings

\* Whoever books is told: a receipt is sent for every booking that is
\* created, unless the process dies before it has added the job, or the job
\* finds no file of the booking terms.
ReceiptIsSent ==
    \A b \in NewBookings :
        b \in BookingIds ~> b \in receipts \cup failed \cup unannounced

=============================================================================
