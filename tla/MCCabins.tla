------------------------------ MODULE MCCabins ------------------------------
(***************************************************************************)
(* Instances of CabinBookings for TLC.                                     *)
(***************************************************************************)
EXTENDS CabinBookingsProperties, TLC

CONSTANTS c1, c2, b1, a1, a2

Row(capacity, price) ==
    [capacity |-> capacity, internalPrice |-> price,
     externalPrice |-> 2 * price, internalPriceWeekend |-> price + 1,
     externalPriceWeekend |-> 2 * price + 1]
Party(internal, external) == [internal |-> internal, external |-> external]
StayFor(first, last, cabins, guests) ==
    [start |-> first, end |-> last, cabins |-> cabins, guests |-> guests]
BookingFor(first, last, cabins, status) ==
    [start |-> first, end |-> last, cabins |-> cabins,
     guests |-> Party(1, 0), status |-> status, totalCost |-> 1]
Term(first, last, enabled) ==
    [startAt |-> first, endAt |-> last, bookingsEnabled |-> enabled]
Change(s, first, last, enabled) ==
    [semester |-> s, startAt |-> first, endAt |-> last,
     bookingsEnabled |-> enabled]

\* A week, Tuesday to Sunday.
Week == 2 .. 7
Defaults == [s \in Semesters |->
                IF s = "SPRING" THEN [startAt |-> 2, endAt |-> 4]
                ELSE [startAt |-> 5, endAt |-> 7]]
OneTerms == <<1>>
NoStatus == [a \in Admins |-> {}]
NothingFor == [a \in Admins |-> {}]
NoTerms == [a \in Admins |-> FALSE]

-----------------------------------------------------------------------------
(* cabins: one admin confirms and cancels; another one cancels, opens and   *)
(* closes semesters, changes and creates cabins, renews the terms           *)

CabinsRows == (c1 :> Row(2, 1)) @@ (c2 :> NoRow)
CabinsSemesters == [s \in Semesters |->
                       IF s = "SPRING" THEN Term(2, 4, TRUE) ELSE NoRow]
CabinsBookings == <<BookingFor(3, 4, {c1}, "PENDING"),
                    BookingFor(2, 3, {c1, c2}, "CANCELLED")>>
CabinsBook == {StayFor(4, 6, {c1}, Party(1, 1)),
               StayFor(3, 4, {c1, c2}, Party(1, 2))}
CabinsStatus == (a1 :> {"CONFIRMED", "PENDING"}) @@ (a2 :> {"CANCELLED"})
CabinsSetSemester ==
    (a1 :> {}) @@
    (a2 :> {Change("FALL", Undefined, Undefined, TRUE),
            Change("FALL", 4, Undefined, TRUE),
            Change("FALL", 6, Null, TRUE),
            Change("SPRING", 3, 2, Undefined)})
CabinsCreate == (a1 :> {}) @@ (a2 :> {Row(1, 2)})
CabinsUpdate ==
    (a1 :> {}) @@
    (a2 :> {[id |-> c1, capacity |-> 1, internalPrice |-> 3,
             externalPrice |-> Undefined, internalPriceWeekend |-> Undefined,
             externalPriceWeekend |-> Undefined]})
CabinsContact == (a1 :> {}) @@ (a2 :> {"contact"})
CabinsCalls == (b1 :> 1) @@ (a1 :> 3) @@ (a2 :> 1)
CabinsTerms == (a1 :> FALSE) @@ (a2 :> TRUE)

-----------------------------------------------------------------------------
(* double_booking: two admins confirm                                       *)

FullWeek == [s \in Semesters |->
                IF s = "SPRING" THEN Term(2, 7, TRUE) ELSE NoRow]
BothStatus == [a \in Admins |-> {"CONFIRMED"}]

=============================================================================
