---------------------------- MODULE CabinCalendar ----------------------------
(***************************************************************************)
(* The calendar of the cabins: which days may be booked and what they      *)
(* cost (the private methods of CabinService,                              *)
(* src/src/services/cabins/service.ts).                                    *)
(*                                                                         *)
(* Times are days.  A stay covers the days start..end, both included: the  *)
(* code stores the start of the first and the end of the last one.  An     *)
(* interval is half-open, as in luxon, so its end is the day after.        *)
(***************************************************************************)
EXTENDS Integers, FiniteSetsExt

CONSTANTS
    Cabins,      \* the ids a cabin may have
    Days         \* the days the model looks at; day 1 is a Monday

ASSUME CalendarAssumption ==
    /\ IsFiniteSet(Cabins)
    /\ Days \subseteq Nat /\ IsFiniteSet(Days)

Interval(first, last) == [start |-> first, end |-> last + 1]
Intervals == {Interval(first, last) : first, last \in Days}
Contains(i, d) == i.start <= d /\ d < i.end
Engulfs(i, stay) == i.start <= stay.start /\ stay.end < i.end

\* The dates of a booking request and what else its validation looks at.
Guests == [internal : Nat, external : Nat]
Stays == [start : Days, end : Days, cabins : SUBSET Cabins, guests : Guests]

MinimumBookingDurationDays == 2
IsIntervalGteMinimumDays(i) == i.end - i.start >= MinimumBookingDurationDays

-----------------------------------------------------------------------------
(* Where bookings are allowed *)

\* Interval.merge of the at most two semesters: they become one only if they
\* share a day, because the last day ends a millisecond before the next.
Merge(is) ==
    IF \A i, j \in is : i.start < j.end
    THEN {[start |-> Min({j.start : j \in is}),
           end |-> Max({j.end : j \in is})] : i \in is}
    ELSE is

\* Mutant of BookableDateIntervals: semesters are merged after their ends
\* were moved to the next day.
BookableMergedLate(semesters, today) ==
    LET open == {Interval(Max({s.startAt, today + 1}), s.endAt) :
                    s \in {s \in semesters : /\ s.bookingsEnabled
                                             /\ s.startAt <= s.endAt
                                             /\ today + 1 <= s.endAt}}
    IN  IF \A i, j \in open : i.start <= j.end
        THEN {[start |-> Min({j.start : j \in open}),
               end |-> Max({j.end : j \in open})] : i \in open}
        ELSE open
BookableDateIntervals(semesters, today) ==
    Merge({Interval(Max({s.startAt, today + 1}), s.endAt) :
              s \in {s \in semesters : /\ s.bookingsEnabled
                                       /\ s.startAt <= s.endAt
                                       /\ today + 1 <= s.endAt}})

\* Mutant of OccupiedDateIntervals: the end is not moved to the next day.
OccupiedNights(bookings, c) ==
    {Interval(b.start, b.end - 1) :
        b \in {b \in bookings : b.status = "CONFIRMED" /\ c \in b.cabins}}
\* The confirmed bookings of one cabin.
OccupiedDateIntervals(bookings, c) ==
    {Interval(b.start, b.end) :
        b \in {b \in bookings : b.status = "CONFIRMED" /\ c \in b.cabins}}

IsDateAvailable(d, occupied) == \A o \in occupied : ~Contains(o, d)

\* What is left of the bookable intervals without the occupied days: the
\* runs of free days that end at an occupied day or at the end of a bookable
\* interval.  Runs that are too short are dropped.
ValidBookingIntervals(bookable, occupied) ==
    {i \in Intervals :
        /\ IsIntervalGteMinimumDays(i)
        /\ \A d \in Days : Contains(i, d) => IsDateAvailable(d, occupied)
        /\ \E b \in bookable :
              /\ b.start <= i.start /\ i.end <= b.end
              /\ i.start = b.start \/ ~IsDateAvailable(i.start - 1, occupied)
              /\ i.end = b.end \/ ~IsDateAvailable(i.end, occupied)}

IsDateBookable(d, valid) == \E i \in valid : Contains(i, d)

IsBookingIntervalAvailable(stay, valid) == \E i \in valid : Engulfs(i, stay)

IsOnlyAvailableForCheckIn(d, valid) == \E i \in valid : i.start = d
\* Mutant of IsOnlyAvailableForCheckOut: the end is compared with the day.
EndsOnDay(d, valid) == \E i \in valid : i.end = d
IsOnlyAvailableForCheckOut(d, valid) == \E i \in valid : i.end = d + 1

-----------------------------------------------------------------------------
(* Prices.  row[c] is the row of cabin c. *)

Weekday(d) == ((d - 1) % 7) + 1

IsInternalPrice(guests) == guests.internal >= guests.external

GetPrice(row, cabins, guests, d) ==
    LET weekendNight == Weekday(d) \in {5, 6}
        price(c) ==
            CASE IsInternalPrice(guests) /\ weekendNight ->
                    row[c].internalPriceWeekend
              [] IsInternalPrice(guests) /\ ~weekendNight ->
                    row[c].internalPrice
              [] ~IsInternalPrice(guests) /\ weekendNight ->
                    row[c].externalPriceWeekend
              [] ~IsInternalPrice(guests) /\ ~weekendNight ->
                    row[c].externalPrice
    IN  MapThenSumSet(price, cabins)

\* The cost of a booking.  Its last day ends at 23:59:59.999, so splitBy
\* yields a piece for the day of departure too.
TotalCost(row, stay) ==
    LET price(d) == GetPrice(row, stay.cabins, stay.guests, d)
    IN  MapThenSumSet(price, {d \in Days : stay.start <= d /\ d <= stay.end})

-----------------------------------------------------------------------------
(* The calendar that is shown, and the validation of a booking *)

CalendarDay(d, valid, occupied, row, cabins, guests) ==
    [available |-> IsDateAvailable(d, occupied),
     bookable |-> IsDateBookable(d, valid),
     availableForCheckIn |-> IsOnlyAvailableForCheckIn(d, valid),
     availableForCheckOut |-> IsOnlyAvailableForCheckOut(d, valid),
     price |-> GetPrice(row, cabins, guests, d)]

Capacity(row, cabins) ==
    LET capacity(c) == row[c].capacity IN MapThenSumSet(capacity, cabins)

\* validateBooking.  The contact data are left out.
ValidateBooking(stay, capacity, valid, today) ==
    /\ today <= stay.start /\ today <= stay.end
    /\ stay.cabins # {}
    /\ stay.start <= stay.end
    /\ IsIntervalGteMinimumDays(Interval(stay.start, stay.end))
    /\ IsDateBookable(stay.start, valid)
    /\ IsDateBookable(stay.end, valid)
    /\ IsBookingIntervalAvailable(stay, valid)
    /\ stay.guests.internal + stay.guests.external <= capacity

=============================================================================
