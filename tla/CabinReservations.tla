-------------------------- MODULE CabinReservations --------------------------
(***************************************************************************)
(* What the bookings of the cabins promise: a night and day of a cabin has *)
(* at most one holder, a confirmed booking holds all its days or none, and *)
(* it only takes days that are free.                                       *)
(***************************************************************************)
EXTENDS Integers

CONSTANTS Cells,    \* a day of a cabin
          Holders,  \* numbers of bookings
          Nobody

VARIABLE holder

Moved == {x \in Cells : holder'[x] # holder[x]}

Init == holder \in [Cells -> Holders \cup {Nobody}]

Take(b) ==
    /\ \A x \in Cells : holder[x] # b
    /\ \A x \in Moved : holder[x] = Nobody /\ holder'[x] = b

Release(b) ==
    /\ \A x \in Moved : holder[x] = b /\ holder'[x] = Nobody
    /\ \A x \in Cells : holder'[x] # b

Next ==
    /\ holder' \in [Cells -> Holders \cup {Nobody}]
    /\ \E b \in Holders : Take(b) \/ Release(b)

Spec == Init /\ [][Next]_holder
=============================================================================
