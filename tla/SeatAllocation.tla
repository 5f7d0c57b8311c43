--------------------------- MODULE SeatAllocation ---------------------------
(***************************************************************************)
(* What the sign-up component promises, without its database: an event has *)
(* a number of seats, each of its slots has a number of seats, and a user  *)
(* is out, on the wait list, or holds one seat of one slot.  A seat of an  *)
(* event is granted only while the event and the slot both have a free     *)
(* one, to one user at a time, and the organiser never shrinks an event or *)
(* a slot below the seats already granted.  EventSignUps implements this   *)
(* specification; concurrency control, retries, stale reads and the job    *)
(* queue are invisible at this level.                                      *)
(***************************************************************************)
EXTENDS Integers, FiniteSets

CONSTANTS Users, Slots, Out, Waiting

VARIABLES capacity, slotCapacity, place

vars == <<capacity, slotCapacity, place>>

Places == Slots \cup {Out, Waiting}

Seated(pl) == {u \in Users : pl[u] \in Slots}
SeatedIn(pl, s) == {u \in Users : pl[u] = s}

WithinCapacity(cap, slotCap, pl) ==
    /\ Cardinality(Seated(pl)) <= cap
    /\ \A s \in Slots : Cardinality(SeatedIn(pl, s)) <= slotCap[s]

Init ==
    /\ capacity \in Nat
    /\ slotCapacity \in [Slots -> Nat]
    /\ place \in [Users -> Places]
    /\ WithinCapacity(capacity, slotCapacity, place)

\* A user who is out or on the wait list is given a free seat of slot s.
Grant(u, s) ==
    /\ place[u] \in {Out, Waiting}
    /\ Cardinality(Seated(place)) < capacity
    /\ Cardinality(SeatedIn(place, s)) < slotCapacity[s]
    /\ place' = [place EXCEPT ![u] = s]
    /\ UNCHANGED <<capacity, slotCapacity>>

Queue(u) ==
    /\ place[u] = Out
    /\ place' = [place EXCEPT ![u] = Waiting]
    /\ UNCHANGED <<capacity, slotCapacity>>

\* A user retracts or is removed, from a seat or from the wait list.
Leave(u) ==
    /\ place[u] # Out
    /\ place' = [place EXCEPT ![u] = Out]
    /\ UNCHANGED <<capacity, slotCapacity>>

\* The organiser edits the event and its slots: nobody's place changes.
Resize ==
    /\ capacity' \in Nat
    /\ slotCapacity' \in [Slots -> Nat]
    /\ WithinCapacity(capacity', slotCapacity', place)
    /\ UNCHANGED place

Next ==
    \/ \E u \in Users, s \in Slots : Grant(u, s)
    \/ \E u \in Users : Queue(u) \/ Leave(u)
    \/ Resize

Spec == Init /\ [][Next]_vars
=============================================================================
