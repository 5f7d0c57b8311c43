------------------------ MODULE SeatAllocation_proofs ------------------------
(***************************************************************************)
(* EventSignUps implements SeatAllocation, for any number of users, slots, *)
(* requests and workers.                                                   *)
(***************************************************************************)
EXTENDS EventSignUps_proofs

-----------------------------------------------------------------------------
(* The refinement mapping *)

\* A user has a seat in SeatAllocation exactly if the sign-up is CONFIRMED.
LEMMA PlaceOfRow ==
    ASSUME NEW row \in SignUpRows,
           row.status \in {"NONE", "CONFIRMED", "ON_WAITLIST"},
           row.status = "CONFIRMED" <=> row.slot # NoSlot
    PROVE  /\ row.status = "CONFIRMED" => PlaceOf(row) = row.slot /\ row.slot \in Slots
           /\ row.status = "ON_WAITLIST" => PlaceOf(row) = "WAITING"
           /\ row.status = "NONE" => PlaceOf(row) = "OUT"
           /\ PlaceOf(row) \in Slots \cup {"OUT", "WAITING"}
           /\ PlaceOf(row) \in Slots <=> row.status = "CONFIRMED"
           /\ PlaceOf(row) = "OUT" <=> row.status = "NONE"
  BY PlacesAssumption DEF PlaceOf, SignUpRows

\* The seats SeatAllocation counts are the confirmed sign-ups.
LEMMA SeatedAreConfirmed ==
    ASSUME TypeOK, RowsInv
    PROVE  /\ \A u \in Users : /\ Place[u] = PlaceOf(signUp[u])
                               /\ Place[u] \in Seats!Places
                               /\ Place[u] \in Slots <=> signUp[u].status = "CONFIRMED"
                               /\ Place[u] = "OUT" <=> signUp[u].status = "NONE"
           /\ Seats!Seated(Place) = Confirmed(signUp)
           /\ \A s \in Slots : Seats!SeatedIn(Place, s) = ConfirmedIn(signUp, s)
<1>1. ASSUME NEW u \in Users
      PROVE  /\ Place[u] = PlaceOf(signUp[u])
             /\ Place[u] \in Seats!Places
             /\ Place[u] \in Slots <=> signUp[u].status = "CONFIRMED"
             /\ Place[u] = "OUT" <=> signUp[u].status = "NONE"
             /\ signUp[u].status = "CONFIRMED" => Place[u] = signUp[u].slot
  BY PlaceOfRow DEF TypeOK, DatabaseTypeOK, RowsInv, Place, Seats!Places
<1>2. Seats!Seated(Place) = Confirmed(signUp)
  BY <1>1 DEF Seats!Seated, Confirmed
<1>3. ASSUME NEW s \in Slots
      PROVE  Seats!SeatedIn(Place, s) = ConfirmedIn(signUp, s)
  BY <1>1, <1>3 DEF Seats!SeatedIn, Confirmed, ConfirmedIn
<1> QED
  BY <1>1, <1>2, <1>3

\* SeatAllocation counts as EventSignUps does.
LEMMA SameCardinality == \A S : Seats!Cardinality(S) = Cardinality(S)
  BY DEF Seats!Cardinality, Cardinality

\* The accounts of the rows are the capacity limits of SeatAllocation.
LEMMA AccountsAreLimits ==
    TypeOK /\ DatabaseInv =>
       /\ event.capacity \in Nat /\ SlotCapacity \in [Slots -> Nat]
       /\ Seats!WithinCapacity(event.capacity, SlotCapacity, Place)
<1> SUFFICES ASSUME TypeOK, DatabaseInv
             PROVE  /\ event.capacity \in Nat /\ SlotCapacity \in [Slots -> Nat]
                    /\ Seats!WithinCapacity(event.capacity, SlotCapacity, Place)
  OBVIOUS
<1>1. event.capacity \in Nat /\ SlotCapacity \in [Slots -> Nat]
  BY NumbersOfSeats DEF SlotCapacity
<1>2. Cardinality(Confirmed(signUp)) <= event.capacity
  BY NumbersOfSeats DEF DatabaseInv, EventSeatsAccounted, EventSeats
<1>3. ASSUME NEW s \in Slots
      PROVE  Cardinality(ConfirmedIn(signUp, s)) <= SlotCapacity[s]
  BY NumbersOfSeats DEF DatabaseInv, SlotSeatsAccounted, SlotSeats, SlotCapacity
<1> QED
  BY <1>1, <1>2, <1>3, SeatedAreConfirmed, SameCardinality
     DEF DatabaseInv, Seats!WithinCapacity

\* The same after a step.
LEMMA AccountsStayLimits ==
    (TypeOK /\ DatabaseInv)' =>
       (/\ event.capacity \in Nat /\ SlotCapacity \in [Slots -> Nat]
        /\ Seats!WithinCapacity(event.capacity, SlotCapacity, Place))'
  BY AccountsAreLimits, PTL

\* A step that changes the row of one user changes the place of that user alone.
LEMMA OnePlaceChanges ==
    ASSUME NEW u \in Users, \A v \in Users \ {u} : signUp'[v] = signUp[v],
           NEW p, PlaceOf(signUp'[u]) = p
    PROVE  Place' = [Place EXCEPT ![u] = p]
  BY DEF Place

-----------------------------------------------------------------------------
(* Each write of the repository is a step of SeatAllocation *)

\* A confirmed sign-up, new or promoted, is granted the seat it takes.
LEMMA TakingIsGrant ==
    ASSUME TypeOK, DatabaseInv, TypeOK', DatabaseInv',
           NEW u \in Users, NEW s \in Slots, HasSeat(s), TakeSeat(s),
           signUp[u].status # "CONFIRMED",
           signUp'[u].status = "CONFIRMED", signUp'[u].slot = s,
           \A v \in Users \ {u} : signUp'[v] = signUp[v]
    PROVE  Seats!Next
<1>1. Place[u] \in {"OUT", "WAITING"}
  BY SeatedAreConfirmed DEF DatabaseInv, Seats!Places
<1>2. Cardinality(Confirmed(signUp)) < event.capacity
  BY NumbersOfSeats DEF HasSeat, DatabaseInv, EventSeatsAccounted, EventSeats
<1>3. Cardinality(ConfirmedIn(signUp, s)) < slot[s].capacity
  BY NumbersOfSeats DEF HasSeat, DatabaseInv, SlotSeatsAccounted, SlotSeats
<1>4. Place' = [Place EXCEPT ![u] = s]
  BY OnePlaceChanges DEF PlaceOf
<1>5. event'.capacity = event.capacity /\ SlotCapacity' = SlotCapacity
  BY TakeSeatFields DEF SlotCapacity
<1>6. SlotCapacity[s] = slot[s].capacity
  BY DEF SlotCapacity
<1>7. Seats!Grant(u, s)
  BY <1>1, <1>2, <1>3, <1>4, <1>5, <1>6, SeatedAreConfirmed, SameCardinality
     DEF DatabaseInv, Seats!Grant
<1> QED
  BY <1>7 DEF Seats!Next

\* createConfirmedSignUp grants a seat.
LEMMA CreateConfirmedGrants ==
    ASSUME TypeOK, DatabaseInv, TypeOK', DatabaseInv',
           NEW u \in Users, NEW s \in Slots, CreateConfirmedSignUp(u, s)
    PROVE  Seats!Next
<1>1. /\ signUp'[u].status = "CONFIRMED" /\ signUp'[u].slot = s
      /\ \A v \in Users \ {u} : signUp'[v] = signUp[v]
      /\ signUp[u].status # "CONFIRMED"
  BY NoRowType DEF TypeOK, DatabaseTypeOK, CreateConfirmedSignUp, NewSignUp, NoActiveSignUp
<1> QED
  BY <1>1, TakingIsGrant DEF CreateConfirmedSignUp

\* makeOnWaitlistSignUpConfirmed grants a seat to a user on the wait list.
LEMMA MakeConfirmedGrants ==
    ASSUME TypeOK, DatabaseInv, TypeOK', DatabaseInv',
           NEW u \in Users, NEW s \in Slots, NEW row \in SignUpRows,
           ReadEarlier(u, row), row.status = "ON_WAITLIST",
           MakeOnWaitlistSignUpConfirmed(u, row, s)
    PROVE  Seats!Next
<1>1. /\ signUp'[u].status = "CONFIRMED" /\ signUp'[u].slot = s
      /\ \A v \in Users \ {u} : signUp'[v] = signUp[v]
  BY DEF TypeOK, DatabaseTypeOK, SignUpRows, MakeOnWaitlistSignUpConfirmed
<1>2. signUp[u].status # "CONFIRMED"
  BY DEF MakeOnWaitlistSignUpConfirmed, Unchanged, ReadEarlier
<1> QED
  BY <1>1, <1>2, TakingIsGrant DEF MakeOnWaitlistSignUpConfirmed

\* createOnWaitlistSignUp queues the user.
LEMMA CreateOnWaitlistQueues ==
    ASSUME TypeOK, DatabaseInv, NEW u \in Users, CreateOnWaitlistSignUp(u)
    PROVE  Seats!Next
<1>1. /\ signUp'[u].status = "ON_WAITLIST"
      /\ \A v \in Users \ {u} : signUp'[v] = signUp[v]
      /\ signUp[u].status = "NONE"
  BY NoRowType DEF TypeOK, DatabaseTypeOK, CreateOnWaitlistSignUp, NewSignUp, NoActiveSignUp
<1>2. Place[u] = "OUT"
  BY <1>1, SeatedAreConfirmed DEF DatabaseInv
<1>3. Place' = [Place EXCEPT ![u] = "WAITING"]
  BY <1>1, OnePlaceChanges DEF PlaceOf
<1>4. event'.capacity = event.capacity /\ SlotCapacity' = SlotCapacity
  BY DEF TypeOK, DatabaseTypeOK, EventRows, CreateOnWaitlistSignUp, SlotCapacity
<1>5. Seats!Queue(u)
  BY <1>2, <1>3, <1>4 DEF Seats!Queue
<1> QED
  BY <1>5 DEF Seats!Next

\* makeActiveSignUpInactive lets the user go, from a seat or the wait list.
LEMMA MakeInactiveLeaves ==
    ASSUME TypeOK, DatabaseInv, NEW u \in Users, NEW row \in SignUpRows,
           ReadEarlier(u, row), NEW to, MakeActiveSignUpInactive(u, row, to)
    PROVE  Seats!Next
<1>1. /\ signUp'[u] = NoRow
      /\ \A v \in Users \ {u} : signUp'[v] = signUp[v]
  BY DEF TypeOK, DatabaseTypeOK, MakeActiveSignUpInactive, Deactivate
<1>2. signUp[u].status = row.status /\ signUp[u].slot = row.slot
  BY DEF MakeActiveSignUpInactive, Unchanged, ReadEarlier
<1>3. row.status \in {"ON_WAITLIST", "CONFIRMED"}
  BY DEF MakeActiveSignUpInactive
<1>4. Place[u] # "OUT"
  BY <1>2, <1>3, SeatedAreConfirmed DEF DatabaseInv
<1>5. Place' = [Place EXCEPT ![u] = "OUT"]
  BY <1>1, NoRowType, OnePlaceChanges DEF PlaceOf
<1>6. event'.capacity = event.capacity /\ SlotCapacity' = SlotCapacity
  <2>1. CASE UNCHANGED <<event, slot>>
    BY <2>1 DEF SlotCapacity
  <2>2. CASE row.status = "CONFIRMED" /\ FreeSeat(signUp[u].slot)
    <3>1. signUp[u].slot \in Slots
      BY <1>2, <2>2 DEF TypeOK, DatabaseTypeOK, SignUpRows, DatabaseInv, RowsInv
    <3> QED
      BY <2>2, <3>1, FreeSeatFields DEF SlotCapacity
  <2> QED
    BY <2>1, <2>2 DEF MakeActiveSignUpInactive
<1>7. Seats!Leave(u)
  BY <1>4, <1>5, <1>6 DEF Seats!Leave
<1> QED
  BY <1>7 DEF Seats!Next

\* A write that changes nobody's status or slot resizes the event, or nothing.
LEMMA SamePlacesResize ==
    ASSUME TypeOK', DatabaseInv',
           \A u \in Users : /\ signUp'[u].status = signUp[u].status
                            /\ signUp'[u].slot = signUp[u].slot
    PROVE  Seats!Next
<1>1. Place' = Place
  BY DEF Place, PlaceOf
<1>2. /\ event'.capacity \in Nat /\ SlotCapacity' \in [Slots -> Nat]
      /\ Seats!WithinCapacity(event'.capacity, SlotCapacity', Place')
  BY AccountsStayLimits
<1>3. Seats!Resize
  BY <1>1, <1>2 DEF Seats!Resize
<1> QED
  BY <1>3 DEF Seats!Next

-----------------------------------------------------------------------------
(* Each step of the sign-ups is a step of SeatAllocation or is invisible *)

\* A step that writes no row is invisible.
LEMMA NothingWrittenInvisible ==
    ASSUME UNCHANGED <<event, slot, signUp>>
    PROVE  [Seats!Next]_(Seats!vars)
  BY DEF Seats!vars, Place, PlaceOf, SlotCapacity

\* Every step of a request is one write of the repository, or invisible.
LEMMA RequestImplements ==
    ASSUME TypeOK, SeatsInv, TypeOK', SeatsInv', NEW r \in Requests,
           RequestCall(r) \/ RequestStep(r) \/ RequestFails(r)
    PROVE  [Seats!Next]_(Seats!vars)
<1> DatabaseInv /\ DatabaseInv' /\ req[r] \in RequestStates /\ RequestInv(req[r])
  BY DEF SeatsInv, TypeOK, ProcessTypeOK
<1>1. CASE UNCHANGED <<event, slot, signUp>>
  BY <1>1, NothingWrittenInvisible
<1>2. CASE RequestCall(r) \/ RequestFails(r)
  BY <1>1, <1>2 DEF RequestCall, SignUp, Retract, Remove, Update, RequestFails, database
<1>3. CASE \/ SignUpGetEvent(r) \/ SignUpFindSlot(r) \/ SignUpGetProduct(r)
           \/ SignUpCreateOrder(r) \/ RetractGetSignUp(r) \/ DemoteRead(r)
           \/ EventCapacityChanged(r)
  BY <1>1, <1>3 DEF SignUpGetEvent, SignUpFindSlot, SignUpGetProduct,
     SignUpCreateOrder, RetractGetSignUp, DemoteRead, EventCapacityChanged, database
<1>4. CASE SignUpConfirm(r)
  <2>1. req[r].user \in Users /\ req[r].slot \in Slots
    BY <1>4, RequestShape DEF SignUpConfirm, At, Confirming
  <2> QED
    BY <1>1, <1>4, <2>1, CreateConfirmedGrants DEF SignUpConfirm, database
<1>5. CASE SignUpWaitlist(r)
  <2>1. req[r].user \in Users
    BY <1>5, RequestShape DEF SignUpWaitlist, At, Attempting
  <2> QED
    BY <1>1, <1>5, <2>1, CreateOnWaitlistQueues DEF SignUpWaitlist, database
<1>6. CASE SignUpAddOrder(r)
  <2>1. req[r].user \in Users /\ req[r].order \in Nat
    BY <1>6, RequestShape DEF SignUpAddOrder, At, AddingOrder
  <2>2. \A v \in Users : /\ signUp'[v].status = signUp[v].status
                         /\ signUp'[v].slot = signUp[v].slot
    BY <1>6, <2>1, WithOrderType DEF SignUpAddOrder, TypeOK, DatabaseTypeOK
  <2> QED
    BY <2>2, SamePlacesResize
<1>7. CASE DemoteWrite(r)
  <2>1. /\ req[r].user \in Users /\ req[r].row \in SignUpRows
        /\ ReadEarlier(req[r].user, req[r].row)
    BY <1>7, RequestShape DEF DemoteWrite, At, WritingDemotion, RequestInv
  <2>2. CASE MakeActiveSignUpInactive(req[r].user, req[r].row, req[r].to)
    BY <2>1, <2>2, MakeInactiveLeaves
  <2> QED
    BY <1>1, <1>7, <2>2 DEF DemoteWrite, database
<1>8. CASE UpdateWrite(r)
  <2>1. UNCHANGED signUp
    BY <1>8 DEF UpdateWrite, database
  <2> QED
    BY <2>1, SamePlacesResize
<1> QED
  BY <1>2, <1>3, <1>4, <1>5, <1>6, <1>7, <1>8 DEF RequestStep

\* Every step of a worker is a promotion, or invisible.
LEMMA WorkerImplements ==
    ASSUME TypeOK, SeatsInv, TypeOK', SeatsInv', NEW w \in Workers,
           WorkerStep(w) \/ WorkerStalls(w)
    PROVE  [Seats!Next]_(Seats!vars)
<1> /\ DatabaseInv /\ DatabaseInv' /\ worker[w] \in WorkerStates
    /\ WorkerOK(worker[w]) /\ WorkerInv(worker[w])
  BY DEF SeatsInv, TypeOK, ProcessTypeOK
<1>1. CASE UNCHANGED <<event, slot, signUp>>
  BY <1>1, NothingWrittenInvisible
<1>2. CASE PromoteUpdateWrite(w)
  <2> DEFINE u == worker[w].user
             row == worker[w].row
             s == worker[w].slot
  <2>1. /\ u \in Users /\ s \in Slots /\ row \in SignUpRows
        /\ ReadEarlier(u, row) /\ row.status = "ON_WAITLIST"
    BY <1>2 DEF PromoteUpdateWrite, WorkerAt, WorkerOK, WorkerStates, WorkerInv
  <2>2. CASE MakeOnWaitlistSignUpConfirmed(u, row, s)
    BY <2>1, <2>2, MakeConfirmedGrants
  <2> QED
    BY <1>1, <1>2, <2>2 DEF PromoteUpdateWrite, database
<1>3. CASE ~PromoteUpdateWrite(w)
  BY <1>1, <1>3 DEF WorkerStep, WorkerStalls, TakeJob, WorkerGetEvent, Promote,
     FindManySignUps, PromoteFindSlot, PromoteUpdateRead, SendAsyncBulk, database
<1> QED
  BY <1>2, <1>3

\* Every step implements SeatAllocation.
LEMMA NextImplements ==
    TypeOK /\ SeatsInv /\ (TypeOK /\ SeatsInv)' /\ [Next]_vars
       => [Seats!Next]_(Seats!vars)
<1> SUFFICES ASSUME TypeOK, SeatsInv, TypeOK', SeatsInv', [Next]_vars
             PROVE  [Seats!Next]_(Seats!vars)
  OBVIOUS
<1>1. CASE Tick \/ UNCHANGED vars
  BY <1>1, NothingWrittenInvisible DEF Tick, vars, database
<1> QED
  BY <1>1, RequestImplements, WorkerImplements DEF Next

\* The initial rows are an initial allocation.
LEMMA InitImplements == TypeOK /\ SeatsInv => Seats!Init
<1> SUFFICES ASSUME TypeOK, SeatsInv
             PROVE  Seats!Init
  OBVIOUS
<1>1. DatabaseInv
  BY DEF SeatsInv
<1>2. Place \in [Users -> Seats!Places]
  BY <1>1, SeatedAreConfirmed DEF DatabaseInv, Place
<1> QED
  BY <1>1, <1>2, AccountsAreLimits DEF Seats!Init

\* Sign-ups, retractions, removals, promotions and updates, interleaved anyhow and
\* with crashes anywhere, hand out the seats of the event and of its slots as
\* SeatAllocation does: one at a time, to users who have none, while there are any.
THEOREM SeatAllocationImplemented == Spec => ImplementsSeatAllocation
<1>1. ImplementsSeatAllocation <=> Seats!Init /\ [][Seats!Next]_(Seats!vars)
  BY DEF ImplementsSeatAllocation, Seats!Spec
<1> QED
  BY <1>1, Invariance, InitImplements, NextImplements, PTL DEF Spec
=============================================================================
