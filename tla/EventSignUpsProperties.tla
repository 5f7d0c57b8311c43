----------------------- MODULE EventSignUpsProperties -----------------------
(***************************************************************************)
(* What must hold of the sign-ups of an event, whatever the interleaving   *)
(* of requests and workers.                                                *)
(***************************************************************************)
EXTENDS EventSignUps

DatabaseTypeOK ==
    /\ event \in EventRows
    /\ slot \in [Slots -> SlotRows]
    /\ signUp \in [Users -> SignUpRows]
    /\ inactive \in [Users -> SignUpRows]
    /\ \A u \in Users :
          signUp[u].status \in {"NONE", "CONFIRMED", "ON_WAITLIST"}
    /\ product \in [version : Nat, orders : Nat]
    /\ nextId \in Nat

\* While it promotes a user into a slot, a worker knows both.
WorkerOK(x) ==
    /\ x \in WorkerStates
    /\ x.pc \in {"updateRead", "updateWrite"} => x.user \in Users /\ x.slot \in Slots

ProcessTypeOK ==
    /\ jobs \in [{0, 1} -> Nat]
    /\ mailed \subseteq Nat
    /\ now \in 0..MaxNow
    /\ req \in [Requests -> RequestStates]
    /\ worker \in [Workers -> WorkerStates]
    /\ \A w \in Workers : WorkerOK(worker[w])

\* Every row, request and worker has its type; an active sign-up is CONFIRMED
\* or ON_WAITLIST.
TypeOK == DatabaseTypeOK /\ ProcessTypeOK

-----------------------------------------------------------------------------
(* Seats *)

\* The remaining capacity of the event is its capacity less its confirmed
\* sign-ups, and never negative: no interleaving of sign-ups, promotions,
\* retractions, removals and updates overbooks the event or loses a seat.
EventSeatsAccounted == EventSeats(event, signUp) /\ event.remaining >= 0

\* The same of every slot.
SlotSeatsAccounted ==
    \A s \in Slots : SlotSeats(s, slot[s], signUp) /\ slot[s].remaining >= 0

\* A confirmed sign-up, and no other, holds a seat of a slot that exists:
\* deleting a slot (which cascades to its sign-ups) never takes a seat away.
ConfirmedHoldsSlot ==
    \A u \in Users :
        /\ signUp[u].status = "CONFIRMED" <=> signUp[u].slot # NoSlot
        /\ signUp[u].status = "CONFIRMED" => slot[signUp[u].slot].state = "present"

\* A user is only ever confirmed in a slot that is open to the user's year.
ConfirmedInEligibleSlot ==
    [][\A u \in Users :
          signUp'[u].status = "CONFIRMED" /\ signUp[u].status # "CONFIRMED" =>
              OpenTo(slot[signUp'[u].slot], GradeYear[u])]_vars

\* Slot ids are uuids.
ASSUME PlacesAssumption == Slots \cap {"OUT", "WAITING"} = {}

PlaceOf(row) == CASE row.status = "CONFIRMED" -> row.slot
                  [] row.status = "ON_WAITLIST" -> "WAITING"
                  [] OTHER -> "OUT"
Place == [u \in Users |-> PlaceOf(signUp[u])]
SlotCapacity == [s \in Slots |-> slot[s].capacity]

Seats == INSTANCE SeatAllocation
    WITH Out <- "OUT", Waiting <- "WAITING", capacity <- event.capacity,
         slotCapacity <- SlotCapacity, place <- Place

\* The sign-ups implement the seat allocation of SeatAllocation: each database
\* step grants one seat, queues one user, lets one user go, resizes, or is
\* invisible.
ImplementsSeatAllocation == Seats!Spec

-----------------------------------------------------------------------------
(* The inductive invariant: TypeOK and SeatsInv *)

RowsInv ==
    \A u \in Users :
        /\ signUp[u].id < nextId
        /\ signUp[u].id = 0 \/ signUp[u].status = "NONE" => NoActiveSignUp(u)
        /\ signUp[u].status = "CONFIRMED" <=> signUp[u].slot # NoSlot

AbsentSlotsEmpty ==
    \A s \in Slots : slot[s].state # "present" => slot[s].capacity = 0

DatabaseInv ==
    /\ EventSeatsAccounted
    /\ SlotSeatsAccounted
    /\ RowsInv
    /\ AbsentSlotsEmpty

\* A row that was read earlier is still the user's row, or has a newer version,
\* or has gone for good.
ReadEarlier(u, row) ==
    /\ row.id \in 1..(nextId - 1)
    /\ signUp[u].id = row.id =>
          /\ row.version <= signUp[u].version
          /\ row.version = signUp[u].version =>
                row.status = signUp[u].status /\ row.slot = signUp[u].slot

\* What an update is about to write agrees with the confirmed sign-ups.
PlanAccounted(plan) ==
    /\ EventSeats(plan.event, signUp) /\ plan.event.remaining >= 0
    /\ \A c \in plan.change : SlotSeats(c.id, c, signUp) /\ c.remaining >= 0
    /\ \A d \in plan.drop : ConfirmedIn(signUp, d.id) = {}

\* A plan is good as long as the event has the version the update read.
RequestInv(x) ==
    /\ x.pc \in {"getProduct", "createOrder", "addOrder"} => x.id # 0
    /\ x.pc = "demoteWrite" => ReadEarlier(x.user, x.row)
    /\ x.pc = "updateWrite" =>
          /\ x.event.version <= event.version
          /\ x.event.version = event.version => PlanAccounted(x)

WorkerInv(x) ==
    x.pc = "updateWrite" =>
        ReadEarlier(x.user, x.row) /\ x.row.status = "ON_WAITLIST"

\* The seats stay accounted for although what is written was computed from rows
\* read some steps ago: a request or worker holding an old row or plan cannot
\* write it, or it is not old.
SeatsInv ==
    /\ DatabaseInv
    /\ \A r \in Requests : RequestInv(req[r])
    /\ \A w \in Workers : WorkerInv(worker[w])

-----------------------------------------------------------------------------
(* The wait list *)

OpenSeat == event.remaining > 0 /\ SlotsWithRemainingCapacity(Undefined) # {}
SeatWasted == OpenSeat /\ OnWaitList(signUp) # {}

\* A free seat that a waiting user could have does not stay free.
FreedSeatsAreFilled == SeatWasted ~> ~SeatWasted

\* Users leave the wait list for a seat in the order they joined it.
PromotedInOrder ==
    [][\A u \in Users :
          signUp[u].status = "ON_WAITLIST" /\ signUp'[u].status = "CONFIRMED" =>
              \A v \in OnWaitList(signUp) : signUp[u].id <= signUp[v].id]_vars

\* No sign-up is mailed about its promotion twice.
MailedOnce ==
    [][\A w \in Workers : SendAsyncBulk(w) =>
          mailed \cap worker[w].newSignUps = {}]_vars

\* Every job is taken and ends: no promotion runs forever and none is left
\* behind in the queue.
QueueDrains ==
    <>[](/\ \A k \in {0, 1} : jobs[k] = 0
         /\ \A w \in Workers : WorkerAt(w, "idle"))

-----------------------------------------------------------------------------
(* Orders of ticket events *)

\* A ticket event's confirmed sign-up has an order once its request is over: the
\* tests say so, the code does not keep it.
ConfirmedTicketHasOrder ==
    (\A r \in Requests : req[r].pc \in {"idle", "done"}) =>
        \A u \in Users : signUp[u].status = "CONFIRMED" => signUp[u].order # 0

\* Nobody on the wait list has an order to pay for.
WaitListHasNoOrder ==
    \A u \in OnWaitList(signUp) : signUp[u].order = 0
=============================================================================
