------------------------ MODULE EventSignUps_proofs ------------------------
(***************************************************************************)
(* Proofs about EventSignUps, for any number of users, slots, requests and *)
(* workers.                                                                *)
(***************************************************************************)
EXTENDS EventSignUpsProperties, FiniteSetTheorems, TLAPS

-----------------------------------------------------------------------------
(* Types *)

\* What the program counter of a request says about its other fields.
LEMMA RequestShape ==
    ASSUME NEW x \in RequestStates
    PROVE  /\ x.pc \in {"getEvent", "findSlot", "waitlist"} => x \in Attempting
           /\ x.pc = "confirm" => x \in Confirming
           /\ x.pc = "getProduct" => x \in ReadingProduct
           /\ x.pc = "createOrder" => x \in CreatingOrder
           /\ x.pc = "addOrder" => x \in AddingOrder
           /\ x.pc = "getSignUp" => x \in Retracting
           /\ x.pc = "demoteRead" => x \in Demoting
           /\ x.pc = "demoteWrite" => x \in WritingDemotion
           /\ x.pc = "updateWrite" => x \in WritingUpdate
  BY DEF RequestStates, Attempting, Confirming, ReadingProduct, CreatingOrder,
         AddingOrder, Retracting, Demoting, WritingDemotion, WritingUpdate

\* NoRow stands for no sign-up and is typed as one.
LEMMA NoRowType == NoRow \in SignUpRows /\ NoRow.status = "NONE"
  BY DEF NoRow, SignUpRows, Statuses

\* An idle worker is a worker state.
LEMMA IdleWorkerType ==
    /\ IdleWorker \in WorkerStates
    /\ IdleWorker.pc = "idle"
  BY NoRowType DEF IdleWorker, WorkerStates, OrUndefined

\* The initial rows are typed.
LEMMA InitTypeOK == Init => TypeOK
<1> SUFFICES ASSUME Init PROVE TypeOK
  OBVIOUS
<1> USE NoRowType, IdleWorkerType
<1>1. /\ event \in EventRows
      /\ slot \in [Slots -> SlotRows]
      /\ signUp \in [Users -> SignUpRows]
      /\ \A u \in Users :
            signUp[u].status \in {"NONE", "CONFIRMED", "ON_WAITLIST"}
  BY InitialAssumption DEF Init
<1>2. inactive \in [Users -> SignUpRows]
  BY DEF Init
<1>3. product \in [version : Nat, orders : Nat] /\ jobs \in [{0, 1} -> Nat]
  BY DEF Init
<1>4. nextId \in Nat
  BY ConstantsAssumption, FS_CardinalityType DEF Init
<1>5. mailed \subseteq Nat /\ now \in 0..MaxNow
  BY ConstantsAssumption DEF Init
<1>6. req \in [Requests -> RequestStates]
  BY DEF Init, Idle, RequestStates
<1>7. worker \in [Workers -> WorkerStates] /\ \A w \in Workers : WorkerOK(worker[w])
  BY DEF Init, WorkerOK
<1> QED
  BY <1>1, <1>2, <1>3, <1>4, <1>5, <1>6, <1>7
     DEF TypeOK, DatabaseTypeOK, ProcessTypeOK

\* A request moves on to a well-formed state.
LEMMA GotoType ==
    ASSUME TypeOK, NEW r \in Requests, NEW x \in RequestStates, Goto(r, x)
    PROVE  req' \in [Requests -> RequestStates]
  BY DEF TypeOK, ProcessTypeOK, Goto

\* The same for a step that changes nothing else, and for one that changes
\* rows of the database.
LEMMA RequestMoves ==
    ASSUME TypeOK, NEW r \in Requests, NEW x \in RequestStates, Goto(r, x),
           UNCHANGED env, UNCHANGED database \/ DatabaseTypeOK'
    PROVE  TypeOK'
<1>1. DatabaseTypeOK'
  BY DEF TypeOK, DatabaseTypeOK, database
<1> QED
  BY <1>1, GotoType DEF TypeOK, ProcessTypeOK, env

\* A worker that moves to a worker state keeps the types of the processes.
LEMMA WorkerMoves ==
    ASSUME TypeOK, NEW w \in Workers, NEW x, WorkerOK(x), WorkerGoto(w, x),
           UNCHANGED <<now, req>>, jobs' \in [{0, 1} -> Nat], mailed' \subseteq Nat,
           UNCHANGED database \/ DatabaseTypeOK'
    PROVE  TypeOK'
<1>1. DatabaseTypeOK'
  BY DEF TypeOK, DatabaseTypeOK, database
<1>2. worker' \in [Workers -> WorkerStates] /\ \A v \in Workers : WorkerOK(worker'[v])
  BY DEF TypeOK, ProcessTypeOK, WorkerGoto, WorkerOK
<1> QED
  BY <1>1, <1>2 DEF TypeOK, ProcessTypeOK

\* A request may be idle or done.
LEMMA IdleAndDone == Idle \in RequestStates /\ Done \in RequestStates
  BY DEF Idle, Done, RequestStates

-----------------------------------------------------------------------------
(* The writes of the repository keep the types of the rows *)

\* Taking or freeing a seat keeps the event and the slots typed.
LEMMA SeatTypes ==
    ASSUME DatabaseTypeOK, NEW s, TakeSeat(s) \/ FreeSeat(s)
    PROVE  event' \in EventRows /\ slot' \in [Slots -> SlotRows]
<1>1. event' \in EventRows
  <2>1. /\ event \in EventRows
        /\ event.version + 1 \in Nat
        /\ event.remaining - 1 \in Int
        /\ event.remaining + 1 \in Int
    BY DEF DatabaseTypeOK, EventRows
  <2>2. CASE TakeSeat(s)
    BY <2>1, <2>2, Zenon DEF EventRows, TakeSeat
  <2>3. CASE FreeSeat(s)
    BY <2>1, <2>3, Zenon DEF EventRows, FreeSeat
  <2> QED
    BY <2>2, <2>3
<1>2. slot' \in [Slots -> SlotRows]
  <2>1. CASE s \in Slots
    BY <2>1 DEF DatabaseTypeOK, SlotRows, TakeSeat, FreeSeat
  <2>2. CASE s \notin Slots
    BY <2>2 DEF DatabaseTypeOK, TakeSeat, FreeSeat
  <2> QED
    BY <2>1, <2>2
<1> QED
  BY <1>1, <1>2

\* createConfirmedSignUp keeps the rows typed.
LEMMA CreateConfirmedType ==
    ASSUME DatabaseTypeOK, NEW u \in Users, NEW s \in Slots,
           CreateConfirmedSignUp(u, s)
    PROVE  DatabaseTypeOK'
<1>1. NewSignUp("CONFIRMED", s) \in SignUpRows
  BY DEF DatabaseTypeOK, NewSignUp, SignUpRows, Statuses
<1>2. NewSignUp("CONFIRMED", s).status = "CONFIRMED"
  BY DEF NewSignUp
<1> QED
  BY <1>1, <1>2, SeatTypes DEF DatabaseTypeOK, CreateConfirmedSignUp

\* createOnWaitlistSignUp keeps the rows typed.
LEMMA CreateOnWaitlistType ==
    ASSUME DatabaseTypeOK, NEW u \in Users, CreateOnWaitlistSignUp(u)
    PROVE  DatabaseTypeOK'
<1>1. NewSignUp("ON_WAITLIST", NoSlot) \in SignUpRows
  BY DEF DatabaseTypeOK, NewSignUp, SignUpRows, Statuses
<1>2. NewSignUp("ON_WAITLIST", NoSlot).status = "ON_WAITLIST"
  BY DEF NewSignUp
<1>3. event' \in EventRows
  BY DEF DatabaseTypeOK, EventRows, CreateOnWaitlistSignUp
<1> QED
  BY <1>1, <1>2, <1>3 DEF DatabaseTypeOK, CreateOnWaitlistSignUp

\* makeOnWaitlistSignUpConfirmed keeps the rows typed.
LEMMA MakeConfirmedType ==
    ASSUME DatabaseTypeOK, NEW u \in Users, NEW row, NEW s \in Slots,
           MakeOnWaitlistSignUpConfirmed(u, row, s)
    PROVE  DatabaseTypeOK'
<1>1. signUp' \in [Users -> SignUpRows]
  BY DEF DatabaseTypeOK, MakeOnWaitlistSignUpConfirmed, SignUpRows, Statuses
<1>2. \A v \in Users : signUp'[v].status \in {"NONE", "CONFIRMED", "ON_WAITLIST"}
  BY DEF DatabaseTypeOK, MakeOnWaitlistSignUpConfirmed, SignUpRows
<1> QED
  BY <1>1, <1>2, SeatTypes DEF DatabaseTypeOK, MakeOnWaitlistSignUpConfirmed

\* makeActiveSignUpInactive keeps the rows typed.
LEMMA MakeInactiveType ==
    ASSUME DatabaseTypeOK, NEW u \in Users, NEW row,
           NEW to \in {"RETRACTED", "REMOVED"},
           MakeActiveSignUpInactive(u, row, to)
    PROVE  DatabaseTypeOK'
<1> USE NoRowType
<1> DEFINE gone == [signUp[u] EXCEPT !.status = to, !.slot = NoSlot,
                                     !.version = @ + 1]
<1>a. gone \in SignUpRows
  <2>1. signUp[u] \in SignUpRows /\ signUp[u].version + 1 \in Nat
    BY DEF DatabaseTypeOK, SignUpRows
  <2> QED
    BY <2>1, Zenon DEF SignUpRows, Statuses
<1> HIDE DEF gone
<1>1. signUp' \in [Users -> SignUpRows] /\ inactive' \in [Users -> SignUpRows]
  BY <1>a DEF DatabaseTypeOK, MakeActiveSignUpInactive, Deactivate, gone
<1>2. \A v \in Users : signUp'[v].status \in {"NONE", "CONFIRMED", "ON_WAITLIST"}
  BY DEF DatabaseTypeOK, MakeActiveSignUpInactive, Deactivate
<1>3. event' \in EventRows /\ slot' \in [Slots -> SlotRows]
  BY SeatTypes DEF DatabaseTypeOK, MakeActiveSignUpInactive
<1> QED
  BY <1>1, <1>2, <1>3 DEF DatabaseTypeOK, MakeActiveSignUpInactive

\* addOrderToSignUp keeps the rows typed.
LEMMA WithOrderType ==
    ASSUME NEW rows \in [Users -> SignUpRows], NEW u \in Users, NEW id,
           NEW order \in Nat
    PROVE  /\ WithOrder(rows, u, id, order) \in [Users -> SignUpRows]
           /\ \A v \in Users :
                 /\ WithOrder(rows, u, id, order)[v].id = rows[v].id
                 /\ WithOrder(rows, u, id, order)[v].version = rows[v].version
                 /\ WithOrder(rows, u, id, order)[v].status = rows[v].status
                 /\ WithOrder(rows, u, id, order)[v].slot = rows[v].slot
  BY DEF WithOrder, SignUpRows

-----------------------------------------------------------------------------
(* The rows an update computes *)

\* What a valid update computes is an event and slot changes.
LEMMA UpdatedTypes ==
    ASSUME DatabaseTypeOK, NEW p \in UpdateParams
    PROVE  /\ UpdatedEvent(p) \in EventRows
           /\ \A c \in p.change : UpdatedSlot(c) \in SlotChanges
           /\ UpdatedEvent(p).version = event.version
<1>1. /\ Given(p.capacity, event.capacity) \in Nat
      /\ Given(p.enabled, event.enabled) \in BOOLEAN
      /\ Given(p.opensAt, event.opensAt) \in Nat
      /\ Given(p.closesAt, event.closesAt) \in Nat
  BY DEF UpdateParams, OrUndefined, Given, DatabaseTypeOK, EventRows
<1>2. UpdatedEvent(p) \in EventRows /\ UpdatedEvent(p).version = event.version
  <2>1. event \in EventRows
    BY DEF DatabaseTypeOK
  <2> DEFINE remaining == event.remaining + Given(p.capacity, event.capacity)
                             - event.capacity
  <2>2. remaining \in Int
    BY <1>1, <2>1 DEF EventRows
  <2> HIDE DEF remaining
  <2>3. UpdatedEvent(p) \in EventRows
    BY <1>1, <2>1, <2>2, Zenon DEF EventRows, UpdatedEvent, remaining
  <2>4. UpdatedEvent(p).version = event.version
    BY <2>1 DEF EventRows, UpdatedEvent
  <2> QED
    BY <2>3, <2>4
<1>3. ASSUME NEW c \in p.change
      PROVE  UpdatedSlot(c) \in SlotChanges
  <2>1. /\ c.id \in Slots
        /\ Given(c.capacity, slot[c.id].capacity) \in Nat
        /\ Given(c.gradeYears, slot[c.id].gradeYears) \in SUBSET Years
    BY DEF UpdateParams, OrUndefined, Given, DatabaseTypeOK, SlotRows
  <2> QED
    BY <2>1 DEF DatabaseTypeOK, SlotRows, UpdatedSlot, SlotChanges
<1> QED
  BY <1>2, <1>3

\* What an update writes into a slot is a slot.
LEMMA WrittenTypes ==
    ASSUME DatabaseTypeOK, NEW plan \in WritingUpdate, NEW s \in Slots
    PROVE  /\ WrittenSlot(s, plan) \in SlotRows
           /\ s \in Created(plan) =>
                 CreatedSlot(CHOOSE c \in plan.create : c.id = s) \in SlotRows
<1> DEFINE same == {c \in plan.change : c.id = s /\ c.version = slot[s].version}
<1>1. \A c \in plan.change : c \in SlotChanges
  BY DEF WritingUpdate
<1>2. DeletedSlot \in SlotRows
  BY DEF DeletedSlot, SlotRows, SlotStates
<1>3. same # {} => (CHOOSE c \in same : TRUE) \in SlotChanges
  BY <1>1
<1>4. WrittenSlot(s, plan) \in SlotRows
  BY <1>2, <1>3 DEF WrittenSlot, SlotRows, SlotStates, SlotChanges, DatabaseTypeOK
<1>5. s \in Created(plan) =>
         CreatedSlot(CHOOSE c \in plan.create : c.id = s) \in SlotRows
  BY DEF Created, CreatedSlot, WritingUpdate, SlotRows, SlotStates
<1> QED
  BY <1>4, <1>5

\* EventRepository.update keeps the rows typed.
LEMMA UpdateWriteType ==
    ASSUME TypeOK, NEW r \in Requests, UpdateWrite(r)
    PROVE  DatabaseTypeOK'
<1>1. req[r] \in WritingUpdate
  BY RequestShape DEF TypeOK, ProcessTypeOK, UpdateWrite, At
<1>2. req[r].event \in EventRows
  BY <1>1 DEF WritingUpdate
<1>3. CASE UNCHANGED database
  BY <1>3 DEF TypeOK, DatabaseTypeOK, database
<1>4. CASE /\ event' = req[r].event
           /\ slot' = [s \in Slots |->
                 IF slot[s].state = "unused" /\ s \in Created(req[r])
                 THEN CreatedSlot(CHOOSE c \in req[r].create : c.id = s)
                 ELSE WrittenSlot(s, req[r])]
           /\ UNCHANGED <<signUp, inactive, product, nextId>>
  <2>1. slot' \in [Slots -> SlotRows]
    BY <1>1, <1>4, WrittenTypes DEF TypeOK
  <2> QED
    BY <1>2, <1>4, <2>1 DEF TypeOK, DatabaseTypeOK
<1> QED
  BY <1>3, <1>4 DEF UpdateWrite

-----------------------------------------------------------------------------
(* TypeOK is inductive: one step for each action *)

\* Every step of a request keeps the types.
LEMMA RequestTypeOK ==
    ASSUME TypeOK, NEW r \in Requests,
           RequestCall(r) \/ RequestStep(r) \/ RequestFails(r)
    PROVE  TypeOK'
<1> USE IdleAndDone
<1> DatabaseTypeOK /\ req[r] \in RequestStates
  BY DEF TypeOK, ProcessTypeOK
<1>1. ASSUME NEW u \in MaySignUp[r], SignUp(r, u)
      PROVE  TypeOK'
  <2>1. [pc |-> "getEvent", user |-> u, attempt |-> 1] \in RequestStates
    BY WorkloadAssumption DEF RequestStates, Attempting
  <2> QED
    BY <1>1, <2>1, RequestMoves DEF SignUp
<1>2. ASSUME NEW u \in MayRetract[r], Retract(r, u)
      PROVE  TypeOK'
  <2>1. [pc |-> "getSignUp", user |-> u, closesAt |-> event.closesAt]
           \in RequestStates
    BY WorkloadAssumption DEF DatabaseTypeOK, EventRows, RequestStates, Retracting
  <2> QED
    BY <1>2, <2>1, RequestMoves DEF Retract
<1>3. ASSUME NEW u \in Users, NEW to \in {"RETRACTED", "REMOVED"}
      PROVE  Demote(u, to) \in RequestStates
  BY DEF Demote, DatabaseTypeOK, SignUpRows, RequestStates, Demoting
<1>4. ASSUME NEW u \in MayRemove[r], Remove(r, u)
      PROVE  TypeOK'
  <2>1. Demote(u, "REMOVED") \in RequestStates
    BY <1>3, WorkloadAssumption
  <2> QED
    BY <1>4, <2>1, RequestMoves DEF Remove
<1>5. ASSUME NEW p \in MayUpdate[r], Update(r, p)
      PROVE  TypeOK'
  <2> DEFINE plan == [pc |-> "updateWrite", event |-> UpdatedEvent(p),
                      create |-> p.create,
                      change |-> {UpdatedSlot(c) : c \in p.change},
                      drop |-> {[id |-> s, version |-> slot[s].version] :
                                   s \in p.drop}]
  <2>1. p \in UpdateParams
    BY WorkloadAssumption
  <2>2. {UpdatedSlot(c) : c \in p.change} \subseteq SlotChanges
    BY <2>1, UpdatedTypes
  <2>3. {[id |-> s, version |-> slot[s].version] : s \in p.drop} \subseteq SlotDrops
    BY <2>1 DEF UpdateParams, DatabaseTypeOK, SlotRows, SlotDrops
  <2>4. p.create \in SUBSET [id : Slots, capacity : Nat, gradeYears : SUBSET Years]
    BY <2>1 DEF UpdateParams
  <2>5. plan \in WritingUpdate
    BY <2>1, <2>2, <2>3, <2>4, UpdatedTypes DEF WritingUpdate
  <2>6. plan \in RequestStates
    BY <2>5 DEF RequestStates
  <2> HIDE DEF plan
  <2>7. CASE Goto(r, plan)
    BY <1>5, <2>6, <2>7, RequestMoves DEF Update
  <2>8. CASE Goto(r, Done)
    BY <1>5, <2>8, RequestMoves DEF Update
  <2> QED
    BY <1>5, <2>7, <2>8 DEF Update, plan
<1>6. CASE SignUpGetEvent(r)
  <2>1. req[r] \in Attempting
    BY <1>6, RequestShape DEF SignUpGetEvent, At
  <2>2. /\ [req[r] EXCEPT !.pc = "waitlist"] \in Attempting
        /\ [req[r] EXCEPT !.pc = "findSlot"] \in Attempting
    BY <2>1 DEF Attempting
  <2>3. /\ [req[r] EXCEPT !.pc = "waitlist"] \in RequestStates
        /\ [req[r] EXCEPT !.pc = "findSlot"] \in RequestStates
    BY <2>2 DEF RequestStates
  <2> QED
    BY <1>6, <2>3, RequestMoves DEF SignUpGetEvent
<1>7. CASE SignUpFindSlot(r)
  <2>1. req[r] \in Attempting
    BY <1>7, RequestShape DEF SignUpFindSlot, At
  <2>2. [req[r] EXCEPT !.pc = "waitlist"] \in Attempting
    BY <2>1 DEF Attempting
  <2>3. [req[r] EXCEPT !.pc = "waitlist"] \in RequestStates
    BY <2>2 DEF RequestStates
  <2>4. ASSUME NEW s \in Slots
        PROVE  [pc |-> "confirm", user |-> req[r].user,
                attempt |-> req[r].attempt, slot |-> s] \in RequestStates
    BY <2>1 DEF RequestStates, Confirming, Attempting
  <2>5. SlotWithRemainingCapacity(GradeYear[req[r].user]) \subseteq Slots
    BY DEF SlotWithRemainingCapacity, SlotsWithRemainingCapacity
  <2> QED
    BY <1>7, <2>3, <2>4, <2>5, RequestMoves DEF SignUpFindSlot
<1>8. ASSUME Retry(r), req[r].attempt \in Nat, req[r].user \in Users
      PROVE  \E x \in RequestStates : Goto(r, x)
  BY <1>8 DEF Retry, RequestStates, Attempting
<1>9. CASE SignUpConfirm(r)
  <2>1. req[r] \in Confirming
    BY <1>9, RequestShape DEF SignUpConfirm, At
  <2>2. /\ req[r].attempt \in Nat /\ req[r].user \in Users
        /\ req[r].slot \in Slots
    BY <2>1 DEF Confirming
  <2>3. [pc |-> "getProduct", user |-> req[r].user, attempt |-> req[r].attempt,
         id |-> nextId] \in RequestStates
    BY <2>2 DEF DatabaseTypeOK, RequestStates, ReadingProduct
  <2>4. CASE CreateConfirmedSignUp(req[r].user, req[r].slot)
    BY <1>9, <2>2, <2>3, <2>4, <1>8, CreateConfirmedType, RequestMoves
       DEF SignUpConfirm
  <2>5. CASE ~CreateConfirmedSignUp(req[r].user, req[r].slot)
    BY <1>9, <2>2, <2>5, <1>8, RequestMoves DEF SignUpConfirm
  <2> QED
    BY <2>4, <2>5
<1>10. CASE SignUpWaitlist(r)
  <2>1. req[r].user \in Users
    BY <1>10, RequestShape DEF SignUpWaitlist, At, Attempting
  <2> QED
    BY <1>10, <2>1, CreateOnWaitlistType, RequestMoves DEF SignUpWaitlist
<1>11. CASE SignUpGetProduct(r)
  <2>1. req[r] \in ReadingProduct
    BY <1>11, RequestShape DEF SignUpGetProduct, At
  <2>2. [pc |-> "createOrder", user |-> req[r].user, attempt |-> req[r].attempt,
         id |-> req[r].id, version |-> product.version] \in RequestStates
    BY <2>1 DEF ReadingProduct, DatabaseTypeOK, RequestStates, CreatingOrder
  <2> QED
    BY <1>11, <2>2, RequestMoves DEF SignUpGetProduct
<1>12. CASE SignUpCreateOrder(r)
  <2>1. req[r] \in CreatingOrder
    BY <1>12, RequestShape DEF SignUpCreateOrder, At
  <2>2. /\ req[r].attempt \in Nat /\ req[r].user \in Users
        /\ [pc |-> "addOrder", user |-> req[r].user, id |-> req[r].id,
            order |-> product.orders + 1] \in RequestStates
    BY <2>1 DEF CreatingOrder, DatabaseTypeOK, RequestStates, AddingOrder
  <2>3. DatabaseTypeOK'
    BY <1>12 DEF SignUpCreateOrder, DatabaseTypeOK
  <2> QED
    BY <1>12, <1>8, <2>2, <2>3, RequestMoves DEF SignUpCreateOrder
<1>13. CASE SignUpAddOrder(r)
  <2>1. req[r].user \in Users /\ req[r].order \in Nat
    BY <1>13, RequestShape DEF SignUpAddOrder, At, AddingOrder
  <2>2. DatabaseTypeOK'
    BY <1>13, <2>1, WithOrderType DEF SignUpAddOrder, DatabaseTypeOK
  <2> QED
    BY <1>13, <2>2, RequestMoves DEF SignUpAddOrder
<1>14. CASE RetractGetSignUp(r)
  <2>1. req[r].user \in Users
    BY <1>14, RequestShape DEF RetractGetSignUp, At, Retracting
  <2>2. Demote(req[r].user, "RETRACTED") \in RequestStates
    BY <2>1, <1>3
  <2> QED
    BY <1>14, <2>2, RequestMoves DEF RetractGetSignUp
<1>15. CASE DemoteRead(r)
  <2>1. req[r] \in Demoting
    BY <1>15, RequestShape DEF DemoteRead, At
  <2>2. [pc |-> "demoteWrite", user |-> req[r].user, to |-> req[r].to,
         notify |-> req[r].notify, id |-> req[r].id,
         row |-> signUp[req[r].user]] \in WritingDemotion
    BY <2>1 DEF Demoting, DatabaseTypeOK, WritingDemotion
  <2>3. [pc |-> "demoteWrite", user |-> req[r].user, to |-> req[r].to,
         notify |-> req[r].notify, id |-> req[r].id,
         row |-> signUp[req[r].user]] \in RequestStates
    BY <2>2 DEF RequestStates
  <2> QED
    BY <1>15, <2>3, RequestMoves DEF DemoteRead
<1>16. [pc |-> "notify"] \in RequestStates
  BY DEF RequestStates
<1>17. CASE DemoteWrite(r)
  <2>1. req[r].user \in Users /\ req[r].to \in {"RETRACTED", "REMOVED"}
    BY <1>17, RequestShape DEF DemoteWrite, At, WritingDemotion
  <2> QED
    BY <1>16, <1>17, <2>1, MakeInactiveType, RequestMoves DEF DemoteWrite
<1>18. CASE EventCapacityChanged(r)
  <2>1. jobs' \in [{0, 1} -> Nat]
    BY <1>18 DEF EventCapacityChanged, TypeOK, ProcessTypeOK
  <2> QED
    BY <1>18, <2>1, GotoType
       DEF EventCapacityChanged, TypeOK, DatabaseTypeOK, ProcessTypeOK, database
<1>19. CASE UpdateWrite(r)
  BY <1>19, UpdateWriteType, RequestMoves DEF UpdateWrite
<1>20. CASE RequestFails(r)
  BY <1>20, RequestMoves DEF RequestFails
<1> QED
  BY <1>1, <1>2, <1>4, <1>5, <1>6, <1>7, <1>9, <1>10, <1>11, <1>12, <1>13, <1>14,
     <1>15, <1>17, <1>18, <1>19, <1>20 DEF RequestCall, RequestStep
\* The states a worker moves to.
LEMMA WorkerStateTypes ==
    ASSUME TypeOK, NEW w \in Workers
    PROVE  /\ WorkerOK(IdleWorker)
           /\ \A todo \in SUBSET Waiters : WorkerOK(NextSignUp(w, todo))
           /\ \A id \in Nat : WorkerOK(Promoted(w, id))
<1> USE IdleWorkerType, NoRowType
<1> worker[w] \in WorkerStates
  BY DEF TypeOK, ProcessTypeOK
<1>1. WorkerOK(IdleWorker)
  BY DEF WorkerOK
<1>2. ASSUME NEW todo \in SUBSET Waiters
      PROVE  WorkerOK(NextSignUp(w, todo))
  <2>1. NextSignUp(w, todo) \in WorkerStates
    BY Zenon DEF NextSignUp, WorkerStates, OrUndefined
  <2>2. NextSignUp(w, todo).pc \in {"mail", "findSlot"}
    BY DEF NextSignUp, WorkerStates
  <2> QED
    BY <2>1, <2>2 DEF WorkerOK
<1>3. ASSUME NEW id \in Nat
      PROVE  WorkerOK(Promoted(w, id))
  <2>1. /\ worker[w].attempts - 1 \in Int
        /\ worker[w].newSignUps \cup {id} \in SUBSET Nat
        /\ worker[w].stalled \in {0, 1}
        /\ (IF worker[w].attempts > 1 THEN "promote" ELSE "mail")
              \in {"promote", "mail"}
    BY DEF WorkerStates
  <2>2. Promoted(w, id) \in WorkerStates
    BY <2>1, Zenon DEF Promoted, WorkerStates
  <2>3. Promoted(w, id).pc \in {"promote", "mail"}
    BY DEF Promoted, WorkerStates
  <2> QED
    BY <2>2, <2>3 DEF WorkerOK
<1> QED
  BY <1>1, <1>2, <1>3

\* Every step of a worker keeps the types.
LEMMA WorkerTypeOK ==
    ASSUME TypeOK, NEW w \in Workers, WorkerStep(w) \/ WorkerStalls(w)
    PROVE  TypeOK'
<1> USE WorkerStateTypes
<1> /\ DatabaseTypeOK /\ worker[w] \in WorkerStates /\ WorkerOK(worker[w])
    /\ jobs \in [{0, 1} -> Nat] /\ mailed \subseteq Nat
  BY DEF TypeOK, ProcessTypeOK
<1>1. ASSUME NEW k \in {0, 1}, TakeJob(w, k)
      PROVE  TypeOK'
  <2>1. WorkerOK([IdleWorker EXCEPT !.pc = "getEvent", !.stalled = k])
    BY IdleWorkerType DEF WorkerStates, WorkerOK
  <2>2. jobs' \in [{0, 1} -> Nat]
    BY <1>1 DEF TakeJob
  <2> QED
    BY <1>1, <2>1, <2>2, WorkerMoves DEF TakeJob, envW
<1>2. CASE WorkerGetEvent(w)
  <2> DEFINE pc == IF event.remaining > 0 THEN "promote" ELSE "mail"
             next == [worker[w] EXCEPT !.pc = pc, !.attempts = event.remaining]
  <2>1. event.remaining \in Int
    BY DEF DatabaseTypeOK, EventRows
  <2>2. next \in WorkerStates
    BY <2>1 DEF WorkerStates
  <2>3. next.pc \in {"promote", "mail"}
    BY DEF WorkerStates
  <2>4. WorkerOK(next)
    BY <2>2, <2>3 DEF WorkerOK
  <2> QED
    BY <1>2, <2>4, WorkerMoves DEF WorkerGetEvent, envW
<1>3. CASE Promote(w)
  <2>1. WorkerOK([worker[w] EXCEPT !.pc = "findMany"])
    BY DEF WorkerStates, WorkerOK
  <2> QED
    BY <1>3, <2>1, WorkerMoves DEF Promote, envW
<1>4. CASE FindManySignUps(w)
  <2> DEFINE todo == {[user |-> u, id |-> signUp[u].id] : u \in OnWaitList(signUp)}
  <2>1. todo \in SUBSET Waiters
    BY DEF OnWaitList, DatabaseTypeOK, SignUpRows, Waiters
  <2> QED
    BY <1>4, <2>1, WorkerMoves DEF FindManySignUps, envW
<1>5. CASE PromoteFindSlot(w)
  <2>1. PICK next \in First(worker[w].todo) :
           LET rest == Rest(worker[w].todo, next)
               found == SlotWithRemainingCapacity(Undefined) IN
           \/ found = {} /\ WorkerGoto(w, NextSignUp(w, rest))
           \/ \E s \in found :
                 WorkerGoto(w, [worker[w] EXCEPT !.pc = "updateRead", !.slot = s,
                                                 !.user = next.user, !.todo = rest])
    BY <1>5 DEF PromoteFindSlot
  <2> DEFINE rest == Rest(worker[w].todo, next)
  <2>2. next.user \in Users /\ rest \in SUBSET Waiters
    BY DEF First, Rest, WorkerStates, Waiters
  <2>3. ASSUME NEW s \in Slots
        PROVE  WorkerOK([worker[w] EXCEPT !.pc = "updateRead", !.slot = s,
                                          !.user = next.user, !.todo = rest])
    <3> DEFINE x == [worker[w] EXCEPT !.pc = "updateRead", !.slot = s,
                                      !.user = next.user, !.todo = rest]
    <3>1. x \in WorkerStates
      BY <2>2, Zenon DEF WorkerStates, OrUndefined
    <3>2. x.user = next.user /\ x.slot = s
      BY DEF WorkerStates
    <3> QED
      BY <2>2, <3>1, <3>2 DEF WorkerOK
  <2>4. SlotWithRemainingCapacity(Undefined) \subseteq Slots
    BY DEF SlotWithRemainingCapacity, SlotsWithRemainingCapacity
  <2>5. \E x : WorkerOK(x) /\ WorkerGoto(w, x)
    BY <2>1, <2>2, <2>3, <2>4
  <2> QED
    BY <1>5, <2>5, WorkerMoves DEF PromoteFindSlot, envW
<1>6. CASE PromoteUpdateRead(w)
  <2> DEFINE row == signUp[worker[w].user]
  <2>1. worker[w].user \in Users /\ worker[w].slot \in Slots
    BY <1>6 DEF PromoteUpdateRead, WorkerAt, WorkerOK
  <2>2. row \in SignUpRows /\ row.id \in Nat
    BY <2>1 DEF DatabaseTypeOK, SignUpRows
  <2> DEFINE next == [worker[w] EXCEPT !.pc = "updateWrite", !.row = row]
  <2>3. next \in WorkerStates
    BY <2>2, Zenon DEF WorkerStates
  <2>4. next.user = worker[w].user /\ next.slot = worker[w].slot
    BY DEF WorkerStates
  <2>5. WorkerOK(next)
    BY <2>1, <2>3, <2>4 DEF WorkerOK
  <2> QED
    BY <1>6, <2>2, <2>5, WorkerMoves DEF PromoteUpdateRead, envW
<1>7. CASE PromoteUpdateWrite(w)
  <2>1. /\ worker[w].user \in Users /\ worker[w].slot \in Slots
        /\ worker[w].row.id \in Nat /\ worker[w].todo \in SUBSET Waiters
    BY <1>7 DEF PromoteUpdateWrite, WorkerAt, WorkerOK, WorkerStates, SignUpRows
  <2> QED
    BY <1>7, <2>1, MakeConfirmedType, WorkerMoves DEF PromoteUpdateWrite, envW
<1>8. CASE SendAsyncBulk(w)
  <2>1. mailed' \subseteq Nat
    BY <1>8 DEF SendAsyncBulk, WorkerStates
  <2> QED
    BY <1>8, <2>1, WorkerMoves DEF SendAsyncBulk
<1>9. CASE WorkerStalls(w)
  <2>1. jobs' \in [{0, 1} -> Nat]
    BY <1>9 DEF WorkerStalls
  <2> QED
    BY <1>9, <2>1, WorkerMoves DEF WorkerStalls, envW
<1> QED
  BY <1>1, <1>2, <1>3, <1>4, <1>5, <1>6, <1>7, <1>8, <1>9 DEF WorkerStep

\* Every step keeps the types.
LEMMA NextTypeOK == TypeOK /\ [Next]_vars => TypeOK'
<1> SUFFICES ASSUME TypeOK, [Next]_vars
             PROVE  TypeOK'
  OBVIOUS
<1>1. CASE Tick
  BY <1>1, ConstantsAssumption
     DEF Tick, TypeOK, DatabaseTypeOK, ProcessTypeOK, database
<1>2. CASE UNCHANGED vars
  BY <1>2 DEF vars, TypeOK, DatabaseTypeOK, ProcessTypeOK
<1> QED
  BY <1>1, <1>2, RequestTypeOK, WorkerTypeOK DEF Next

\* Every reachable state is well-typed, whatever the requests and the workers
\* do and wherever they die.
THEOREM TypeCorrect == Spec => []TypeOK
  BY InitTypeOK, NextTypeOK, PTL DEF Spec

-----------------------------------------------------------------------------
(* Counting the confirmed sign-ups *)

\* The confirmed sign-ups, of the event and of a slot, can be counted.
LEMMA ConfirmedFinite ==
    ASSUME NEW rows, NEW s
    PROVE  /\ IsFiniteSet(Confirmed(rows)) /\ Cardinality(Confirmed(rows)) \in Nat
           /\ IsFiniteSet(ConfirmedIn(rows, s))
           /\ Cardinality(ConfirmedIn(rows, s)) \in Nat
<1>1. Confirmed(rows) \subseteq Users /\ ConfirmedIn(rows, s) \subseteq Users
  BY DEF Confirmed, ConfirmedIn
<1> QED
  BY <1>1, ConstantsAssumption, FS_Subset, FS_CardinalityType

\* One user more is confirmed.
LEMMA SeatTaken ==
    ASSUME NEW rows, NEW rows2, NEW u \in Users, NEW s \in Slots,
           rows[u].status # "CONFIRMED",
           rows2[u].status = "CONFIRMED", rows2[u].slot = s,
           \A v \in Users \ {u} : /\ rows2[v].status = rows[v].status
                                  /\ rows2[v].slot = rows[v].slot
    PROVE  /\ Cardinality(Confirmed(rows2)) = Cardinality(Confirmed(rows)) + 1
           /\ Cardinality(ConfirmedIn(rows2, s))
                 = Cardinality(ConfirmedIn(rows, s)) + 1
           /\ \A t \in Slots \ {s} : ConfirmedIn(rows2, t) = ConfirmedIn(rows, t)
<1>1. /\ Confirmed(rows2) = Confirmed(rows) \cup {u}
      /\ u \notin Confirmed(rows)
  BY DEF Confirmed
<1>2. /\ ConfirmedIn(rows2, s) = ConfirmedIn(rows, s) \cup {u}
      /\ u \notin ConfirmedIn(rows, s)
  BY DEF Confirmed, ConfirmedIn
<1>3. \A t \in Slots \ {s} : ConfirmedIn(rows2, t) = ConfirmedIn(rows, t)
  BY DEF Confirmed, ConfirmedIn
<1>4. Cardinality(Confirmed(rows) \cup {u}) = Cardinality(Confirmed(rows)) + 1
  <2>1. IsFiniteSet(Confirmed(rows))
    BY ConfirmedFinite
  <2> QED
    BY <1>1, <2>1, FS_AddElement
<1>5. Cardinality(ConfirmedIn(rows, s) \cup {u})
         = Cardinality(ConfirmedIn(rows, s)) + 1
  <2>1. IsFiniteSet(ConfirmedIn(rows, s))
    BY ConfirmedFinite
  <2> QED
    BY <1>2, <2>1, FS_AddElement
<1> QED
  BY <1>1, <1>2, <1>3, <1>4, <1>5

\* The same users hold the same seats.
SameSeats(rows, rows2) ==
    /\ Confirmed(rows2) = Confirmed(rows)
    /\ \A s \in Slots : ConfirmedIn(rows2, s) = ConfirmedIn(rows, s)

\* The seats stay the same if only sign-ups that are not confirmed change.
LEMMA SameSeatsSuffices ==
    ASSUME NEW rows, NEW rows2,
           \A v \in Users :
              \/ /\ rows2[v].status = rows[v].status
                 /\ rows2[v].slot = rows[v].slot
              \/ /\ rows[v].status # "CONFIRMED"
                 /\ rows2[v].status # "CONFIRMED"
    PROVE  SameSeats(rows, rows2)
  BY DEF SameSeats, Confirmed, ConfirmedIn

-----------------------------------------------------------------------------
(* What a write of the repository does to what others have read *)

RowAdvances(u) ==
    \/ signUp'[u].id = 0 \/ signUp'[u].id >= nextId
    \/ /\ signUp'[u].id = signUp[u].id
       /\ signUp'[u].version >= signUp[u].version
       /\ signUp'[u].version = signUp[u].version =>
             signUp'[u].status = signUp[u].status /\ signUp'[u].slot = signUp[u].slot

DatabaseStep ==
    /\ nextId' >= nextId
    /\ \A u \in Users : RowAdvances(u)
    /\ \/ event'.version > event.version
       \/ event'.version = event.version /\ SameSeats(signUp, signUp')

\* A step that writes no row keeps every invariant of the database.
LEMMA NothingWritten ==
    ASSUME TypeOK, DatabaseInv, UNCHANGED database
    PROVE  DatabaseInv' /\ DatabaseStep
<1>1. DatabaseInv'
  BY DEF database, DatabaseInv, EventSeatsAccounted, SlotSeatsAccounted, RowsInv,
         AbsentSlotsEmpty, NoActiveSignUp
<1>2. SameSeats(signUp, signUp')
  BY SameSeatsSuffices DEF database
<1> QED
  BY <1>1, <1>2
     DEF database, DatabaseStep, RowAdvances, TypeOK, DatabaseTypeOK, SignUpRows

\* A request that holds a row or a plan may go on holding it.
LEMMA ReadsAreStable ==
    ASSUME TypeOK, TypeOK', DatabaseStep
    PROVE  /\ \A x \in RequestStates : RequestInv(x) => RequestInv(x)'
           /\ \A x \in WorkerStates : WorkerOK(x) /\ WorkerInv(x) => WorkerInv(x)'
<1>1. ASSUME NEW u \in Users, NEW row \in SignUpRows, ReadEarlier(u, row)
      PROVE  ReadEarlier(u, row)'
  <2>1. /\ row.id \in Nat /\ row.version \in Nat
        /\ signUp[u].id \in Nat /\ signUp[u].version \in Nat
        /\ signUp'[u].id \in Nat /\ signUp'[u].version \in Nat
        /\ nextId \in Nat /\ nextId' \in Nat
    BY DEF TypeOK, DatabaseTypeOK, SignUpRows
  <2>2. nextId' >= nextId /\ RowAdvances(u)
    BY DEF DatabaseStep
  <2> QED
    BY <1>1, <2>1, <2>2 DEF ReadEarlier, RowAdvances
<1>2. ASSUME NEW x \in WritingUpdate,
             SameSeats(signUp, signUp'), PlanAccounted(x)
      PROVE  PlanAccounted(x)'
  <2>1. /\ \A c \in x.change : c.id \in Slots
        /\ \A d \in x.drop : d.id \in Slots
    BY DEF WritingUpdate, SlotChanges, SlotDrops
  <2> QED
    BY <1>2, <2>1 DEF PlanAccounted, SameSeats, EventSeats, SlotSeats
<1>3. ASSUME NEW x \in RequestStates, RequestInv(x)
      PROVE  RequestInv(x)'
  <2>1. CASE x.pc = "demoteWrite"
    <3>1. x.user \in Users /\ x.row \in SignUpRows
      BY <2>1, RequestShape DEF WritingDemotion
    <3> QED
      BY <1>1, <1>3, <2>1, <3>1 DEF RequestInv
  <2>2. CASE x.pc = "updateWrite"
    <3>1. x \in WritingUpdate /\ x.event.version \in Nat
      BY <2>2, RequestShape DEF WritingUpdate, EventRows
    <3>2. event.version \in Nat /\ event'.version \in Nat
      BY DEF TypeOK, DatabaseTypeOK, EventRows
    <3>3. CASE event'.version > event.version
      BY <1>3, <2>2, <3>1, <3>2, <3>3 DEF RequestInv
    <3>4. CASE event'.version = event.version /\ SameSeats(signUp, signUp')
      BY <1>2, <1>3, <2>2, <3>1, <3>4 DEF RequestInv
    <3> QED
      BY <3>3, <3>4 DEF DatabaseStep
  <2>3. CASE x.pc \notin {"demoteWrite", "updateWrite"}
    BY <1>3, <2>3 DEF RequestInv
  <2> QED
    BY <2>1, <2>2, <2>3
<1>4. ASSUME NEW x \in WorkerStates, WorkerOK(x), WorkerInv(x)
      PROVE  WorkerInv(x)'
  <2>1. CASE x.pc = "updateWrite"
    <3>1. x.user \in Users /\ x.row \in SignUpRows
      BY <1>4, <2>1 DEF WorkerOK, WorkerStates
    <3> QED
      BY <1>1, <1>4, <2>1, <3>1 DEF WorkerInv
  <2> QED
    BY <2>1 DEF WorkerInv
<1> QED
  BY <1>3, <1>4

-----------------------------------------------------------------------------
(* Every write of the repository keeps the seats accounted for *)

\* What TakeSeat and FreeSeat write, field by field.
LEMMA TakeSeatFields ==
    ASSUME TypeOK, NEW s \in Slots, TakeSeat(s)
    PROVE  /\ event'.version = event.version + 1
           /\ event'.capacity = event.capacity
           /\ event'.remaining = event.remaining - 1
           /\ \A t \in Slots : /\ slot'[t].capacity = slot[t].capacity
                               /\ slot'[t].state = slot[t].state
           /\ slot'[s].remaining = slot[s].remaining - 1
           /\ \A t \in Slots \ {s} : slot'[t].remaining = slot[t].remaining
  BY DEF TypeOK, DatabaseTypeOK, EventRows, SlotRows, TakeSeat

\* What FreeSeat writes, field by field.
LEMMA FreeSeatFields ==
    ASSUME TypeOK, NEW s \in Slots, FreeSeat(s)
    PROVE  /\ event'.version = event.version + 1
           /\ event'.capacity = event.capacity
           /\ event'.remaining = event.remaining + 1
           /\ \A t \in Slots : /\ slot'[t].capacity = slot[t].capacity
                               /\ slot'[t].state = slot[t].state
           /\ slot'[s].remaining = slot[s].remaining + 1
           /\ \A t \in Slots \ {s} : slot'[t].remaining = slot[t].remaining
  BY DEF TypeOK, DatabaseTypeOK, EventRows, SlotRows, FreeSeat

SeatsAccounted == EventSeatsAccounted /\ SlotSeatsAccounted /\ AbsentSlotsEmpty

\* Capacities and counts are numbers.
LEMMA NumbersOfSeats ==
    ASSUME TypeOK
    PROVE  /\ event.capacity \in Nat /\ event.remaining \in Int
           /\ event.version \in Nat
           /\ \A s \in Slots : slot[s].capacity \in Nat /\ slot[s].remaining \in Int
           /\ Cardinality(Confirmed(signUp)) \in Nat
           /\ \A s \in Slots : Cardinality(ConfirmedIn(signUp, s)) \in Nat
  BY ConfirmedFinite DEF TypeOK, DatabaseTypeOK, EventRows, SlotRows

\* Confirming one user and taking one seat keeps the accounts.
LEMMA SeatTakenAccounted ==
    ASSUME TypeOK, SeatsAccounted, NEW s \in Slots, HasSeat(s), TakeSeat(s),
           NEW u \in Users, signUp[u].status # "CONFIRMED",
           signUp'[u].status = "CONFIRMED", signUp'[u].slot = s,
           \A v \in Users \ {u} : signUp'[v] = signUp[v]
    PROVE  SeatsAccounted' /\ event'.version = event.version + 1
<1>1. /\ Cardinality(Confirmed(signUp')) = Cardinality(Confirmed(signUp)) + 1
      /\ Cardinality(ConfirmedIn(signUp', s))
            = Cardinality(ConfirmedIn(signUp, s)) + 1
      /\ \A t \in Slots \ {s} : ConfirmedIn(signUp', t) = ConfirmedIn(signUp, t)
  BY SeatTaken
<1>2. EventSeatsAccounted'
  BY <1>1, TakeSeatFields, NumbersOfSeats
     DEF SeatsAccounted, EventSeatsAccounted, EventSeats, HasSeat
<1>3. SlotSeatsAccounted'
  BY <1>1, TakeSeatFields, NumbersOfSeats
     DEF SeatsAccounted, SlotSeatsAccounted, SlotSeats, HasSeat
<1>4. AbsentSlotsEmpty'
  BY TakeSeatFields DEF SeatsAccounted, AbsentSlotsEmpty
<1> QED
  BY <1>2, <1>3, <1>4, TakeSeatFields DEF SeatsAccounted

\* Letting one confirmed user go and freeing the seat keeps the accounts.
LEMMA SeatFreedAccounted ==
    ASSUME TypeOK, SeatsAccounted, NEW s \in Slots, FreeSeat(s),
           NEW u \in Users, signUp[u].status = "CONFIRMED", signUp[u].slot = s,
           signUp'[u].status # "CONFIRMED",
           \A v \in Users \ {u} : signUp'[v] = signUp[v]
    PROVE  SeatsAccounted' /\ event'.version = event.version + 1
<1>1. /\ Cardinality(Confirmed(signUp)) = Cardinality(Confirmed(signUp')) + 1
      /\ Cardinality(ConfirmedIn(signUp, s))
            = Cardinality(ConfirmedIn(signUp', s)) + 1
      /\ \A t \in Slots \ {s} : ConfirmedIn(signUp, t) = ConfirmedIn(signUp', t)
  BY SeatTaken
<1>2. /\ Cardinality(Confirmed(signUp')) \in Nat
      /\ Cardinality(ConfirmedIn(signUp', s)) \in Nat
  BY ConfirmedFinite
<1>3. EventSeatsAccounted'
  BY <1>1, <1>2, FreeSeatFields, NumbersOfSeats
     DEF SeatsAccounted, EventSeatsAccounted, EventSeats
<1>4. SlotSeatsAccounted'
  BY <1>1, <1>2, FreeSeatFields, NumbersOfSeats
     DEF SeatsAccounted, SlotSeatsAccounted, SlotSeats
<1>5. AbsentSlotsEmpty'
  BY FreeSeatFields DEF SeatsAccounted, AbsentSlotsEmpty
<1> QED
  BY <1>3, <1>4, <1>5, FreeSeatFields DEF SeatsAccounted

\* A write that leaves the seats alone keeps the accounts.
LEMMA SameSeatsAccounted ==
    ASSUME TypeOK, SeatsAccounted, SameSeats(signUp, signUp'),
           event'.capacity = event.capacity, event'.remaining = event.remaining,
           slot' = slot
    PROVE  SeatsAccounted'
  BY DEF SeatsAccounted, EventSeatsAccounted, EventSeats, SlotSeatsAccounted,
         SlotSeats, AbsentSlotsEmpty, SameSeats

\* createConfirmedSignUp keeps the invariants of the database.
LEMMA CreateConfirmedInv ==
    ASSUME TypeOK, DatabaseInv, NEW u \in Users, NEW s \in Slots,
           CreateConfirmedSignUp(u, s)
    PROVE  DatabaseInv' /\ DatabaseStep
<1>1. /\ signUp'[u] = [id |-> nextId, version |-> 0, status |-> "CONFIRMED",
                       slot |-> s, order |-> 0]
      /\ \A v \in Users \ {u} : signUp'[v] = signUp[v]
      /\ nextId' = nextId + 1 /\ nextId \in Nat
      /\ HasSeat(s) /\ TakeSeat(s)
  BY DEF TypeOK, DatabaseTypeOK, CreateConfirmedSignUp, NewSignUp
<1>2. signUp[u].status # "CONFIRMED"
  BY NoRowType DEF CreateConfirmedSignUp, NoActiveSignUp
<1>3. SeatsAccounted' /\ event'.version = event.version + 1
  BY <1>1, <1>2, SeatTakenAccounted DEF DatabaseInv, SeatsAccounted
<1>4. \A v \in Users : signUp[v].id \in Nat /\ signUp[v].version \in Nat
  BY DEF TypeOK, DatabaseTypeOK, SignUpRows
<1>5. RowsInv'
  <2>1. nextId > 0
    BY <1>1, <1>4 DEF DatabaseInv, RowsInv
  <2> QED
    BY <1>1, <1>4, <2>1, ConstantsAssumption DEF DatabaseInv, RowsInv, NoActiveSignUp
<1>6. DatabaseStep
  BY <1>1, <1>3, <1>4, NumbersOfSeats DEF DatabaseStep, RowAdvances
<1> QED
  BY <1>3, <1>5, <1>6 DEF DatabaseInv, SeatsAccounted

\* createOnWaitlistSignUp keeps the invariants of the database.
LEMMA CreateOnWaitlistInv ==
    ASSUME TypeOK, DatabaseInv, NEW u \in Users, CreateOnWaitlistSignUp(u)
    PROVE  DatabaseInv' /\ DatabaseStep
<1>1. /\ signUp'[u] = [id |-> nextId, version |-> 0, status |-> "ON_WAITLIST",
                       slot |-> NoSlot, order |-> 0]
      /\ \A v \in Users \ {u} : signUp'[v] = signUp[v]
      /\ nextId' = nextId + 1 /\ nextId \in Nat
  BY DEF TypeOK, DatabaseTypeOK, CreateOnWaitlistSignUp, NewSignUp
<1>2. signUp[u].status # "CONFIRMED"
  BY NoRowType DEF CreateOnWaitlistSignUp, NoActiveSignUp
<1>3. /\ event'.version = event.version + 1
      /\ event'.capacity = event.capacity /\ event'.remaining = event.remaining
      /\ slot' = slot
  BY DEF TypeOK, DatabaseTypeOK, EventRows, CreateOnWaitlistSignUp
<1>4. SameSeats(signUp, signUp')
  BY <1>1, <1>2, SameSeatsSuffices
<1>5. SeatsAccounted'
  BY <1>3, <1>4, SameSeatsAccounted DEF DatabaseInv, SeatsAccounted
<1>6. \A v \in Users : signUp[v].id \in Nat /\ signUp[v].version \in Nat
  BY DEF TypeOK, DatabaseTypeOK, SignUpRows
<1>7. RowsInv'
  <2>1. nextId > 0
    BY <1>1, <1>6 DEF DatabaseInv, RowsInv
  <2> QED
    BY <1>1, <1>6, <2>1 DEF DatabaseInv, RowsInv, NoActiveSignUp
<1>8. DatabaseStep
  BY <1>1, <1>3, <1>6, NumbersOfSeats DEF DatabaseStep, RowAdvances
<1> QED
  BY <1>5, <1>7, <1>8 DEF DatabaseInv, SeatsAccounted

\* makeOnWaitlistSignUpConfirmed, given a row that was read earlier, keeps them.
LEMMA MakeConfirmedInv ==
    ASSUME TypeOK, DatabaseInv, NEW u \in Users, NEW s \in Slots,
           NEW row \in SignUpRows, ReadEarlier(u, row), row.status = "ON_WAITLIST",
           MakeOnWaitlistSignUpConfirmed(u, row, s)
    PROVE  DatabaseInv' /\ DatabaseStep
<1>1. /\ signUp'[u].id = signUp[u].id
      /\ signUp'[u].version = signUp[u].version + 1
      /\ signUp'[u].status = "CONFIRMED" /\ signUp'[u].slot = s
      /\ \A v \in Users \ {u} : signUp'[v] = signUp[v]
      /\ nextId' = nextId /\ nextId \in Nat
      /\ HasSeat(s) /\ TakeSeat(s)
  BY DEF TypeOK, DatabaseTypeOK, MakeOnWaitlistSignUpConfirmed, SignUpRows
<1>2. signUp[u].status = "ON_WAITLIST" /\ signUp[u].id > 0
  BY DEF ReadEarlier, MakeOnWaitlistSignUpConfirmed, Unchanged, SignUpRows, TypeOK,
         DatabaseTypeOK
<1>3. SeatsAccounted' /\ event'.version = event.version + 1
  BY <1>1, <1>2, SeatTakenAccounted DEF DatabaseInv, SeatsAccounted
<1>4. \A v \in Users : signUp[v].id \in Nat /\ signUp[v].version \in Nat
  BY DEF TypeOK, DatabaseTypeOK, SignUpRows
<1>5. RowsInv'
  BY <1>1, <1>2, <1>4, ConstantsAssumption DEF DatabaseInv, RowsInv, NoActiveSignUp
<1>6. DatabaseStep
  BY <1>1, <1>3, <1>4, NumbersOfSeats DEF DatabaseStep, RowAdvances
<1> QED
  BY <1>3, <1>5, <1>6 DEF DatabaseInv, SeatsAccounted

\* makeActiveSignUpInactive, given a row that was read earlier, keeps them.
LEMMA MakeInactiveInv ==
    ASSUME TypeOK, DatabaseInv, NEW u \in Users,
           NEW row \in SignUpRows, ReadEarlier(u, row),
           NEW to, MakeActiveSignUpInactive(u, row, to)
    PROVE  DatabaseInv' /\ DatabaseStep
<1>1. /\ signUp'[u] = NoRow
      /\ \A v \in Users \ {u} : signUp'[v] = signUp[v]
      /\ nextId' = nextId /\ nextId \in Nat
  BY DEF TypeOK, DatabaseTypeOK, MakeActiveSignUpInactive, Deactivate
<1>2. signUp[u].status = row.status
  BY DEF ReadEarlier, MakeActiveSignUpInactive, Unchanged, SignUpRows, TypeOK,
         DatabaseTypeOK
<1>3. /\ NoRow.status = "NONE" /\ NoRow.id = 0 /\ NoRow.slot = NoSlot
  BY DEF NoRow
<1>4. \A v \in Users : signUp[v].id \in Nat /\ signUp[v].version \in Nat
  BY DEF TypeOK, DatabaseTypeOK, SignUpRows
<1>5. RowsInv'
  <2>1. nextId > 0
    BY <1>1, <1>4 DEF DatabaseInv, RowsInv
  <2> QED
    BY <1>1, <1>3, <1>4, <2>1 DEF DatabaseInv, RowsInv, NoActiveSignUp
<1>6. SeatsAccounted' /\ \/ event'.version = event.version + 1
                         \/ event' = event /\ SameSeats(signUp, signUp')
  <2>1. CASE row.status = "ON_WAITLIST" /\ UNCHANGED <<event, slot>>
    <3>1. SameSeats(signUp, signUp')
      BY <1>1, <1>2, <1>3, <2>1, SameSeatsSuffices
    <3> QED
      BY <2>1, <3>1, SameSeatsAccounted DEF DatabaseInv, SeatsAccounted
  <2>2. CASE row.status = "CONFIRMED" /\ FreeSeat(signUp[u].slot)
    <3>1. signUp[u].slot \in Slots
      BY <1>2, <2>2 DEF DatabaseInv, RowsInv, TypeOK, DatabaseTypeOK, SignUpRows
    <3> QED
      BY <1>1, <1>2, <1>3, <2>2, <3>1, SeatFreedAccounted
         DEF DatabaseInv, SeatsAccounted
  <2> QED
    BY <2>1, <2>2 DEF MakeActiveSignUpInactive
<1>7. DatabaseStep
  BY <1>1, <1>3, <1>4, <1>6, NumbersOfSeats DEF DatabaseStep, RowAdvances
<1> QED
  BY <1>5, <1>6, <1>7 DEF DatabaseInv, SeatsAccounted

\* A slot that does not exist, or that nobody holds, has no seat taken.
LEMMA EmptySlotCount ==
    ASSUME TypeOK, DatabaseInv, NEW s \in Slots,
           slot[s].state # "present" \/ ConfirmedIn(signUp, s) = {}
    PROVE  Cardinality(ConfirmedIn(signUp, s)) = 0
<1>1. CASE ConfirmedIn(signUp, s) = {}
  BY <1>1, FS_EmptySet
<1>2. CASE slot[s].state # "present"
  BY <1>2, NumbersOfSeats
     DEF DatabaseInv, SlotSeatsAccounted, SlotSeats, AbsentSlotsEmpty
<1> QED
  BY <1>1, <1>2

\* The slots an update leaves behind, one at a time.
LEMMA WrittenSlotAccounted ==
    ASSUME TypeOK, DatabaseInv, NEW plan \in WritingUpdate, PlanAccounted(plan),
           NEW s \in Slots
    PROVE  LET row == WrittenSlot(s, plan) IN
           /\ SlotSeats(s, row, signUp) /\ row.remaining >= 0
           /\ row.state # "present" => row.capacity = 0
<1> DEFINE row == slot[s]
           same == {c \in plan.change : c.id = s /\ c.version = row.version}
           c == CHOOSE x \in same : TRUE
<1>1. CASE [id |-> s, version |-> row.version] \in plan.drop
  <2>1. ConfirmedIn(signUp, s) = {}
    BY <1>1 DEF PlanAccounted
  <2>2. Cardinality(ConfirmedIn(signUp, s)) = 0
    BY <2>1, EmptySlotCount
  <2> QED
    BY <1>1, <2>2 DEF WrittenSlot, DeletedSlot, SlotSeats
<1>2. CASE /\ [id |-> s, version |-> row.version] \notin plan.drop
           /\ row.state = "present" /\ same # {}
  <2>1. c \in same
    BY <1>2
  <2>2. c.id = s /\ SlotSeats(c.id, c, signUp) /\ c.remaining >= 0
    BY <2>1 DEF PlanAccounted
  <2>3. WrittenSlot(s, plan) =
           [state |-> "present", version |-> row.version + 1,
            capacity |-> c.capacity, remaining |-> c.remaining,
            gradeYears |-> c.gradeYears]
    BY <1>2 DEF WrittenSlot
  <2> HIDE DEF c
  <2> QED
    BY <2>2, <2>3 DEF SlotSeats
<1>3. CASE /\ [id |-> s, version |-> row.version] \notin plan.drop
           /\ ~(row.state = "present" /\ same # {})
  <2>1. WrittenSlot(s, plan) = row
    BY <1>3 DEF WrittenSlot
  <2> QED
    BY <2>1 DEF DatabaseInv, SlotSeatsAccounted, AbsentSlotsEmpty
<1> QED
  BY <1>1, <1>2, <1>3

\* EventRepository.update, given a plan made earlier, keeps them.
LEMMA UpdateWriteInv ==
    ASSUME TypeOK, SeatsInv, NEW r \in Requests, UpdateWrite(r)
    PROVE  DatabaseInv' /\ DatabaseStep
<1> DEFINE plan == req[r]
           created(s) == CHOOSE c \in plan.create : c.id = s
<1>1. plan \in WritingUpdate /\ plan.pc = "updateWrite"
  BY RequestShape DEF TypeOK, ProcessTypeOK, UpdateWrite, At
<1>2. CASE UNCHANGED database
  BY <1>2, NothingWritten DEF SeatsInv
<1>3. CASE /\ EventUnchanged(plan.event)
           /\ event' = plan.event
           /\ slot' = [s \in Slots |->
                 IF slot[s].state = "unused" /\ s \in Created(plan)
                 THEN CreatedSlot(created(s))
                 ELSE WrittenSlot(s, plan)]
           /\ UNCHANGED <<signUp, inactive, product, nextId>>
  <2>1. DatabaseInv /\ PlanAccounted(plan)
    BY <1>1, <1>3 DEF SeatsInv, RequestInv, EventUnchanged
  <2>2. EventSeatsAccounted'
    BY <1>3, <2>1 DEF PlanAccounted, EventSeatsAccounted, EventSeats
  <2>3. ASSUME NEW s \in Slots
        PROVE  /\ SlotSeats(s, slot'[s], signUp) /\ slot'[s].remaining >= 0
               /\ slot'[s].state # "present" => slot'[s].capacity = 0
    <3>1. CASE slot[s].state = "unused" /\ s \in Created(plan)
      <4>1. slot'[s] = CreatedSlot(created(s))
        BY <1>3, <3>1
      <4>2. created(s).capacity \in Nat
        BY <1>1, <3>1 DEF Created, WritingUpdate
      <4> HIDE DEF created
      <4>3. Cardinality(ConfirmedIn(signUp, s)) = 0
        BY <2>1, <3>1, EmptySlotCount
      <4> QED
        BY <4>1, <4>2, <4>3 DEF CreatedSlot, SlotSeats
    <3>2. CASE ~(slot[s].state = "unused" /\ s \in Created(plan))
      <4>1. slot'[s] = WrittenSlot(s, plan)
        BY <1>3, <3>2
      <4> HIDE DEF plan
      <4> QED
        BY <1>1, <2>1, <4>1, WrittenSlotAccounted
    <3> QED
      BY <3>1, <3>2
  <2>4. SlotSeatsAccounted' /\ AbsentSlotsEmpty'
    BY <1>3, <2>3 DEF SlotSeatsAccounted, SlotSeats, AbsentSlotsEmpty
  <2>5. RowsInv'
    BY <1>3, <2>1 DEF DatabaseInv, RowsInv, NoActiveSignUp
  <2>6. SameSeats(signUp, signUp')
    BY <1>3, SameSeatsSuffices
  <2>7. DatabaseStep
    BY <1>3, <2>6
       DEF DatabaseStep, RowAdvances, EventUnchanged, TypeOK, DatabaseTypeOK, SignUpRows
  <2> QED
    BY <2>2, <2>4, <2>5, <2>7 DEF DatabaseInv
<1> QED
  BY <1>2, <1>3 DEF UpdateWrite


\* addOrderToSignUp keeps them.
LEMMA AddOrderInv ==
    ASSUME TypeOK, SeatsInv, NEW r \in Requests, SignUpAddOrder(r)
    PROVE  DatabaseInv' /\ DatabaseStep
<1> DatabaseInv
  BY DEF SeatsInv
<1>1. req[r].user \in Users /\ req[r].order \in Nat /\ req[r].id # 0
  BY RequestShape
     DEF TypeOK, ProcessTypeOK, SignUpAddOrder, At, AddingOrder, SeatsInv, RequestInv
<1>2. \A v \in Users : /\ signUp'[v].id = signUp[v].id
                       /\ signUp'[v].version = signUp[v].version
                       /\ signUp'[v].status = signUp[v].status
                       /\ signUp'[v].slot = signUp[v].slot
  BY <1>1, WithOrderType DEF SignUpAddOrder, TypeOK, DatabaseTypeOK
<1>3. \A v \in Users : signUp[v].id # req[r].id => signUp'[v] = signUp[v]
  BY <1>1 DEF SignUpAddOrder, WithOrder, TypeOK, DatabaseTypeOK
<1>4. UNCHANGED <<event, slot, nextId>>
  BY DEF SignUpAddOrder
<1>5. SameSeats(signUp, signUp')
  BY <1>2, SameSeatsSuffices
<1>6. RowsInv'
  <2>1. ASSUME NEW v \in Users, signUp'[v].id = 0 \/ signUp'[v].status = "NONE"
        PROVE  signUp'[v] = NoRow
    <3>1. signUp[v] = NoRow /\ signUp[v].id = 0
      BY <1>2, <2>1 DEF DatabaseInv, RowsInv, NoActiveSignUp, NoRow
    <3> QED
      BY <1>1, <1>3, <3>1
  <2> QED
    BY <1>2, <1>4, <2>1 DEF DatabaseInv, RowsInv, NoActiveSignUp
<1>7. SeatsAccounted'
  BY <1>4, <1>5, SameSeatsAccounted DEF DatabaseInv, SeatsAccounted
<1>8. DatabaseStep
  BY <1>2, <1>4, <1>5
     DEF DatabaseStep, RowAdvances, TypeOK, DatabaseTypeOK, SignUpRows
<1> QED
  BY <1>6, <1>7, <1>8 DEF DatabaseInv, SeatsAccounted

-----------------------------------------------------------------------------
(* SeatsInv is inductive *)

\* The initial rows satisfy SeatsInv.
LEMMA InitSeatsInv == Init => SeatsInv
<1> SUFFICES ASSUME Init
             PROVE  SeatsInv
  OBVIOUS
<1>1. EventSeatsAccounted /\ SlotSeatsAccounted /\ AbsentSlotsEmpty
  BY InitialAssumption
     DEF Init, EventSeatsAccounted, EventSeats, SlotSeatsAccounted, SlotSeats,
         AbsentSlotsEmpty
<1>2. RowsInv
  <2>1. Cardinality(Users) \in Nat
    BY ConstantsAssumption, FS_CardinalityType
  <2>2. NoRow.id = 0 /\ NoRow.status = "NONE" /\ NoRow.slot = NoSlot
    BY DEF NoRow
  <2> QED
    BY <2>1, <2>2, InitialAssumption DEF Init, RowsInv, NoActiveSignUp
<1>3. \A r \in Requests : RequestInv(req[r])
  BY DEF Init, Idle, RequestInv
<1>4. \A w \in Workers : WorkerInv(worker[w])
  BY DEF Init, IdleWorker, WorkerInv
<1> QED
  BY <1>1, <1>2, <1>3, <1>4 DEF SeatsInv, DatabaseInv

\* A request moves on while the rows change as a write of the repository
\* changes them, or not at all.
LEMMA RequestKeepsInv ==
    ASSUME TypeOK, TypeOK', SeatsInv, DatabaseInv', DatabaseStep,
           NEW r \in Requests, NEW x, RequestInv(x), Goto(r, x), UNCHANGED worker
    PROVE  SeatsInv'
<1>1. ASSUME NEW q \in Requests
      PROVE  RequestInv(req[q])'
  <2>1. req'[q] \in {x, req[q]} /\ req'[q] \in RequestStates
    BY DEF Goto, TypeOK, ProcessTypeOK
  <2>2. RequestInv(req'[q])
    BY <2>1 DEF SeatsInv
  <2> QED
    BY <2>1, <2>2, ReadsAreStable DEF RequestInv
<1>2. ASSUME NEW w \in Workers
      PROVE  WorkerInv(worker[w])'
  BY ReadsAreStable DEF SeatsInv, TypeOK, ProcessTypeOK, WorkerInv
<1> QED
  BY <1>1, <1>2 DEF SeatsInv

\* The same of a worker.
LEMMA WorkerKeepsInv ==
    ASSUME TypeOK, TypeOK', SeatsInv, DatabaseInv', DatabaseStep,
           NEW w \in Workers, NEW x, WorkerInv(x), WorkerGoto(w, x), UNCHANGED req
    PROVE  SeatsInv'
<1>1. ASSUME NEW r \in Requests
      PROVE  RequestInv(req[r])'
  BY ReadsAreStable DEF SeatsInv, TypeOK, ProcessTypeOK, RequestInv
<1>2. ASSUME NEW v \in Workers
      PROVE  WorkerInv(worker[v])'
  <2>1. worker'[v] \in {x, worker[v]} /\ WorkerOK(worker'[v])
    BY DEF WorkerGoto, TypeOK, ProcessTypeOK
  <2>2. WorkerInv(worker'[v])
    BY <2>1 DEF SeatsInv
  <2> QED
    BY <2>1, <2>2, ReadsAreStable DEF WorkerInv, WorkerOK
<1> QED
  BY <1>1, <1>2 DEF SeatsInv

\* A request that has read no row holds nothing that could be stale.
LEMMA HoldsNothing ==
    ASSUME NEW x, x.pc \in {"idle", "done", "notify", "getEvent", "findSlot",
                            "waitlist", "confirm", "getSignUp", "demoteRead"}
    PROVE  RequestInv(x)
  BY DEF RequestInv

\* Every step of a request keeps SeatsInv.
LEMMA RequestSeatsInv ==
    ASSUME TypeOK, TypeOK', SeatsInv, NEW r \in Requests,
           RequestCall(r) \/ RequestStep(r) \/ RequestFails(r)
    PROVE  SeatsInv'
<1> DatabaseInv /\ req[r] \in RequestStates /\ RequestInv(req[r])
  BY DEF SeatsInv, TypeOK, ProcessTypeOK
<1> DEFINE Moves(x) == Goto(r, x) /\ UNCHANGED worker
           HarmlessStates == {"idle", "done", "notify", "getEvent", "findSlot",
                              "waitlist", "confirm", "getSignUp", "demoteRead"}
<1>1. ASSUME NEW x, Moves(x), RequestInv(x), UNCHANGED database
      PROVE  SeatsInv'
  BY <1>1, NothingWritten, RequestKeepsInv
<1>2. ASSUME NEW x, Moves(x), x.pc \in HarmlessStates, UNCHANGED database
      PROVE  SeatsInv'
  BY <1>1, <1>2, HoldsNothing
<1>3. ASSUME NEW x, Moves(x), x.pc \in HarmlessStates, DatabaseInv', DatabaseStep
      PROVE  SeatsInv'
  BY <1>3, HoldsNothing, RequestKeepsInv
<1> HIDE DEF Moves, HarmlessStates
<1>4. /\ Done.pc \in HarmlessStates
      /\ \A u, to : Demote(u, to).pc \in HarmlessStates
  BY DEF HarmlessStates, Done, Demote
<1>5. ASSUME NEW p \in MayUpdate[r], Update(r, p)
      PROVE  SeatsInv'
  <2> DEFINE plan == [pc |-> "updateWrite", event |-> UpdatedEvent(p),
                      create |-> p.create,
                      change |-> {UpdatedSlot(c) : c \in p.change},
                      drop |-> {[id |-> s, version |-> slot[s].version] :
                                   s \in p.drop}]
  <2>1. p \in UpdateParams
    BY WorkloadAssumption
  <2>2. CASE ValidUpdate(p) /\ Goto(r, plan)
    <3>1. EventSeats(UpdatedEvent(p), signUp) /\ UpdatedEvent(p).remaining >= 0
      <4>1. /\ Given(p.capacity, event.capacity) \in Nat
            /\ UpdatedEvent(p).capacity = Given(p.capacity, event.capacity)
            /\ UpdatedEvent(p).remaining
                  = event.remaining + Given(p.capacity, event.capacity)
                       - event.capacity
        BY <2>1 DEF UpdatedEvent, Given, UpdateParams, OrUndefined, TypeOK,
                    DatabaseTypeOK, EventRows
      <4> QED
        BY <2>2, <4>1, NumbersOfSeats
           DEF DatabaseInv, EventSeatsAccounted, EventSeats, ValidUpdate
    <3>2. ASSUME NEW c \in p.change
          PROVE  /\ SlotSeats(UpdatedSlot(c).id, UpdatedSlot(c), signUp)
                 /\ UpdatedSlot(c).remaining >= 0
      <4>1. /\ c.id \in Slots
            /\ Given(c.capacity, slot[c.id].capacity) \in Nat
        BY <2>1 DEF UpdateParams, OrUndefined, Given, TypeOK, DatabaseTypeOK, SlotRows
      <4>2. /\ UpdatedSlot(c).id = c.id
            /\ UpdatedSlot(c).capacity = Given(c.capacity, slot[c.id].capacity)
            /\ UpdatedSlot(c).remaining
                  = slot[c.id].remaining + Given(c.capacity, slot[c.id].capacity)
                       - slot[c.id].capacity
        BY DEF UpdatedSlot
      <4> QED
        BY <2>2, <4>1, <4>2, NumbersOfSeats
           DEF DatabaseInv, SlotSeatsAccounted, SlotSeats, ValidUpdate
    <3>3. ASSUME NEW s \in p.drop
          PROVE  ConfirmedIn(signUp, s) = {}
      <4>1. s \in Slots /\ slot[s].remaining = slot[s].capacity
        BY <2>1, <2>2 DEF UpdateParams, ValidUpdate
      <4>2. Cardinality(ConfirmedIn(signUp, s)) = 0
        BY <4>1, NumbersOfSeats DEF DatabaseInv, SlotSeatsAccounted, SlotSeats
      <4> QED
        BY <4>2, ConfirmedFinite, FS_EmptySet
    <3>4. PlanAccounted(plan)
      BY <3>1, <3>2, <3>3 DEF PlanAccounted
    <3>5. UpdatedEvent(p).version = event.version
      BY <2>1, UpdatedTypes DEF TypeOK
    <3>6. RequestInv(plan)
      BY <3>4, <3>5, NumbersOfSeats DEF RequestInv
    <3> QED
      BY <1>1, <1>5, <2>2, <3>6 DEF Update, env, Moves
  <2>3. CASE Goto(r, Done)
    BY <1>2, <1>4, <1>5, <2>3 DEF Update, env, Moves
  <2> QED
    BY <1>5, <2>2, <2>3 DEF Update
<1>6. ASSUME NEW u \in MaySignUp[r], SignUp(r, u)
      PROVE  SeatsInv'
  BY <1>2, <1>6 DEF SignUp, env, Moves, HarmlessStates
<1>7. ASSUME NEW u \in MayRetract[r], Retract(r, u)
      PROVE  SeatsInv'
  BY <1>2, <1>7 DEF Retract, env, Moves, HarmlessStates
<1>8. ASSUME NEW u \in MayRemove[r], Remove(r, u)
      PROVE  SeatsInv'
  BY <1>2, <1>4, <1>8 DEF Remove, env, Moves
<1>9. CASE SignUpGetEvent(r)
  <2>1. req[r] \in Attempting
    BY <1>9, RequestShape DEF SignUpGetEvent, At
  <2>2. /\ [req[r] EXCEPT !.pc = "waitlist"].pc \in HarmlessStates
        /\ [req[r] EXCEPT !.pc = "findSlot"].pc \in HarmlessStates
    BY <2>1 DEF Attempting, HarmlessStates
  <2> QED
    BY <1>2, <1>4, <1>9, <2>2 DEF SignUpGetEvent, env, Moves
<1>10. CASE SignUpFindSlot(r)
  <2>1. req[r] \in Attempting
    BY <1>10, RequestShape DEF SignUpFindSlot, At
  <2>2. [req[r] EXCEPT !.pc = "waitlist"].pc \in HarmlessStates
    BY <2>1 DEF Attempting, HarmlessStates
  <2>3. ASSUME NEW s
        PROVE  [pc |-> "confirm", user |-> req[r].user,
                attempt |-> req[r].attempt, slot |-> s].pc \in HarmlessStates
    BY DEF HarmlessStates
  <2> QED
    BY <1>2, <1>10, <2>2, <2>3 DEF SignUpFindSlot, env, Moves
<1>11. ASSUME Retry(r)
       PROVE  \E x : Goto(r, x) /\ x.pc \in HarmlessStates
  BY <1>4, <1>11 DEF Retry, HarmlessStates
<1>12. CASE SignUpConfirm(r)
  <2>1. req[r].user \in Users /\ req[r].slot \in Slots
    BY <1>12, RequestShape DEF SignUpConfirm, At, Confirming
  <2>2. CASE CreateConfirmedSignUp(req[r].user, req[r].slot)
    <3>1. DatabaseInv' /\ DatabaseStep
      BY <2>1, <2>2, CreateConfirmedInv
    <3>2. nextId # 0
      BY <2>1 DEF DatabaseInv, RowsInv, TypeOK, DatabaseTypeOK, SignUpRows
    <3>3. RequestInv([pc |-> "getProduct", user |-> req[r].user,
                      attempt |-> req[r].attempt, id |-> nextId])
      BY <3>2 DEF RequestInv
    <3>4. CASE Goto(r, [pc |-> "getProduct", user |-> req[r].user,
                        attempt |-> req[r].attempt, id |-> nextId])
      BY <1>12, <3>1, <3>3, <3>4, RequestKeepsInv DEF SignUpConfirm, env
    <3>5. CASE \E x : Goto(r, x) /\ x.pc \in HarmlessStates
      BY <1>3, <1>12, <3>1, <3>5 DEF SignUpConfirm, env, Moves
    <3> QED
      BY <1>4, <1>11, <1>12, <3>4, <3>5 DEF SignUpConfirm
  <2>3. CASE ~CreateConfirmedSignUp(req[r].user, req[r].slot)
    BY <1>2, <1>4, <1>11, <1>12, <2>3 DEF SignUpConfirm, env, Moves
  <2> QED
    BY <2>2, <2>3
<1>13. CASE SignUpWaitlist(r)
  <2>1. req[r].user \in Users
    BY <1>13, RequestShape DEF SignUpWaitlist, At, Attempting
  <2> QED
    BY <1>2, <1>3, <1>4, <1>13, <2>1, CreateOnWaitlistInv
       DEF SignUpWaitlist, env, Moves
<1>14. CASE SignUpGetProduct(r)
  <2>1. RequestInv([pc |-> "createOrder", user |-> req[r].user,
                    attempt |-> req[r].attempt, id |-> req[r].id,
                    version |-> product.version])
    BY <1>14 DEF SignUpGetProduct, At, RequestInv
  <2> QED
    BY <1>1, <1>14, <2>1 DEF SignUpGetProduct, env, Moves
<1>15. CASE SignUpCreateOrder(r)
  <2>1. DatabaseInv' /\ DatabaseStep
    <3>1. DatabaseInv'
      BY <1>15 DEF SignUpCreateOrder, DatabaseInv, EventSeatsAccounted,
                   SlotSeatsAccounted, RowsInv, AbsentSlotsEmpty, NoActiveSignUp
    <3>2. SameSeats(signUp, signUp')
      BY <1>15, SameSeatsSuffices DEF SignUpCreateOrder
    <3> QED
      BY <1>15, <3>1, <3>2 DEF SignUpCreateOrder, DatabaseStep, RowAdvances, TypeOK,
                               DatabaseTypeOK, SignUpRows
  <2>2. RequestInv([pc |-> "addOrder", user |-> req[r].user, id |-> req[r].id,
                    order |-> product.orders + 1])
    BY <1>15 DEF SignUpCreateOrder, At, RequestInv
  <2>3. CASE Retry(r)
    BY <1>3, <1>11, <1>15, <2>1, <2>3 DEF SignUpCreateOrder, env, Moves
  <2>4. CASE ~Retry(r)
    BY <1>15, <2>1, <2>2, <2>4, RequestKeepsInv DEF SignUpCreateOrder, env
  <2> QED
    BY <2>3, <2>4
<1>16. CASE SignUpAddOrder(r)
  BY <1>3, <1>4, <1>16, AddOrderInv DEF SignUpAddOrder, env, Moves
<1>17. CASE RetractGetSignUp(r)
  BY <1>2, <1>4, <1>17 DEF RetractGetSignUp, env, Moves
<1>18. CASE DemoteRead(r)
  <2> DEFINE u == req[r].user
             next == [pc |-> "demoteWrite", user |-> u, to |-> req[r].to,
                      notify |-> req[r].notify, id |-> req[r].id,
                      row |-> signUp[u]]
  <2>1. u \in Users
    BY <1>18, RequestShape DEF DemoteRead, At, Demoting
  <2>2. CASE ~NoActiveSignUp(u) /\ Goto(r, next)
    <3>1. signUp[u].id \in Nat /\ signUp[u].version \in Nat /\ nextId \in Nat
      BY <2>1 DEF TypeOK, DatabaseTypeOK, SignUpRows
    <3>2. ReadEarlier(u, signUp[u])
      BY <2>1, <2>2, <3>1 DEF DatabaseInv, RowsInv, ReadEarlier
    <3>3. RequestInv(next)
      BY <3>2 DEF RequestInv
    <3> QED
      BY <1>1, <1>18, <2>2, <3>3 DEF DemoteRead, env, Moves
  <2>3. CASE Goto(r, Done)
    BY <1>2, <1>4, <1>18, <2>3 DEF DemoteRead, env, Moves
  <2> QED
    BY <1>18, <2>2, <2>3 DEF DemoteRead
<1>19. CASE DemoteWrite(r)
  <2>1. /\ req[r].user \in Users /\ req[r].row \in SignUpRows
        /\ ReadEarlier(req[r].user, req[r].row)
    BY <1>19, RequestShape DEF DemoteWrite, At, WritingDemotion, RequestInv
  <2>2. CASE MakeActiveSignUpInactive(req[r].user, req[r].row, req[r].to)
    <3>1. DatabaseInv' /\ DatabaseStep
      BY <2>1, <2>2, MakeInactiveInv
    <3>2. \E x : Goto(r, x) /\ x.pc \in HarmlessStates
      BY <1>4, <1>19 DEF DemoteWrite, HarmlessStates
    <3> QED
      BY <1>3, <1>19, <3>1, <3>2 DEF DemoteWrite, env, Moves
  <2>3. CASE UNCHANGED database
    <3>1. \E x : Goto(r, x) /\ x.pc \in HarmlessStates
      BY <1>4, <1>19 DEF DemoteWrite, HarmlessStates
    <3> QED
      BY <1>2, <1>19, <2>3, <3>1 DEF DemoteWrite, env, Moves
  <2> QED
    BY <1>19, <2>2, <2>3 DEF DemoteWrite
<1>20. CASE EventCapacityChanged(r)
  BY <1>2, <1>4, <1>20 DEF EventCapacityChanged, Moves
<1>21. CASE UpdateWrite(r)
  BY <1>3, <1>4, <1>21, UpdateWriteInv DEF UpdateWrite, env, Moves
<1>22. CASE RequestFails(r)
  BY <1>2, <1>4, <1>22 DEF RequestFails, env, Moves
<1> QED
  BY <1>5, <1>6, <1>7, <1>8, <1>9, <1>10, <1>12, <1>13, <1>14, <1>15, <1>16, <1>17,
     <1>18, <1>19, <1>20, <1>21, <1>22 DEF RequestCall, RequestStep

\* Every step of a worker keeps SeatsInv.
LEMMA WorkerSeatsInv ==
    ASSUME TypeOK, TypeOK', SeatsInv, NEW w \in Workers,
           WorkerStep(w) \/ WorkerStalls(w)
    PROVE  SeatsInv'
<1> /\ DatabaseInv /\ worker[w] \in WorkerStates /\ WorkerOK(worker[w])
    /\ WorkerInv(worker[w])
  BY DEF SeatsInv, TypeOK, ProcessTypeOK
<1>1. ASSUME NEW x, x.pc # "updateWrite", WorkerGoto(w, x), UNCHANGED <<database, req>>
      PROVE  SeatsInv'
  BY <1>1, NothingWritten, WorkerKeepsInv DEF WorkerInv
<1>2. /\ IdleWorker.pc # "updateWrite"
      /\ \A todo : NextSignUp(w, todo).pc # "updateWrite"
      /\ \A id : Promoted(w, id).pc # "updateWrite"
  BY DEF IdleWorker, NextSignUp, Promoted, WorkerStates
<1>3. ASSUME NEW k \in {0, 1}, TakeJob(w, k)
      PROVE  SeatsInv'
  <2>1. [IdleWorker EXCEPT !.pc = "getEvent", !.stalled = k].pc # "updateWrite"
    BY DEF IdleWorker
  <2> QED
    BY <1>1, <1>3, <2>1 DEF TakeJob, envW
<1>4. CASE WorkerGetEvent(w)
  <2>1. [worker[w] EXCEPT !.pc = IF event.remaining > 0 THEN "promote" ELSE "mail",
                          !.attempts = event.remaining].pc # "updateWrite"
    BY DEF WorkerStates
  <2> QED
    BY <1>1, <1>2, <1>4, <2>1 DEF WorkerGetEvent, envW
<1>5. CASE Promote(w)
  <2>1. [worker[w] EXCEPT !.pc = "findMany"].pc # "updateWrite"
    BY DEF WorkerStates
  <2> QED
    BY <1>1, <1>2, <1>5, <2>1 DEF Promote, envW
<1>6. CASE FindManySignUps(w)
  BY <1>1, <1>2, <1>6 DEF FindManySignUps, envW
<1>7. CASE PromoteFindSlot(w)
  <2>1. ASSUME NEW s, NEW u, NEW todo
        PROVE  [worker[w] EXCEPT !.pc = "updateRead", !.slot = s, !.user = u,
                                 !.todo = todo].pc # "updateWrite"
    BY DEF WorkerStates
  <2>2. \E x : x.pc # "updateWrite" /\ WorkerGoto(w, x)
    BY <1>2, <1>7, <2>1 DEF PromoteFindSlot
  <2> QED
    BY <1>1, <1>7, <2>2 DEF PromoteFindSlot, envW
<1>8. CASE PromoteUpdateRead(w)
  <2> DEFINE u == worker[w].user
             next == [worker[w] EXCEPT !.pc = "updateWrite", !.row = signUp[u]]
  <2>1. CASE signUp[u].status = "ON_WAITLIST" /\ WorkerGoto(w, next)
    <3>1. u \in Users
      BY <1>8 DEF PromoteUpdateRead, WorkerAt, WorkerOK
    <3>2. signUp[u].id \in Nat /\ signUp[u].version \in Nat /\ nextId \in Nat
      BY <3>1 DEF TypeOK, DatabaseTypeOK, SignUpRows
    <3>3. ReadEarlier(u, signUp[u])
      BY <2>1, <3>1, <3>2, NoRowType DEF DatabaseInv, RowsInv, ReadEarlier, NoActiveSignUp
    <3>4. next.user = u /\ next.row = signUp[u]
      BY DEF WorkerStates
    <3>5. WorkerInv(next)
      BY <2>1, <3>3, <3>4 DEF WorkerInv
    <3> QED
      BY <1>8, <2>1, <3>5, NothingWritten, WorkerKeepsInv DEF PromoteUpdateRead, envW
  <2>2. CASE \E x : x.pc # "updateWrite" /\ WorkerGoto(w, x)
    BY <1>1, <1>8, <2>2 DEF PromoteUpdateRead, envW
  <2> QED
    BY <1>2, <1>8, <2>1, <2>2 DEF PromoteUpdateRead
<1>9. CASE PromoteUpdateWrite(w)
  <2> DEFINE u == worker[w].user
             row == worker[w].row
             s == worker[w].slot
  <2>1. /\ u \in Users /\ s \in Slots /\ row \in SignUpRows
        /\ ReadEarlier(u, row) /\ row.status = "ON_WAITLIST"
    BY <1>9 DEF PromoteUpdateWrite, WorkerAt, WorkerOK, WorkerStates, WorkerInv
  <2>2. CASE MakeOnWaitlistSignUpConfirmed(u, row, s)
    <3>1. DatabaseInv' /\ DatabaseStep
      BY <2>1, <2>2, MakeConfirmedInv
    <3>2. \E x : x.pc # "updateWrite" /\ WorkerGoto(w, x)
      BY <1>2, <1>9 DEF PromoteUpdateWrite
    <3> QED
      BY <1>9, <3>1, <3>2, WorkerKeepsInv DEF PromoteUpdateWrite, envW, WorkerInv
  <2>3. CASE UNCHANGED database
    <3>1. \E x : x.pc # "updateWrite" /\ WorkerGoto(w, x)
      BY <1>2, <1>9 DEF PromoteUpdateWrite
    <3> QED
      BY <1>1, <1>9, <2>3, <3>1 DEF PromoteUpdateWrite, envW
  <2> QED
    BY <1>9, <2>2, <2>3 DEF PromoteUpdateWrite
<1>10. CASE SendAsyncBulk(w)
  BY <1>1, <1>2, <1>10 DEF SendAsyncBulk
<1>11. CASE WorkerStalls(w)
  BY <1>1, <1>2, <1>11 DEF WorkerStalls, envW
<1> QED
  BY <1>3, <1>4, <1>5, <1>6, <1>7, <1>8, <1>9, <1>10, <1>11 DEF WorkerStep

\* Every step keeps SeatsInv.
LEMMA NextSeatsInv == TypeOK /\ SeatsInv /\ [Next]_vars => SeatsInv'
<1> SUFFICES ASSUME TypeOK, SeatsInv, [Next]_vars
             PROVE  SeatsInv'
  OBVIOUS
<1>1. TypeOK'
  BY NextTypeOK
<1>2. CASE UNCHANGED <<database, req, worker>>
  <2>1. DatabaseInv' /\ DatabaseStep
    BY <1>2, NothingWritten DEF SeatsInv
  <2> QED
    BY <1>1, <1>2, <2>1, ReadsAreStable
       DEF SeatsInv, TypeOK, ProcessTypeOK, RequestInv, WorkerInv
<1>3. CASE UNCHANGED vars
  BY <1>2, <1>3 DEF vars, database
<1>4. CASE Tick
  BY <1>2, <1>4 DEF Tick
<1> QED
  BY <1>1, <1>3, <1>4, RequestSeatsInv, WorkerSeatsInv DEF Next

\* The rows always agree with one another and with whatever a request or a worker
\* read earlier and may still write: the inductive invariant of signUp,
\* retractSignUp, removeSignUp, update and promoteFromWaitList together.
THEOREM Invariance == Spec => [](TypeOK /\ SeatsInv)
  BY InitTypeOK, InitSeatsInv, NextTypeOK, NextSeatsInv, PTL DEF Spec

\* No interleaving of requests and workers, with crashes anywhere, overbooks the
\* event or a slot, or loses a seat.
THEOREM SeatsAreAccounted == Spec => [](EventSeatsAccounted /\ SlotSeatsAccounted)
<1>1. SeatsInv => EventSeatsAccounted /\ SlotSeatsAccounted
  BY DEF SeatsInv, DatabaseInv
<1> QED
  BY <1>1, Invariance, PTL

\* Deleting a slot never takes a confirmed sign-up with it.
THEOREM ConfirmedKeepTheirSlot == Spec => []ConfirmedHoldsSlot
<1>1. TypeOK /\ SeatsInv => ConfirmedHoldsSlot
  <2> SUFFICES ASSUME TypeOK, SeatsInv, NEW u \in Users
               PROVE  /\ signUp[u].status = "CONFIRMED" <=> signUp[u].slot # NoSlot
                      /\ signUp[u].status = "CONFIRMED" =>
                            slot[signUp[u].slot].state = "present"
    BY DEF ConfirmedHoldsSlot
  <2>1. signUp[u].status = "CONFIRMED" <=> signUp[u].slot # NoSlot
    BY DEF SeatsInv, DatabaseInv, RowsInv
  <2>2. ASSUME signUp[u].status = "CONFIRMED",
               slot[signUp[u].slot].state # "present"
        PROVE  FALSE
    <3> DEFINE s == signUp[u].slot
    <3>1. s \in Slots /\ u \in ConfirmedIn(signUp, s)
      BY <2>1, <2>2 DEF TypeOK, DatabaseTypeOK, SignUpRows, Confirmed, ConfirmedIn
    <3>2. Cardinality(ConfirmedIn(signUp, s)) = 0
      BY <2>2, <3>1, EmptySlotCount DEF SeatsInv
    <3> QED
      BY <3>1, <3>2, ConfirmedFinite, FS_EmptySet
  <2> QED
    BY <2>1, <2>2
<1> QED
  BY <1>1, Invariance, PTL

-----------------------------------------------------------------------------
(* Orders, and what a mail may still be sent about.  Rows only move on: an *)
(* id that is confirmed is never waiting again.                            *)

\* What has an order is confirmed, and a request that is about to create or add
\* an order does so for a sign-up that is confirmed or gone.
Ordered(x) ==
    x.pc \in {"getProduct", "createOrder", "addOrder"} =>
        /\ x.id < nextId
        /\ signUp[x.user].id = x.id => signUp[x.user].status = "CONFIRMED"
OrderInv ==
    /\ \A u \in Users : signUp[u].order # 0 => signUp[u].status = "CONFIRMED"
    /\ \A r \in Requests : Ordered(req[r])

RowMoves(u) ==
    \/ signUp'[u] = signUp[u]
    \/ signUp'[u] = NoRow
    \/ signUp'[u].id = nextId /\ nextId' > nextId /\ signUp'[u].order = 0
    \/ signUp'[u].id = signUp[u].id /\ signUp'[u].status = "CONFIRMED"
RowsMove ==
    /\ nextId' >= nextId
    /\ \A u \in Users : RowMoves(u)
    /\ \A u, v \in Users : u = v \/ signUp'[u] = signUp[u] \/ signUp'[v] = signUp[v]

\* The writes of the repository move the rows they write.
LEMMA WritesMoveRows ==
    ASSUME TypeOK, NEW u \in Users, NEW row, NEW s, NEW to,
           \/ CreateConfirmedSignUp(u, s) \/ CreateOnWaitlistSignUp(u)
           \/ MakeOnWaitlistSignUpConfirmed(u, row, s)
           \/ MakeActiveSignUpInactive(u, row, to)
    PROVE  RowsMove
<1>1. signUp \in [Users -> SignUpRows] /\ nextId \in Nat
  BY DEF TypeOK, DatabaseTypeOK
<1>2. CASE CreateConfirmedSignUp(u, s) \/ CreateOnWaitlistSignUp(u)
  BY <1>1, <1>2 DEF CreateConfirmedSignUp, CreateOnWaitlistSignUp, NewSignUp,
                    RowsMove, RowMoves
<1>3. CASE MakeOnWaitlistSignUpConfirmed(u, row, s)
  BY <1>1, <1>3 DEF MakeOnWaitlistSignUpConfirmed, RowsMove, RowMoves, SignUpRows
<1>4. CASE MakeActiveSignUpInactive(u, row, to)
  BY <1>1, <1>4 DEF MakeActiveSignUpInactive, Deactivate, RowsMove, RowMoves
<1> QED
  BY <1>2, <1>3, <1>4

\* Every step moves rows on.
LEMMA StepsMoveRows ==
    ASSUME TypeOK, OrderInv, [Next]_vars
    PROVE  RowsMove
<1>0. signUp \in [Users -> SignUpRows] /\ nextId \in Nat
  BY DEF TypeOK, DatabaseTypeOK
<1>1. UNCHANGED <<signUp, nextId>> => RowsMove
  BY <1>0 DEF RowsMove, RowMoves
<1>2. ASSUME NEW r \in Requests, RequestCall(r) \/ RequestStep(r) \/ RequestFails(r)
      PROVE  RowsMove
  <2>0. req[r] \in RequestStates
    BY DEF TypeOK, ProcessTypeOK
  <2>1. CASE SignUpConfirm(r)
    <3>1. req[r].user \in Users
      BY <2>0, <2>1, RequestShape DEF SignUpConfirm, At, Confirming
    <3> QED
      BY <1>1, <2>1, <3>1, WritesMoveRows DEF SignUpConfirm, database
  <2>2. CASE SignUpWaitlist(r)
    <3>1. req[r].user \in Users
      BY <2>0, <2>2, RequestShape DEF SignUpWaitlist, At, Attempting
    <3> QED
      BY <1>1, <2>2, <3>1, WritesMoveRows DEF SignUpWaitlist, database
  <2>3. CASE SignUpAddOrder(r)
    <3>1. req[r].user \in Users /\ req[r].order \in Nat
      BY <2>0, <2>3, RequestShape DEF SignUpAddOrder, At, AddingOrder
    <3>2. signUp[req[r].user].id = req[r].id => signUp[req[r].user].status = "CONFIRMED"
      BY <2>3 DEF SignUpAddOrder, At, OrderInv, Ordered
    <3>3. /\ signUp' = WithOrder(signUp, req[r].user, req[r].id, req[r].order)
          /\ nextId' = nextId
      BY <2>3 DEF SignUpAddOrder
    <3>4. \A u \in Users : RowMoves(u)
      BY <1>0, <3>1, <3>2, <3>3 DEF WithOrder, RowMoves, SignUpRows
    <3>5. \A u \in Users \ {req[r].user} : signUp'[u] = signUp[u]
      BY <1>0, <3>3 DEF WithOrder
    <3> QED
      BY <1>0, <3>3, <3>4, <3>5 DEF RowsMove
  <2>4. CASE DemoteWrite(r)
    <3>1. req[r].user \in Users
      BY <2>0, <2>4, RequestShape DEF DemoteWrite, At, WritingDemotion
    <3> QED
      BY <1>1, <2>4, <3>1, WritesMoveRows DEF DemoteWrite, database
  <2>5. CASE ~(SignUpConfirm(r) \/ SignUpWaitlist(r) \/ SignUpAddOrder(r) \/ DemoteWrite(r))
    <3>1. UNCHANGED <<signUp, nextId>>
      BY <1>2, <2>5 DEF RequestCall, RequestStep, RequestFails, SignUp, Retract, Remove,
            Update, SignUpGetEvent, SignUpFindSlot, SignUpGetProduct, SignUpCreateOrder,
            RetractGetSignUp, DemoteRead, EventCapacityChanged, UpdateWrite, database
    <3> QED
      BY <1>1, <3>1
  <2> QED
    BY <2>1, <2>2, <2>3, <2>4, <2>5
<1>3. ASSUME NEW w \in Workers, WorkerStep(w) \/ WorkerStalls(w)
      PROVE  RowsMove
  <2>1. CASE PromoteUpdateWrite(w)
    <3>1. worker[w].user \in Users
      BY <2>1 DEF PromoteUpdateWrite, WorkerAt, TypeOK, ProcessTypeOK, WorkerOK
    <3> QED
      BY <1>1, <2>1, <3>1, WritesMoveRows DEF PromoteUpdateWrite, database
  <2>2. CASE ~PromoteUpdateWrite(w)
    <3>1. UNCHANGED <<signUp, nextId>>
      BY <1>3, <2>2 DEF WorkerStep, WorkerStalls, TakeJob, WorkerGetEvent, Promote,
            FindManySignUps, PromoteFindSlot, PromoteUpdateRead, SendAsyncBulk, database
    <3> QED
      BY <1>1, <3>1
  <2> QED
    BY <2>1, <2>2
<1>4. CASE Tick \/ UNCHANGED vars
  BY <1>1, <1>4 DEF Tick, database, vars
<1> QED
  BY <1>2, <1>3, <1>4 DEF Next

\* Whoever orders goes on ordering for a sign-up that is confirmed or gone.
LEMMA OrderedIsStable ==
    ASSUME TypeOK, TypeOK', RowsMove, NEW x \in RequestStates, RequestInv(x), Ordered(x)
    PROVE  Ordered(x)'
<1>1. CASE x.pc \in {"getProduct", "createOrder", "addOrder"}
  <2>1. x.user \in Users /\ x.id \in Nat /\ x.id # 0 /\ x.id < nextId
    BY <1>1, RequestShape DEF ReadingProduct, CreatingOrder, AddingOrder, RequestInv, Ordered
  <2>2. nextId \in Nat /\ nextId' \in Nat /\ nextId' >= nextId
        /\ RowMoves(x.user) /\ NoRow.id = 0
    BY <2>1 DEF RowsMove, NoRow, TypeOK, DatabaseTypeOK
  <2>3. x.id < nextId'
    BY <2>1, <2>2 DEF TypeOK, DatabaseTypeOK
  <2>4. signUp'[x.user].id = x.id => signUp'[x.user].status = "CONFIRMED"
    BY <1>1, <2>1, <2>2 DEF RowMoves, Ordered
  <2> QED
    BY <2>3, <2>4 DEF Ordered
<1>2. CASE x.pc \notin {"getProduct", "createOrder", "addOrder"}
  BY <1>2 DEF Ordered
<1> QED
  BY <1>1, <1>2

\* Where a request goes, it orders only for what it has just confirmed, or as
\* before.
LEMMA RequestOrders ==
    ASSUME TypeOK, TypeOK', SeatsInv, OrderInv, NEW r \in Requests,
           RequestCall(r) \/ RequestStep(r) \/ RequestFails(r), RowsMove
    PROVE  Ordered(req[r])'
<1>0. req[r] \in RequestStates /\ Ordered(req[r]) /\ RequestInv(req[r])
      /\ req \in [Requests -> RequestStates] /\ req'[r] \in RequestStates
      /\ nextId \in Nat /\ nextId' \in Nat
  BY DEF TypeOK, ProcessTypeOK, DatabaseTypeOK, OrderInv, SeatsInv
<1>1. ASSUME NEW x, Goto(r, x), x.pc \notin {"getProduct", "createOrder", "addOrder"}
      PROVE  Ordered(req[r])'
  BY <1>0, <1>1 DEF Ordered, Goto
<1>2. ASSUME NEW x, Goto(r, x), Ordered(x), RequestInv(x)
      PROVE  Ordered(req[r])'
  <2>1. req'[r] = x
    BY <1>0, <1>2 DEF Goto
  <2>2. Ordered(x)'
    BY <1>0, <1>2, <2>1, OrderedIsStable
  <2> QED
    BY <2>1, <2>2 DEF Ordered
<1>3. CASE SignUpConfirm(r)
  <2> DEFINE x == [pc |-> "getProduct", user |-> req[r].user,
                   attempt |-> req[r].attempt, id |-> nextId]
  <2>1. CASE CreateConfirmedSignUp(req[r].user, req[r].slot) /\ Goto(r, x)
    <3>1. req[r].user \in Users
      BY <1>0, <1>3, RequestShape DEF SignUpConfirm, At, Confirming
    <3>2. signUp'[req[r].user].status = "CONFIRMED" /\ nextId' = nextId + 1
      BY <2>1, <3>1 DEF CreateConfirmedSignUp, NewSignUp, TypeOK, DatabaseTypeOK
    <3>3. req'[r] = x /\ x.id = nextId /\ x.user = req[r].user
      BY <1>0, <2>1 DEF Goto
    <3> QED
      BY <1>0, <3>2, <3>3 DEF Ordered
  <2>2. CASE Goto(r, Done) \/ Retry(r)
    BY <1>1, <2>2 DEF Retry, Done
  <2> QED
    BY <1>3, <2>1, <2>2 DEF SignUpConfirm
<1>4. CASE SignUpGetProduct(r)
  <2> DEFINE x == [pc |-> "createOrder", user |-> req[r].user,
                   attempt |-> req[r].attempt, id |-> req[r].id,
                   version |-> product.version]
  <2>1. Goto(r, x) /\ req[r].pc = "getProduct"
    BY <1>4 DEF SignUpGetProduct, At
  <2>2. Ordered(x) /\ RequestInv(x)
    BY <1>0, <2>1 DEF Ordered, RequestInv
  <2> QED
    BY <1>2, <2>1, <2>2
<1>5. CASE SignUpCreateOrder(r)
  <2> DEFINE x == [pc |-> "addOrder", user |-> req[r].user, id |-> req[r].id,
                   order |-> product.orders + 1]
  <2>1. req[r].pc = "createOrder" /\ (Goto(r, x) \/ Retry(r))
    BY <1>5 DEF SignUpCreateOrder, At
  <2>2. Ordered(x) /\ RequestInv(x)
    BY <1>0, <2>1 DEF Ordered, RequestInv
  <2>3. Retry(r) => Ordered(req[r])'
    BY <1>1 DEF Retry, Done
  <2> QED
    BY <1>2, <2>1, <2>2, <2>3
<1>6. CASE SignUpGetEvent(r) \/ SignUpFindSlot(r)
  <2>1. req[r] \in Attempting
    BY <1>0, <1>6, RequestShape DEF SignUpGetEvent, SignUpFindSlot, At
  <2>2. \A pc \in {"waitlist", "findSlot"} : [req[r] EXCEPT !.pc = pc].pc = pc
    BY <2>1 DEF Attempting
  <2> QED
    BY <1>1, <1>6, <2>2 DEF SignUpGetEvent, SignUpFindSlot, Done
<1>7. CASE ~(SignUpConfirm(r) \/ SignUpGetProduct(r) \/ SignUpCreateOrder(r)
             \/ SignUpGetEvent(r) \/ SignUpFindSlot(r))
  <2>1. \A u, to : Demote(u, to).pc = "demoteRead"
    BY DEF Demote
  <2>2. Done.pc = "done"
    BY DEF Done
  <2> QED
    BY <1>1, <1>7, <2>1, <2>2
       DEF RequestCall, RequestStep, RequestFails, SignUp, Retract, Remove, Update,
           SignUpWaitlist, SignUpAddOrder, RetractGetSignUp, DemoteRead, DemoteWrite,
           EventCapacityChanged, UpdateWrite
<1> QED
  BY <1>3, <1>4, <1>5, <1>6, <1>7

\* Every step keeps OrderInv.
LEMMA NextOrderInv ==
    ASSUME TypeOK, TypeOK', SeatsInv, OrderInv, [Next]_vars
    PROVE  OrderInv'
<1>0. RowsMove /\ signUp' \in [Users -> SignUpRows] /\ req \in [Requests -> RequestStates]
  BY StepsMoveRows DEF TypeOK, DatabaseTypeOK, ProcessTypeOK
<1>1. ASSUME NEW u \in Users, signUp'[u].order # 0 PROVE signUp'[u].status = "CONFIRMED"
  <2>1. RowMoves(u) /\ NoRow.order = 0
    BY <1>0 DEF RowsMove, NoRow
  <2> QED
    BY <1>1, <2>1 DEF RowMoves, OrderInv
<1>2. ASSUME NEW q \in Requests, req'[q] = req[q] PROVE Ordered(req[q])'
  <2>1. PICK x : x = req[q]
    OBVIOUS
  <2>2. x \in RequestStates /\ RequestInv(x) /\ Ordered(x)
    BY <1>0, <2>1 DEF SeatsInv, OrderInv
  <2>3. Ordered(x)'
    BY <1>0, <2>2, OrderedIsStable
  <2> QED
    BY <1>2, <2>1, <2>3 DEF Ordered
<1>3. ASSUME NEW q \in Requests PROVE Ordered(req[q])'
  <2>1. CASE RequestCall(q) \/ RequestStep(q) \/ RequestFails(q)
    BY <1>0, <2>1, RequestOrders
  <2>2. CASE ~(RequestCall(q) \/ RequestStep(q) \/ RequestFails(q))
    <3>1. ASSUME NEW r \in Requests, r # q,
                 RequestCall(r) \/ RequestStep(r) \/ RequestFails(r)
          PROVE  req'[q] = req[q]
      <4>1. PICK x : Goto(r, x)
        BY <3>1 DEF RequestCall, RequestStep, RequestFails, SignUp, Retract, Remove,
              Update, SignUpGetEvent, SignUpFindSlot, SignUpConfirm, Retry,
              SignUpWaitlist, SignUpGetProduct, SignUpCreateOrder, SignUpAddOrder,
              RetractGetSignUp, DemoteRead, DemoteWrite, EventCapacityChanged, UpdateWrite
      <4> QED
        BY <1>0, <3>1, <4>1 DEF Goto
    <3>2. ASSUME NEW w \in Workers, WorkerStep(w) \/ WorkerStalls(w)
          PROVE  req' = req
      BY <3>2 DEF WorkerStep, WorkerStalls, TakeJob, WorkerGetEvent, Promote,
            FindManySignUps, PromoteFindSlot, PromoteUpdateRead, PromoteUpdateWrite,
            SendAsyncBulk, envW
    <3>3. Tick \/ UNCHANGED vars => req' = req
      BY DEF Tick, vars
    <3> QED
      BY <1>2, <2>2, <3>1, <3>2, <3>3 DEF Next
  <2> QED
    BY <2>1, <2>2
<1> QED
  BY <1>1, <1>3 DEF OrderInv

\* Nobody waits with an order at first.
NobodyWaitsWithOrder ==
    \A u \in Users :
        InitialSignUps[u].order # 0 => InitialSignUps[u].status = "CONFIRMED"

\* Nobody on the wait list ever has an order to pay for, whatever is retracted,
\* removed and signed up again while an order is created in several steps.
THEOREM WaitingHaveNoOrder ==
    ASSUME NobodyWaitsWithOrder PROVE Spec => []WaitListHasNoOrder
<1>1. Init => OrderInv
  BY DEF Init, OrderInv, Ordered, Idle, NobodyWaitsWithOrder
<1>2. TypeOK /\ TypeOK' /\ SeatsInv /\ OrderInv /\ [Next]_vars => OrderInv'
  BY NextOrderInv
<1>3. OrderInv => WaitListHasNoOrder
  BY DEF OrderInv, WaitListHasNoOrder, OnWaitList
<1> QED
  BY <1>1, <1>2, <1>3, Invariance, PTL DEF Spec

-----------------------------------------------------------------------------
(* Mails about promotions *)

\* There is one worker process.
OneWorker == \A v, w \in Workers : v = w

\* An id that is confirmed for good, until its row is gone for good.
Settled(id) ==
    /\ id \in Nat /\ id # 0 /\ id < nextId
    /\ \A u \in Users : signUp[u].id = id => signUp[u].status = "CONFIRMED"

\* The users a worker may still promote in the loop it is in.
Candidate(x, u) ==
    \/ \E t \in x.todo : t.user = u
    \/ x.pc \in {"updateRead", "updateWrite"} /\ x.user = u

\* What a worker will mail about has not been mailed about, nor has any row of
\* the users it may still promote.
MailFits(x) ==
    /\ \A id \in x.newSignUps : Settled(id) /\ id \notin mailed
    /\ \A u \in Users : Candidate(x, u) => signUp[u].id \notin mailed

UniqueIds ==
    \A u, v \in Users : signUp[u].id = signUp[v].id /\ signUp[u].id # 0 => u = v

MailInv ==
    /\ UniqueIds
    /\ \A id \in mailed : Settled(id)
    /\ \A w \in Workers : MailFits(worker[w])

\* Ids stay unique and settled while rows move on.
LEMMA IdsAreStable ==
    ASSUME TypeOK, TypeOK', SeatsInv, RowsMove, UniqueIds
    PROVE  /\ UniqueIds'
           /\ \A id : Settled(id) => Settled(id)'
           /\ \A u \in Users : (\A id \in mailed : Settled(id)) /\ signUp[u].id \notin mailed
                  => signUp'[u].id \notin mailed
<1>1. /\ nextId \in Nat /\ nextId' \in Nat /\ nextId' >= nextId /\ NoRow.id = 0
      /\ \A u \in Users : signUp[u].id \in Nat /\ signUp[u].id < nextId /\ RowMoves(u)
      /\ \A u \in Users : signUp'[u].id \in {0, signUp[u].id, nextId}
  <2>1. \A u \in Users : signUp[u].id < nextId
    BY DEF SeatsInv, DatabaseInv, RowsInv
  <2> QED
    BY <2>1 DEF TypeOK, DatabaseTypeOK, SignUpRows, RowsMove, RowMoves, NoRow
<1>2. ASSUME NEW u \in Users, NEW v \in Users, signUp'[u].id = signUp'[v].id,
             signUp'[u].id # 0
      PROVE  u = v
  <2>1. u = v \/ signUp'[u] = signUp[u] \/ signUp'[v] = signUp[v]
    BY DEF RowsMove
  <2>2. \A x, y \in Users : signUp'[x] = signUp[x] /\ signUp'[x].id = signUp'[y].id
            /\ signUp'[x].id # 0 => x = y
    BY <1>1 DEF UniqueIds
  <2> QED
    BY <1>2, <2>1, <2>2
<1>3. ASSUME NEW id, Settled(id) PROVE Settled(id)'
  <2>1. id \in Nat /\ id # 0 /\ id < nextId'
    BY <1>1, <1>3 DEF Settled
  <2>2. ASSUME NEW u \in Users, signUp'[u].id = id PROVE signUp'[u].status = "CONFIRMED"
    <3>1. RowMoves(u) /\ id < nextId /\ id # 0 /\ id \in Nat
      BY <1>1, <1>3 DEF Settled
    <3> QED
      BY <1>1, <1>3, <2>2, <3>1 DEF RowMoves, Settled
  <2> QED
    BY <2>1, <2>2 DEF Settled
<1>4. ASSUME NEW u \in Users, \A id \in mailed : Settled(id), signUp[u].id \notin mailed
      PROVE  signUp'[u].id \notin mailed
  <2>1. \A id \in mailed : id \in Nat /\ id # 0 /\ id < nextId
    BY <1>4 DEF Settled
  <2> QED
    BY <1>1, <1>4, <2>1
<1> QED
  BY <1>2, <1>3, <1>4 DEF UniqueIds

\* What a worker holds stays fit while nothing is mailed.
LEMMA FitsAreStable ==
    ASSUME TypeOK, TypeOK', SeatsInv, RowsMove, MailInv, UNCHANGED mailed,
           NEW x, MailFits(x)
    PROVE  MailFits(x)'
<1>1. ASSUME NEW id \in x.newSignUps PROVE Settled(id)' /\ id \notin mailed'
  BY IdsAreStable DEF MailFits, MailInv
<1>2. ASSUME NEW u \in Users, Candidate(x, u) PROVE signUp'[u].id \notin mailed'
  BY <1>2, IdsAreStable DEF MailFits, MailInv
<1> QED
  BY <1>1, <1>2 DEF MailFits, Candidate

\* A worker that mails nothing moves to a state that is fit.
LEMMA WorkerFits ==
    ASSUME TypeOK, TypeOK', SeatsInv, MailInv, RowsMove, NEW w \in Workers,
           WorkerStep(w) \/ WorkerStalls(w), ~SendAsyncBulk(w)
    PROVE  MailFits(worker[w])' /\ UNCHANGED mailed
<1>0. /\ worker[w] \in WorkerStates /\ WorkerOK(worker[w]) /\ MailFits(worker[w])
      /\ worker \in [Workers -> WorkerStates] /\ UNCHANGED mailed
  BY DEF TypeOK, ProcessTypeOK, MailInv, WorkerStep, WorkerStalls, TakeJob,
         WorkerGetEvent, Promote, FindManySignUps, PromoteFindSlot,
         PromoteUpdateRead, PromoteUpdateWrite, envW
<1> SUFFICES MailFits(worker[w])'
  BY <1>0
<1>1. ASSUME NEW x, WorkerGoto(w, x), MailFits(x) PROVE MailFits(worker[w])'
  <2>1. worker'[w] = x
    BY <1>0, <1>1 DEF WorkerGoto
  <2>2. MailFits(x)'
    BY <1>0, <1>1, FitsAreStable
  <2> QED
    BY <2>1, <2>2 DEF MailFits, Candidate
<1>2. ASSUME NEW x, x.newSignUps \subseteq worker[w].newSignUps,
             \A u \in Users : Candidate(x, u) => Candidate(worker[w], u)
      PROVE  MailFits(x)
  BY <1>0, <1>2 DEF MailFits
<1>3. MailFits(IdleWorker)
  BY DEF MailFits, IdleWorker, Candidate
<1>4. ASSUME NEW todo, \A t \in todo : \E s \in worker[w].todo : s.user = t.user
      PROVE  MailFits(NextSignUp(w, todo))
  <2>1. /\ NextSignUp(w, todo).newSignUps = worker[w].newSignUps
        /\ NextSignUp(w, todo).todo = todo
        /\ NextSignUp(w, todo).pc \notin {"updateRead", "updateWrite"}
    BY <1>0 DEF NextSignUp, WorkerStates
  <2> QED
    BY <1>2, <1>4, <2>1 DEF Candidate
<1>5. \A id : /\ Promoted(w, id).newSignUps = worker[w].newSignUps \cup {id}
              /\ Promoted(w, id).todo = {}
              /\ Promoted(w, id).pc \notin {"updateRead", "updateWrite"}
  BY DEF Promoted, IdleWorker
<1>6. ASSUME NEW k \in {0, 1}, TakeJob(w, k) PROVE MailFits(worker[w])'
  <2> DEFINE x == [IdleWorker EXCEPT !.pc = "getEvent", !.stalled = k]
  <2>1. MailFits(x)
    BY DEF MailFits, IdleWorker, Candidate
  <2> QED
    BY <1>1, <1>6, <2>1 DEF TakeJob
<1>7. CASE WorkerGetEvent(w) \/ Promote(w)
  <2> DEFINE x == [worker[w] EXCEPT
                      !.pc = IF event.remaining > 0 THEN "promote" ELSE "mail",
                      !.attempts = event.remaining]
             y == [worker[w] EXCEPT !.pc = "findMany"]
  <2>1. /\ x.newSignUps = worker[w].newSignUps /\ x.todo = worker[w].todo
        /\ x.pc \notin {"updateRead", "updateWrite"}
        /\ y.newSignUps = worker[w].newSignUps /\ y.todo = worker[w].todo
        /\ y.pc \notin {"updateRead", "updateWrite"}
    BY <1>0 DEF WorkerStates
  <2>2. WorkerGoto(w, IdleWorker) \/ WorkerGoto(w, x) \/ WorkerGoto(w, y)
    BY <1>7 DEF WorkerGetEvent, Promote
  <2> HIDE DEF x, y
  <2>3. MailFits(x) /\ MailFits(y)
    BY <1>2, <2>1 DEF Candidate
  <2> QED
    BY <1>1, <1>3, <2>2, <2>3
<1>8. CASE FindManySignUps(w)
  <2> DEFINE todo == {[user |-> u, id |-> signUp[u].id] : u \in OnWaitList(signUp)}
             x == NextSignUp(w, todo)
  <2>1. /\ x.newSignUps = worker[w].newSignUps /\ x.todo = todo
        /\ x.pc \notin {"updateRead", "updateWrite"}
    BY <1>0 DEF NextSignUp, WorkerStates
  <2>2. ASSUME NEW u \in Users, Candidate(x, u) PROVE signUp[u].id \notin mailed
    <3>1. signUp[u].status = "ON_WAITLIST"
      BY <2>1, <2>2 DEF Candidate, OnWaitList
    <3> QED
      BY <3>1 DEF MailInv, Settled
  <2>3. MailFits(x)
    BY <1>0, <2>1, <2>2 DEF MailFits
  <2> QED
    BY <1>1, <1>8, <2>3 DEF FindManySignUps
<1>9. CASE PromoteFindSlot(w)
  <2>1. PICK next \in worker[w].todo :
          \/ WorkerGoto(w, NextSignUp(w, worker[w].todo \ {next}))
          \/ \E s : WorkerGoto(w, [worker[w] EXCEPT !.pc = "updateRead", !.slot = s,
                                     !.user = next.user, !.todo = worker[w].todo \ {next}])
    BY <1>9 DEF PromoteFindSlot, First, Rest
  <2>2. MailFits(NextSignUp(w, worker[w].todo \ {next}))
    BY <1>4
  <2>3. ASSUME NEW s
        PROVE  MailFits([worker[w] EXCEPT !.pc = "updateRead", !.slot = s,
                                     !.user = next.user, !.todo = worker[w].todo \ {next}])
    <3> DEFINE x == [worker[w] EXCEPT !.pc = "updateRead", !.slot = s,
                             !.user = next.user, !.todo = worker[w].todo \ {next}]
    <3>1. /\ x.newSignUps = worker[w].newSignUps /\ x.todo = worker[w].todo \ {next}
          /\ x.user = next.user
      BY <1>0 DEF WorkerStates
    <3> QED
      BY <1>2, <3>1 DEF Candidate
  <2> QED
    BY <1>1, <2>1, <2>2, <2>3
<1>10. ASSUME NEW u \in Users, u = worker[w].user, signUp[u].status = "CONFIRMED",
              worker[w].pc = "updateRead", WorkerGoto(w, Promoted(w, signUp[u].id))
       PROVE  MailFits(worker[w])'
  <2>1. signUp[u].id \notin mailed
    BY <1>0, <1>10 DEF MailFits, Candidate
  <2>2. signUp[u].id \in Nat /\ signUp[u].id # 0 /\ signUp[u].id < nextId
    BY <1>10, NoRowType DEF SeatsInv, DatabaseInv, RowsInv, NoActiveSignUp, TypeOK,
                            DatabaseTypeOK, SignUpRows
  <2>3. Settled(signUp[u].id)
    BY <1>10, <2>2 DEF Settled, MailInv, UniqueIds
  <2>4. MailFits(Promoted(w, signUp[u].id))
    BY <1>0, <1>5, <2>1, <2>3 DEF MailFits, Candidate
  <2> QED
    BY <1>1, <1>10, <2>4
<1>11. CASE PromoteUpdateRead(w)
  <2> DEFINE u == worker[w].user
             x == [worker[w] EXCEPT !.pc = "updateWrite", !.row = signUp[u]]
  <2>1. worker[w].pc = "updateRead" /\ u \in Users
    BY <1>0, <1>11 DEF PromoteUpdateRead, WorkerAt, WorkerOK
  <2>2. /\ x.newSignUps = worker[w].newSignUps /\ x.todo = worker[w].todo /\ x.user = u
    BY <1>0 DEF WorkerStates
  <2>3. MailFits(x)
    BY <1>2, <2>1, <2>2 DEF Candidate
  <2> HIDE DEF x
  <2>4. \/ WorkerGoto(w, IdleWorker)
        \/ signUp[u].status = "CONFIRMED" /\ WorkerGoto(w, Promoted(w, signUp[u].id))
        \/ WorkerGoto(w, x)
    BY <1>11 DEF PromoteUpdateRead, x
  <2> QED
    BY <1>1, <1>3, <1>10, <2>1, <2>3, <2>4
<1>12. CASE PromoteUpdateWrite(w)
  <2> DEFINE u == worker[w].user
             row == worker[w].row
             s == worker[w].slot
  <2>1. worker[w].pc = "updateWrite" /\ u \in Users /\ row \in SignUpRows
    BY <1>0, <1>12 DEF PromoteUpdateWrite, WorkerAt, WorkerOK, WorkerStates
  <2>2. CASE MakeOnWaitlistSignUpConfirmed(u, row, s) /\ WorkerGoto(w, Promoted(w, row.id))
    <3>0. PICK n : n = row.id
      OBVIOUS
    <3>1. signUp[u].id = n /\ n \notin mailed'
      BY <1>0, <2>1, <2>2, <3>0
         DEF MakeOnWaitlistSignUpConfirmed, Unchanged, MailFits, Candidate
    <3>2. n \in Nat /\ n # 0 /\ n < nextId'
      <4>1. n \in 1..(nextId - 1) /\ nextId \in Nat /\ nextId' = nextId
        BY <2>1, <2>2, <3>0 DEF SeatsInv, WorkerInv, ReadEarlier,
              MakeOnWaitlistSignUpConfirmed, TypeOK, DatabaseTypeOK
      <4> QED
        BY <4>1
    <3>3. PICK v \in Users : v = u
      BY <2>1
    <3>4. signUp'[v].status = "CONFIRMED" /\ signUp'[v].id = n
      BY <2>1, <2>2, <3>1, <3>3
         DEF MakeOnWaitlistSignUpConfirmed, TypeOK, DatabaseTypeOK, SignUpRows
    <3>5. UniqueIds' /\ \A id : Settled(id) => Settled(id)'
      BY IdsAreStable DEF MailInv
    <3>6. Settled(n)'
      <4>1. \A z \in Users : signUp'[z].id = n => signUp'[z].status = "CONFIRMED"
        BY <3>2, <3>4, <3>5 DEF UniqueIds
      <4> QED
        BY <3>2, <4>1 DEF Settled
    <3>7. worker'[w].newSignUps = worker[w].newSignUps \cup {n}
          /\ worker'[w].todo = {} /\ worker'[w].pc \notin {"updateRead", "updateWrite"}
      BY <1>0, <1>5, <2>2, <3>0 DEF WorkerGoto
    <3>8. ASSUME NEW id \in worker'[w].newSignUps PROVE Settled(id)' /\ id \notin mailed'
      BY <1>0, <3>1, <3>5, <3>6, <3>7, <3>8 DEF MailFits
    <3>9. ~\E z \in Users : Candidate(worker'[w], z)
      BY <3>7 DEF Candidate
    <3> QED
      BY <3>8, <3>9 DEF MailFits, Candidate
  <2>3. CASE WorkerGoto(w, NextSignUp(w, worker[w].todo))
    BY <1>1, <1>4, <2>3
  <2> QED
    BY <1>12, <2>2, <2>3 DEF PromoteUpdateWrite
<1>13. CASE WorkerStalls(w)
  BY <1>1, <1>3, <1>13 DEF WorkerStalls
<1> QED
  BY <1>0, <1>6, <1>7, <1>8, <1>9, <1>11, <1>12, <1>13 DEF WorkerStep

\* Every step keeps MailInv, with one worker.
LEMMA NextMailInv ==
    ASSUME OneWorker, TypeOK, TypeOK', SeatsInv, OrderInv, MailInv, [Next]_vars
    PROVE  MailInv'
<1>0. RowsMove /\ UniqueIds' /\ \A id : Settled(id) => Settled(id)'
  BY StepsMoveRows, IdsAreStable DEF MailInv
<1>1. ASSUME UNCHANGED <<mailed, worker>> PROVE MailInv'
  <2>1. ASSUME NEW w \in Workers PROVE MailFits(worker[w])'
    <3>1. PICK x : x = worker[w]
      OBVIOUS
    <3>2. MailFits(x)'
      BY <1>0, <1>1, <3>1, FitsAreStable DEF MailInv
    <3> QED
      BY <1>1, <3>1, <3>2 DEF MailFits, Candidate
  <2>2. \A id \in mailed' : Settled(id)'
    BY <1>0, <1>1 DEF MailInv
  <2> QED
    BY <1>0, <2>1, <2>2 DEF MailInv
<1>2. ASSUME NEW w \in Workers, WorkerStep(w) \/ WorkerStalls(w), ~SendAsyncBulk(w)
      PROVE  MailInv'
  <2>1. MailFits(worker[w])' /\ UNCHANGED mailed
    BY <1>0, <1>2, WorkerFits
  <2>2. \A v \in Workers : MailFits(worker[v])'
    BY <2>1 DEF OneWorker
  <2>3. \A id \in mailed' : Settled(id)'
    BY <1>0, <2>1 DEF MailInv
  <2> QED
    BY <1>0, <2>2, <2>3 DEF MailInv
<1>3. ASSUME NEW w \in Workers, SendAsyncBulk(w) PROVE MailInv'
  <2>1. mailed' = mailed \cup worker[w].newSignUps /\ worker'[w] = IdleWorker
    BY <1>3 DEF SendAsyncBulk, WorkerGoto, TypeOK, ProcessTypeOK
  <2>2. \A id \in mailed' : Settled(id)'
    BY <1>0, <2>1 DEF MailInv, MailFits
  <2>3. MailFits(worker[w])'
    BY <2>1 DEF MailFits, IdleWorker, Candidate
  <2>4. \A v \in Workers : MailFits(worker[v])'
    BY <2>3 DEF OneWorker
  <2> QED
    BY <1>0, <2>2, <2>4 DEF MailInv
<1>4. ASSUME NEW r \in Requests, RequestCall(r) \/ RequestStep(r) \/ RequestFails(r)
      PROVE  UNCHANGED <<mailed, worker>>
  BY <1>4 DEF RequestCall, RequestStep, RequestFails, SignUp, Retract, Remove, Update,
        SignUpGetEvent, SignUpFindSlot, SignUpConfirm, SignUpWaitlist, SignUpGetProduct,
        SignUpCreateOrder, SignUpAddOrder, RetractGetSignUp, DemoteRead, DemoteWrite,
        EventCapacityChanged, UpdateWrite, env
<1>5. Tick \/ UNCHANGED vars => UNCHANGED <<mailed, worker>>
  BY DEF Tick, vars
<1> QED
  BY <1>1, <1>2, <1>3, <1>4, <1>5 DEF Next

\* As long as there is one worker, nobody is mailed twice about a sign-up that
\* was promoted, however often jobs stall, overlap with retractions, or find a
\* sign-up that is confirmed already.
THEOREM PromotionIsMailedOnce ==
    ASSUME OneWorker, NobodyWaitsWithOrder PROVE Spec => MailedOnce
<1>1. Init => OrderInv /\ MailInv
  <2> SUFFICES ASSUME Init PROVE OrderInv /\ MailInv
    OBVIOUS
  <2>1. OrderInv
    BY DEF Init, OrderInv, Ordered, Idle, NobodyWaitsWithOrder
  <2>2. UniqueIds
    BY InitialAssumption DEF Init, UniqueIds, NoRow
  <2>3. \A w \in Workers : MailFits(worker[w])
    BY DEF Init, IdleWorker, MailFits, Candidate
  <2>4. mailed = {}
    BY DEF Init
  <2> QED
    BY <2>1, <2>2, <2>3, <2>4 DEF MailInv
<1>2. TypeOK /\ TypeOK' /\ SeatsInv /\ OrderInv /\ MailInv /\ [Next]_vars
          => OrderInv' /\ MailInv'
  BY NextOrderInv, NextMailInv
<1>3. MailInv => [\A w \in Workers : SendAsyncBulk(w) =>
                     mailed \cap worker[w].newSignUps = {}]_vars
  BY DEF MailInv, MailFits
<1> QED
  BY <1>1, <1>2, <1>3, Invariance, PTL DEF Spec, MailedOnce
-----------------------------------------------------------------------------
(* Eligible slots.  A request or a worker finds a slot that is open to its *)
(* user, and confirms the user in it some steps later.                     *)

\* What is known of a slot that was found open to a year.
FoundOpen(s, year) ==
    /\ slot[s].state # "unused"
    /\ slot[s].state = "present" => OpenTo(slot[s], year)
EligibleInv ==
    /\ \A r \in Requests : At(r, "confirm") =>
          FoundOpen(req[r].slot, GradeYear[req[r].user])
    /\ \A w \in Workers : worker[w].pc \in {"updateRead", "updateWrite"} =>
          FoundOpen(worker[w].slot, Undefined)

\* No step closes a slot to the year it was found for: no update takes a grade
\* year from a slot between the moment it is found and the moment it is filled.
StaysOpen(s, year) ==
    /\ slot[s].state = "present" /\ OpenTo(slot[s], year)
    /\ slot'[s].state = "present"
       => OpenTo(slot'[s], year)
ClosesNoFoundSlot ==
    /\ \A r \in Requests : At(r, "confirm") =>
          StaysOpen(req[r].slot, GradeYear[req[r].user])
    /\ \A w \in Workers : worker[w].pc \in {"updateRead", "updateWrite"} =>
          StaysOpen(worker[w].slot, Undefined)

\* A slot never becomes unused, or present once it is deleted.
SlotsAge == \A s \in Slots :
    slot[s].state # "unused" =>
        /\ slot'[s].state # "unused"
        /\ slot'[s].state = "present" => slot[s].state = "present"

\* The repository's writes of one seat leave the state of the slots.
LEMMA SeatsKeepStates ==
    ASSUME TypeOK, NEW s, TakeSeat(s) \/ FreeSeat(s)
    PROVE  \A t \in Slots : slot'[t].state = slot[t].state
  BY DEF TypeOK, DatabaseTypeOK, SlotRows, TakeSeat, FreeSeat

\* Every step lets slots age.
LEMMA StepsAgeSlots ==
    ASSUME TypeOK, [Next]_vars
    PROVE  SlotsAge
<1>1. slot' = slot => SlotsAge
  BY DEF SlotsAge
<1>2. ASSUME NEW s, TakeSeat(s) \/ FreeSeat(s)
      PROVE  SlotsAge
  BY <1>2, SeatsKeepStates DEF SlotsAge
<1>3. ASSUME NEW r \in Requests, RequestCall(r) \/ RequestStep(r) \/ RequestFails(r)
      PROVE  SlotsAge
  <2>1. CASE SignUpConfirm(r)
    BY <1>1, <1>2, <2>1 DEF SignUpConfirm, CreateConfirmedSignUp, database
  <2>2. CASE DemoteWrite(r)
    BY <1>1, <1>2, <2>2 DEF DemoteWrite, MakeActiveSignUpInactive, database
  <2>3. CASE UpdateWrite(r)
    <3> SUFFICES ASSUME slot' # slot, NEW s \in Slots, slot[s].state # "unused"
                 PROVE  /\ slot'[s].state # "unused"
                        /\ slot'[s].state = "present" => slot[s].state = "present"
      BY <1>1 DEF SlotsAge
    <3>1. slot'[s] = WrittenSlot(s, req[r])
      BY <2>3 DEF UpdateWrite, database
    <3>2. \/ WrittenSlot(s, req[r]) = DeletedSlot
          \/ WrittenSlot(s, req[r]) = slot[s]
          \/ slot[s].state = "present" /\ WrittenSlot(s, req[r]).state = "present"
      BY DEF WrittenSlot
    <3> QED
      BY <3>1, <3>2 DEF DeletedSlot
  <2>4. CASE ~(SignUpConfirm(r) \/ DemoteWrite(r) \/ UpdateWrite(r))
    <3>1. slot' = slot
      BY <1>3, <2>4 DEF RequestCall, RequestStep, RequestFails, SignUp, Retract, Remove,
            Update, SignUpGetEvent, SignUpFindSlot, SignUpWaitlist,
            CreateOnWaitlistSignUp, SignUpGetProduct, SignUpCreateOrder,
            SignUpAddOrder, RetractGetSignUp, DemoteRead, EventCapacityChanged, database
    <3> QED
      BY <1>1, <3>1
  <2> QED
    BY <2>1, <2>2, <2>3, <2>4
<1>4. ASSUME NEW w \in Workers, WorkerStep(w) \/ WorkerStalls(w)
      PROVE  SlotsAge
  <2>1. CASE PromoteUpdateWrite(w)
    BY <1>1, <1>2, <2>1 DEF PromoteUpdateWrite, MakeOnWaitlistSignUpConfirmed, database
  <2>2. CASE ~PromoteUpdateWrite(w)
    <3>1. slot' = slot
      BY <1>4, <2>2 DEF WorkerStep, WorkerStalls, TakeJob, WorkerGetEvent, Promote,
            FindManySignUps, PromoteFindSlot, PromoteUpdateRead, SendAsyncBulk, database
    <3> QED
      BY <1>1, <3>1
  <2> QED
    BY <2>1, <2>2
<1>5. CASE Tick \/ UNCHANGED vars
  BY <1>1, <1>5 DEF Tick, database, vars
<1> QED
  BY <1>3, <1>4, <1>5 DEF Next

\* A slot with a seat is present.
LEMMA SeatsArePresent ==
    ASSUME TypeOK, SeatsInv, NEW s \in Slots, slot[s].remaining > 0
    PROVE  slot[s].state = "present"
<1>1. /\ slot[s].remaining = slot[s].capacity - Cardinality(ConfirmedIn(signUp, s))
      /\ slot[s].state # "present" => slot[s].capacity = 0
  BY DEF SeatsInv, DatabaseInv, SlotSeatsAccounted, SlotSeats, AbsentSlotsEmpty
<1>2. Cardinality(ConfirmedIn(signUp, s)) \in Nat /\ slot[s].capacity \in Nat
      /\ slot[s].remaining \in Int
  BY NumbersOfSeats
<1> QED
  BY <1>1, <1>2

\* A slot that was found open to a year is open to it as long as it is there.
LEMMA FoundStaysOpen ==
    ASSUME TypeOK, TypeOK', SlotsAge, NEW s \in Slots, NEW year, FoundOpen(s, year),
           StaysOpen(s, year)
    PROVE  FoundOpen(s, year)'
  BY DEF SlotsAge, FoundOpen, StaysOpen

\* A slot with a seat that is open to a year is found open.
LEMMA FoundIsOpen ==
    ASSUME TypeOK, SeatsInv, NEW year, NEW s \in SlotWithRemainingCapacity(year)
    PROVE  s \in Slots /\ FoundOpen(s, year)
  BY SeatsArePresent
     DEF SlotWithRemainingCapacity, SlotsWithRemainingCapacity, FoundOpen

\* A step only moves the request or the worker that takes it.
LEMMA OneMoves ==
    ASSUME TypeOK, [Next]_vars
    PROVE  /\ \A q \in Requests :
                 req'[q] = req[q] \/ RequestCall(q) \/ RequestStep(q) \/ RequestFails(q)
           /\ \A v \in Workers :
                 worker'[v] = worker[v] \/ WorkerStep(v) \/ WorkerStalls(v)
<1>0. req \in [Requests -> RequestStates] /\ worker \in [Workers -> WorkerStates]
  BY DEF TypeOK, ProcessTypeOK
<1>1. ASSUME NEW r \in Requests, RequestCall(r) \/ RequestStep(r) \/ RequestFails(r)
      PROVE  worker' = worker /\ \A q \in Requests \ {r} : req'[q] = req[q]
  <2>1. worker' = worker
    BY <1>1 DEF RequestCall, RequestStep, RequestFails, SignUp, Retract, Remove, Update,
       SignUpGetEvent, SignUpFindSlot, SignUpConfirm, SignUpWaitlist, SignUpGetProduct,
       SignUpCreateOrder, SignUpAddOrder, RetractGetSignUp, DemoteRead, DemoteWrite,
       EventCapacityChanged, UpdateWrite, env
  <2>2. PICK x : Goto(r, x)
    BY <1>1 DEF RequestCall, RequestStep, RequestFails, SignUp, Retract, Remove,
       Update, SignUpGetEvent, SignUpFindSlot, SignUpConfirm, Retry,
       SignUpWaitlist, SignUpGetProduct, SignUpCreateOrder, SignUpAddOrder,
       RetractGetSignUp, DemoteRead, DemoteWrite, EventCapacityChanged, UpdateWrite
  <2> QED
    BY <1>0, <2>1, <2>2 DEF Goto
<1>2. ASSUME NEW w \in Workers, WorkerStep(w) \/ WorkerStalls(w)
      PROVE  req' = req /\ \A v \in Workers \ {w} : worker'[v] = worker[v]
  <2>1. req' = req
    BY <1>2 DEF WorkerStep, WorkerStalls, TakeJob, WorkerGetEvent, Promote,
       FindManySignUps, PromoteFindSlot, PromoteUpdateRead, PromoteUpdateWrite,
       SendAsyncBulk, envW
  <2>2. PICK x : WorkerGoto(w, x)
    BY <1>2 DEF WorkerStep, WorkerStalls, TakeJob, WorkerGetEvent, Promote,
       FindManySignUps, PromoteFindSlot, PromoteUpdateRead, PromoteUpdateWrite,
       SendAsyncBulk
  <2> QED
    BY <1>0, <2>1, <2>2 DEF WorkerGoto
<1>3. Tick \/ UNCHANGED vars => req' = req /\ worker' = worker
  BY DEF Tick, vars
<1> QED
  BY <1>1, <1>2, <1>3 DEF Next

\* A request is about to confirm a slot it has just found.
LEMMA ConfirmFollowsFindSlot ==
    ASSUME TypeOK, NEW r \in Requests,
           RequestCall(r) \/ RequestStep(r) \/ RequestFails(r), At(r, "confirm")'
    PROVE  SignUpFindSlot(r)
<1>1. req \in [Requests -> RequestStates]
  BY DEF TypeOK, ProcessTypeOK
<1>2. ASSUME NEW x, Goto(r, x)
      PROVE  x.pc = "confirm"
  BY <1>1, <1>2 DEF Goto, At
<1>3. ASSUME Retry(r)
      PROVE  FALSE
  <2> DEFINE x == [pc |-> "getEvent", user |-> req[r].user, attempt |-> req[r].attempt + 1]
  <2>1. Goto(r, x) \/ Goto(r, Done)
    BY <1>3 DEF Retry
  <2> QED
    BY <1>2, <2>1 DEF Done
<1>4. ~Goto(r, Done)
  BY <1>2 DEF Done
<1>5. CASE RequestCall(r)
  <2>1. ~\E u \in MaySignUp[r] : SignUp(r, u)
    BY <1>1 DEF SignUp, Goto, At
  <2>2. ~\E u \in MayRetract[r] : Retract(r, u)
    BY <1>1 DEF Retract, Goto, At
  <2>3. ~\E u \in MayRemove[r] : Remove(r, u)
    BY <1>1 DEF Remove, Demote, Goto, At
  <2>4. ~\E p \in MayUpdate[r] : Update(r, p)
    BY <1>1, <1>4 DEF Update, Goto, At
  <2> QED
    BY <1>5, <2>1, <2>2, <2>3, <2>4 DEF RequestCall
<1>6. CASE RequestFails(r)
  BY <1>4, <1>6 DEF RequestFails
<1>7. ~SignUpGetEvent(r)
  <2> SUFFICES ASSUME SignUpGetEvent(r) PROVE FALSE
    OBVIOUS
  <2>1. req[r] \in Attempting
    BY <1>1, RequestShape DEF SignUpGetEvent, At
  <2>2. \/ Goto(r, [req[r] EXCEPT !.pc = "waitlist"])
        \/ Goto(r, [req[r] EXCEPT !.pc = "findSlot"])
    BY <1>4 DEF SignUpGetEvent
  <2> QED
    BY <1>2, <2>1, <2>2 DEF Attempting
<1>8. ~SignUpConfirm(r)
  <2>1. ASSUME SignUpConfirm(r), ~Retry(r), ~Goto(r, Done)
        PROVE  Goto(r, [pc |-> "getProduct", user |-> req[r].user,
                        attempt |-> req[r].attempt, id |-> nextId])
    BY <2>1 DEF SignUpConfirm
  <2> QED
    BY <1>2, <1>3, <1>4, <2>1
<1>9. ~SignUpWaitlist(r) /\ ~SignUpAddOrder(r) /\ ~EventCapacityChanged(r) /\ ~UpdateWrite(r)
  BY <1>4 DEF SignUpWaitlist, SignUpAddOrder, EventCapacityChanged, UpdateWrite
<1>10. ~SignUpGetProduct(r)
  BY <1>2 DEF SignUpGetProduct
<1>11. ~SignUpCreateOrder(r)
  BY <1>2, <1>3 DEF SignUpCreateOrder
<1>12. ~RetractGetSignUp(r)
  BY <1>2, <1>4 DEF RetractGetSignUp, Demote
<1>13. ~DemoteRead(r)
  BY <1>2, <1>4 DEF DemoteRead
<1>14. ~DemoteWrite(r)
  BY <1>2, <1>4 DEF DemoteWrite
<1> QED
  BY <1>5, <1>6, <1>7, <1>8, <1>9, <1>10, <1>11, <1>12, <1>13, <1>14 DEF RequestStep

\* After a sign-up the worker mails what it promoted, or looks for the next slot.
LEMMA NextSignUpGoesOn ==
    ASSUME TypeOK, NEW w \in Workers, NEW todo
    PROVE  NextSignUp(w, todo).pc \in {"mail", "findSlot"}
<1>1. worker[w] \in WorkerStates
  BY DEF TypeOK, ProcessTypeOK
<1> QED
  BY <1>1 DEF NextSignUp, WorkerStates

\* A worker is about to promote into a slot it has just found, or found before.
LEMMA PromotionFollowsFindSlot ==
    ASSUME TypeOK, NEW w \in Workers, WorkerStep(w) \/ WorkerStalls(w),
           worker'[w].pc \in {"updateRead", "updateWrite"}
    PROVE  \/ PromoteFindSlot(w)
           \/ /\ worker[w].pc \in {"updateRead", "updateWrite"}
              /\ worker'[w].slot = worker[w].slot
<1>1. worker \in [Workers -> WorkerStates]
  BY DEF TypeOK, ProcessTypeOK
<1>2. ASSUME NEW x, WorkerGoto(w, x)
      PROVE  x.pc \in {"updateRead", "updateWrite"} /\ worker'[w] = x
  BY <1>1, <1>2 DEF WorkerGoto
<1>3. worker[w] \in WorkerStates
  BY <1>1
<1>4. ~WorkerGoto(w, IdleWorker)
  BY <1>2 DEF IdleWorker
<1>5. ASSUME NEW todo PROVE ~WorkerGoto(w, NextSignUp(w, todo))
  BY <1>2, NextSignUpGoesOn
<1>6. ASSUME NEW id PROVE ~WorkerGoto(w, Promoted(w, id))
  BY <1>1 DEF Promoted, IdleWorker, WorkerGoto
<1>7. ~\E k \in {0, 1} : TakeJob(w, k)
  BY <1>1 DEF TakeJob, IdleWorker, WorkerGoto
<1>8. ~WorkerGetEvent(w)
  <2> SUFFICES ASSUME WorkerGetEvent(w) PROVE FALSE
    OBVIOUS
  <2>1. PICK pc \in {"promote", "mail"} :
           WorkerGoto(w, [worker[w] EXCEPT !.pc = pc, !.attempts = event.remaining])
    BY <1>4 DEF WorkerGetEvent
  <2>2. [worker[w] EXCEPT !.pc = pc, !.attempts = event.remaining].pc = pc
    BY <1>3 DEF WorkerStates
  <2> QED
    BY <1>2, <2>1, <2>2
<1>9. ~Promote(w)
  <2> SUFFICES ASSUME Promote(w) PROVE FALSE
    OBVIOUS
  <2>1. WorkerGoto(w, [worker[w] EXCEPT !.pc = "findMany"])
    BY <1>4 DEF Promote
  <2>2. [worker[w] EXCEPT !.pc = "findMany"].pc = "findMany"
    BY <1>3 DEF WorkerStates
  <2> QED
    BY <1>2, <2>1, <2>2
<1>10. ~FindManySignUps(w)
  BY <1>5 DEF FindManySignUps
<1>11. CASE PromoteUpdateRead(w)
  <2>1. worker[w].pc = "updateRead"
    BY <1>11 DEF PromoteUpdateRead, WorkerAt
  <2>2. PICK row : WorkerGoto(w, [worker[w] EXCEPT !.pc = "updateWrite", !.row = row])
    BY <1>4, <1>6, <1>11 DEF PromoteUpdateRead
  <2>3. [worker[w] EXCEPT !.pc = "updateWrite", !.row = row].slot = worker[w].slot
    BY <1>3 DEF WorkerStates
  <2> QED
    BY <1>2, <2>1, <2>2, <2>3
<1>12. ~PromoteUpdateWrite(w)
  BY <1>5, <1>6 DEF PromoteUpdateWrite
<1>13. ~SendAsyncBulk(w) /\ ~WorkerStalls(w)
  BY <1>4 DEF SendAsyncBulk, WorkerStalls
<1> QED
  BY <1>7, <1>8, <1>9, <1>10, <1>11, <1>12, <1>13 DEF WorkerStep

\* Every step that closes no slot under those who found it keeps what they know.
LEMMA NextEligibleInv ==
    ASSUME TypeOK, TypeOK', SeatsInv, EligibleInv, Next, ClosesNoFoundSlot
    PROVE  EligibleInv'
<1>0. SlotsAge
  BY StepsAgeSlots
<1>1. ASSUME NEW r \in Requests, At(r, "confirm")'
      PROVE  FoundOpen(req[r].slot, GradeYear[req[r].user])'
  <2>1. CASE req'[r] = req[r]
    <3>1. PICK s : s = req[r].slot
      OBVIOUS
    <3>2. PICK y : y = GradeYear[req[r].user]
      OBVIOUS
    <3>3. At(r, "confirm") /\ s \in Slots
      BY <1>1, <2>1, <3>1, RequestShape DEF At, TypeOK, ProcessTypeOK, Confirming
    <3>4. FoundOpen(s, y) /\ StaysOpen(s, y)
      BY <3>1, <3>2, <3>3 DEF EligibleInv, ClosesNoFoundSlot
    <3>5. FoundOpen(s, y)'
      BY <1>0, <3>3, <3>4, FoundStaysOpen
    <3> QED
      BY <2>1, <3>1, <3>2, <3>5
  <2>2. CASE req'[r] # req[r]
    <3>1. RequestCall(r) \/ RequestStep(r) \/ RequestFails(r)
      BY <2>2, OneMoves
    <3>2. SignUpFindSlot(r)
      BY <1>1, <3>1, ConfirmFollowsFindSlot
    <3>3. req \in [Requests -> RequestStates] /\ slot' = slot
      BY <3>2 DEF TypeOK, ProcessTypeOK, SignUpFindSlot, database
    <3>4. ~Goto(r, [req[r] EXCEPT !.pc = "waitlist"])
      <4>1. req[r] \in Attempting
        BY <3>2, <3>3, RequestShape DEF SignUpFindSlot, At
      <4> QED
        BY <1>1, <3>3, <4>1 DEF Goto, At, Attempting
    <3>5. PICK s \in SlotWithRemainingCapacity(GradeYear[req[r].user]) :
             Goto(r, [pc |-> "confirm", user |-> req[r].user,
                      attempt |-> req[r].attempt, slot |-> s])
      BY <3>2, <3>4 DEF SignUpFindSlot
    <3>6. req'[r].user = req[r].user /\ req'[r].slot = s
      BY <3>3, <3>5 DEF Goto
    <3>7. FoundOpen(s, GradeYear[req[r].user])
      BY <3>5, FoundIsOpen
    <3> QED
      BY <3>3, <3>6, <3>7 DEF FoundOpen, OpenTo
  <2> QED
    BY <2>1, <2>2
<1>2. ASSUME NEW w \in Workers, worker'[w].pc \in {"updateRead", "updateWrite"}
      PROVE  FoundOpen(worker[w].slot, Undefined)'
  <2>1. CASE worker[w].pc \in {"updateRead", "updateWrite"} /\ worker'[w].slot = worker[w].slot
    <3>1. PICK s : s = worker[w].slot
      OBVIOUS
    <3>2. s \in Slots
      BY <2>1, <3>1 DEF TypeOK, ProcessTypeOK, WorkerOK
    <3>3. FoundOpen(s, Undefined) /\ StaysOpen(s, Undefined)
      BY <2>1, <3>1 DEF EligibleInv, ClosesNoFoundSlot
    <3>4. FoundOpen(s, Undefined)'
      BY <1>0, <3>2, <3>3, FoundStaysOpen
    <3> QED
      BY <2>1, <3>1, <3>4
  <2>2. CASE PromoteFindSlot(w)
    <3>1. worker \in [Workers -> WorkerStates] /\ slot' = slot
      BY <2>2 DEF TypeOK, ProcessTypeOK, PromoteFindSlot, database
    <3>2. ASSUME NEW todo PROVE ~WorkerGoto(w, NextSignUp(w, todo))
      BY <1>2, <3>1, NextSignUpGoesOn DEF WorkerGoto
    <3>3. PICK s \in SlotWithRemainingCapacity(Undefined) :
             \E next, rest : WorkerGoto(w, [worker[w] EXCEPT !.pc = "updateRead",
                                !.slot = s, !.user = next, !.todo = rest])
      BY <2>2, <3>2 DEF PromoteFindSlot
    <3>4. worker[w] \in WorkerStates
      BY <3>1
    <3>5. worker'[w].slot = s
      BY <3>1, <3>3, <3>4 DEF WorkerGoto, WorkerStates
    <3>6. FoundOpen(s, Undefined)
      BY <3>3, FoundIsOpen
    <3> QED
      BY <3>1, <3>5, <3>6 DEF FoundOpen, OpenTo
  <2>3. CASE worker'[w] = worker[w]
    BY <1>2, <2>1, <2>3
  <2> QED
    BY <1>2, <2>1, <2>2, <2>3, OneMoves, PromotionFollowsFindSlot
<1> QED
  BY <1>1, <1>2 DEF EligibleInv

\* Who is confirmed is confirmed in a slot that was found open to the user.
LEMMA ConfirmedAreEligible ==
    ASSUME TypeOK, SeatsInv, EligibleInv, [Next]_vars, NEW u \in Users,
           signUp'[u].status = "CONFIRMED", signUp[u].status # "CONFIRMED"
    PROVE  OpenTo(slot[signUp'[u].slot], GradeYear[u])
<1>0. /\ signUp \in [Users -> SignUpRows]
      /\ req \in [Requests -> RequestStates] /\ worker \in [Workers -> WorkerStates]
  BY DEF TypeOK, DatabaseTypeOK, ProcessTypeOK
<1>1. signUp' # signUp
  OBVIOUS
<1>2. ASSUME NEW s \in Slots, HasSeat(s), FoundOpen(s, GradeYear[u]), signUp'[u].slot = s
      PROVE  OpenTo(slot[signUp'[u].slot], GradeYear[u])
  BY <1>2, SeatsArePresent DEF HasSeat, FoundOpen
<1>3. ASSUME NEW r \in Requests, RequestCall(r) \/ RequestStep(r) \/ RequestFails(r)
      PROVE  OpenTo(slot[signUp'[u].slot], GradeYear[u])
  <2>0. req[r] \in RequestStates
    BY <1>0
  <2>1. CASE SignUpConfirm(r)
    <3>1. req[r].user \in Users /\ req[r].slot \in Slots
      BY <2>0, <2>1, RequestShape DEF SignUpConfirm, At, Confirming
    <3>2. CreateConfirmedSignUp(req[r].user, req[r].slot)
      BY <1>1, <2>1 DEF SignUpConfirm, database
    <3>3. u = req[r].user /\ signUp'[u].slot = req[r].slot
      BY <1>0, <3>1, <3>2 DEF CreateConfirmedSignUp, NewSignUp
    <3>4. FoundOpen(req[r].slot, GradeYear[u])
      BY <2>1, <3>3 DEF EligibleInv, SignUpConfirm
    <3> QED
      BY <1>2, <3>1, <3>2, <3>3, <3>4 DEF CreateConfirmedSignUp
  <2>2. CASE SignUpWaitlist(r)
    <3>1. CreateOnWaitlistSignUp(req[r].user)
      BY <1>1, <2>2 DEF SignUpWaitlist, database
    <3> QED
      BY <1>0, <3>1 DEF CreateOnWaitlistSignUp, NewSignUp
  <2>3. CASE SignUpAddOrder(r)
    <3>1. signUp' = WithOrder(signUp, req[r].user, req[r].id, req[r].order)
      BY <2>3 DEF SignUpAddOrder
    <3>2. signUp[u] \in SignUpRows
      BY <1>0
    <3>3. signUp'[u].status = signUp[u].status
      BY <1>0, <3>1, <3>2 DEF WithOrder, SignUpRows
    <3> QED
      BY <3>3
  <2>4. CASE DemoteWrite(r)
    <3>1. PICK to : Deactivate(req[r].user, to)
      BY <1>1, <2>4 DEF DemoteWrite, MakeActiveSignUpInactive, database
    <3> QED
      BY <1>0, <3>1 DEF Deactivate, NoRow
  <2>5. CASE ~(SignUpConfirm(r) \/ SignUpWaitlist(r) \/ SignUpAddOrder(r) \/ DemoteWrite(r))
    BY <1>1, <1>3, <2>5 DEF RequestCall, RequestStep, RequestFails, SignUp, Retract,
       Remove, Update, SignUpGetEvent, SignUpFindSlot, SignUpGetProduct,
       SignUpCreateOrder, RetractGetSignUp, DemoteRead, EventCapacityChanged,
       UpdateWrite, database
  <2> QED
    BY <2>1, <2>2, <2>3, <2>4, <2>5
<1>4. ASSUME NEW w \in Workers, WorkerStep(w) \/ WorkerStalls(w)
      PROVE  OpenTo(slot[signUp'[u].slot], GradeYear[u])
  <2>1. PromoteUpdateWrite(w)
    BY <1>1, <1>4 DEF WorkerStep, WorkerStalls, TakeJob, WorkerGetEvent, Promote,
       FindManySignUps, PromoteFindSlot, PromoteUpdateRead, SendAsyncBulk, database
  <2>2. worker[w].pc = "updateWrite"
    BY <2>1 DEF PromoteUpdateWrite, WorkerAt
  <2>3. worker[w].slot \in Slots /\ FoundOpen(worker[w].slot, Undefined)
    BY <2>2 DEF TypeOK, ProcessTypeOK, WorkerOK, EligibleInv
  <2>4. MakeOnWaitlistSignUpConfirmed(worker[w].user, worker[w].row, worker[w].slot)
    BY <1>1, <2>1 DEF PromoteUpdateWrite, database
  <2>5. u = worker[w].user
    BY <1>0, <2>4 DEF MakeOnWaitlistSignUpConfirmed
  <2>6. signUp[u] \in SignUpRows
    BY <1>0
  <2>7. signUp'[u].slot = worker[w].slot
    BY <1>0, <2>4, <2>5, <2>6 DEF MakeOnWaitlistSignUpConfirmed, SignUpRows
  <2>8. GradeYear[u] \in Years \cup {Undefined} /\ Undefined \notin Years
    BY ConstantsAssumption DEF OrUndefined
  <2>9. FoundOpen(worker[w].slot, GradeYear[u])
    BY <2>3, <2>8 DEF FoundOpen, OpenTo
  <2> QED
    BY <1>2, <2>3, <2>4, <2>7, <2>9 DEF MakeOnWaitlistSignUpConfirmed
<1>5. ~(Tick \/ UNCHANGED vars)
  BY <1>1 DEF Tick, database, vars
<1> QED
  BY <1>3, <1>4, <1>5 DEF Next

\* Nothing is known of a slot that nobody has found, so a step without a
\* closing keeps what is known, a stuttering one too.
LEMMA StepEligibleInv ==
    ASSUME TypeOK, TypeOK', SeatsInv, EligibleInv, [Next]_vars,
           [ClosesNoFoundSlot]_vars
    PROVE  EligibleInv'
<1>1. CASE UNCHANGED vars
  BY <1>1 DEF EligibleInv, FoundOpen, At, OpenTo, vars
<1>2. CASE vars' # vars
  BY <1>2, NextEligibleInv
<1> QED
  BY <1>1, <1>2

\* A user is only ever confirmed in a slot that is open to the user's year, as
\* long as no update of the event takes grade years from a slot between the
\* moment it is found and the moment it is filled: the write of the sign-up does
\* not look at the grade years again.
THEOREM ConfirmedInOpenSlotIfKept ==
    Spec /\ [][ClosesNoFoundSlot]_vars => ConfirmedInEligibleSlot
<1>1. Init => EligibleInv
  BY DEF Init, EligibleInv, At, Idle, IdleWorker
<1>2. TypeOK /\ TypeOK' /\ SeatsInv /\ EligibleInv /\ [Next]_vars
      /\ [ClosesNoFoundSlot]_vars => EligibleInv'
  BY StepEligibleInv
<1> DEFINE Step == \A u \in Users :
                signUp'[u].status = "CONFIRMED" /\ signUp[u].status # "CONFIRMED" =>
                    OpenTo(slot[signUp'[u].slot], GradeYear[u])
<1>3. TypeOK /\ SeatsInv /\ EligibleInv /\ [Next]_vars => [Step]_vars
  BY ConfirmedAreEligible
<1> HIDE DEF Step
<1>4. Spec /\ [][ClosesNoFoundSlot]_vars => [][Step]_vars
  BY <1>1, <1>2, <1>3, Invariance, PTL DEF Spec
<1> QED
  BY <1>4 DEF Step, ConfirmedInEligibleSlot
=============================================================================
