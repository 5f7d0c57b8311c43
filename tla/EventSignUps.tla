---------------------------- MODULE EventSignUps ----------------------------
(***************************************************************************)
(* Sign-ups for one event: EventService (src/src/services/events), the     *)
(* sign-up worker and EventRepository (src/src/repositories/events).       *)
(*                                                                         *)
(* The rows of the database are variables; a single Prisma call, or a      *)
(* $transaction of an array of calls, is one atomic step.  Everything else *)
(* interleaves: a request or a worker is a program counter and the values  *)
(* it read earlier, so whatever lies between two awaits may be stale.      *)
(* Events do not share rows, so one event stands for all.                  *)
(***************************************************************************)
EXTENDS Integers, FiniteSets

CONSTANTS
    Users,          \* the accounts that may hold a sign-up
    Slots,          \* the ids a slot of the event may have
    Requests,       \* GraphQL calls; each handles one operation
    Workers,        \* sign-up workers, one per worker process
    Years,          \* the grade years, 1 to 5 in the code
    GradeYear,      \* GradeYear[u] is Undefined without a graduation year
    EventType,      \* "SIGN_UPS" or "TICKETS"
    Retractable,    \* the signUpsRetractable column, fixed at creation
    MaxAttempts,    \* the retry limit of signUp, 20 in the code
    InitialEvent,   \* the event row when the model starts
    InitialSlots,   \* its slots
    InitialSignUps, \* its active sign-ups
    MaySignUp, MayRetract, MayRemove, MayUpdate,    \* the calls of a request
    MaxNow,         \* a bound of the model: the last instant of the clock
    MayCrash,       \* whether processes may die
    Undefined,      \* a value that is absent
    NoSlot          \* the null of slotId

VARIABLES
    event,      \* the event row
    slot,       \* the slot rows
    signUp,     \* the row of each user with active = true, or NoRow
    inactive,   \* the row of each user with active = false, or NoRow
    product,    \* TICKETS: the product row and the number of its orders
    nextId,     \* the next sign-up id; ids grow with createdAt
    jobs,       \* "event-capacity-increased" jobs waiting in the queue, by
                \* the number of times each has stalled
    mailed,     \* ids of the sign-ups a confirmation mail was queued for
    now,        \* the clock the sign-up window is compared with
    req,        \* the state of each request
    worker      \* the state of each worker

database == <<event, slot, signUp, inactive, product, nextId>>
vars == <<event, slot, signUp, inactive, product, nextId, jobs, mailed, now,
          req, worker>>

-----------------------------------------------------------------------------
(* Rows *)

EventRows == [version : Nat, capacity : Nat, remaining : Int,
              enabled : BOOLEAN, opensAt : Nat, closesAt : Nat]
SlotStates == {"unused", "present", "deleted"}
SlotRows == [state : SlotStates, version : Nat, capacity : Nat,
             remaining : Int, gradeYears : SUBSET Years]
Statuses == {"NONE", "CONFIRMED", "ON_WAITLIST", "RETRACTED", "REMOVED"}
SignUpRows == [id : Nat, version : Nat, status : Statuses,
               slot : Slots \cup {NoSlot}, order : Nat]

NoRow == [id |-> 0, version |-> 0, status |-> "NONE", slot |-> NoSlot,
          order |-> 0]
DeletedSlot == [state |-> "deleted", version |-> 0, capacity |-> 0,
                remaining |-> 0, gradeYears |-> {}]

Confirmed(rows) == {u \in Users : rows[u].status = "CONFIRMED"}
ConfirmedIn(rows, s) == {u \in Confirmed(rows) : rows[u].slot = s}
\* Mutant of OnWaitList: the status filter is dropped.
AnyActiveRow(rows) == {u \in Users : rows[u] # NoRow}
OnWaitList(rows) == {u \in Users : rows[u].status = "ON_WAITLIST"}

EventSeats(e, rows) == e.remaining = e.capacity - Cardinality(Confirmed(rows))
SlotSeats(s, row, rows) ==
    row.remaining = row.capacity - Cardinality(ConfirmedIn(rows, s))

-----------------------------------------------------------------------------
(* What an update of the event asks for: capacity, enabled, opensAt and    *)
(* closesAt may each be Undefined; slots to create, to change, to drop.    *)

OrUndefined(S) == {Undefined} \cup S
UpdateParams ==
    [capacity : OrUndefined(Nat), enabled : OrUndefined(BOOLEAN),
     opensAt : OrUndefined(Nat), closesAt : OrUndefined(Nat),
     create : SUBSET [id : Slots, capacity : Nat, gradeYears : SUBSET Years],
     change : SUBSET [id : Slots, capacity : OrUndefined(Nat \ {0}),
                      gradeYears : OrUndefined(SUBSET Years)],
     drop : SUBSET Slots]

Created(p) == {c.id : c \in p.create}

ASSUME ConstantsAssumption ==
    /\ IsFiniteSet(Users)
    /\ NoSlot \notin Slots
    /\ GradeYear \in [Users -> OrUndefined(Years)]
    /\ EventType \in {"SIGN_UPS", "TICKETS"}
    /\ Retractable \in BOOLEAN
    /\ MaxAttempts \in Nat \ {0}
    /\ MaxNow \in Nat
    /\ MayCrash \in BOOLEAN
    /\ Undefined \notin Nat \cup BOOLEAN \cup Years
    /\ \A years \in SUBSET Years : years # Undefined

ASSUME WorkloadAssumption ==
    /\ MaySignUp \in [Requests -> SUBSET Users]
    /\ MayRetract \in [Requests -> SUBSET Users]
    /\ MayRemove \in [Requests -> SUBSET Users]
    /\ MayUpdate \in [Requests -> SUBSET UpdateParams]

\* The model starts in a state sequential sign-ups lead to.
ASSUME InitialAssumption ==
    /\ InitialEvent \in EventRows
    /\ InitialSlots \in [Slots -> SlotRows]
    /\ InitialSignUps \in [Users -> SignUpRows]
    /\ EventSeats(InitialEvent, InitialSignUps) /\ InitialEvent.remaining >= 0
    /\ \A s \in Slots :
          /\ SlotSeats(s, InitialSlots[s], InitialSignUps)
          /\ InitialSlots[s].remaining >= 0
          /\ InitialSlots[s].state # "present" => InitialSlots[s].capacity = 0
    /\ \A u \in Users :
          LET row == InitialSignUps[u] IN
          /\ row.status \in {"NONE", "CONFIRMED", "ON_WAITLIST"}
          /\ row.status = "NONE" => row = NoRow
          /\ row.status # "NONE" => row.id \in 1..Cardinality(Users)
          /\ row.status = "CONFIRMED" <=> row.slot # NoSlot
          /\ \A v \in Users : u # v /\ row # NoRow => InitialSignUps[v].id # row.id

-----------------------------------------------------------------------------
(* Requests and workers *)

Idle == [pc |-> "idle"]
Done == [pc |-> "done"]

SlotChanges == [id : Slots, version : Nat, capacity : Nat, remaining : Int,
                gradeYears : SUBSET Years]
SlotDrops == [id : Slots, version : Nat]

\* The states of a request, by what it does next.
Attempting == [pc : {"getEvent", "findSlot", "waitlist"}, user : Users,
               attempt : Nat]
Confirming == [pc : {"confirm"}, user : Users, attempt : Nat, slot : Slots]
ReadingProduct == [pc : {"getProduct"}, user : Users, attempt : Nat, id : Nat]
CreatingOrder == [pc : {"createOrder"}, user : Users, attempt : Nat, id : Nat,
                  version : Nat]
AddingOrder == [pc : {"addOrder"}, user : Users, id : Nat, order : Nat]
Retracting == [pc : {"getSignUp"}, user : Users, closesAt : Nat]
Demoting == [pc : {"demoteRead"}, user : Users, to : {"RETRACTED", "REMOVED"},
             notify : BOOLEAN, id : Nat]
WritingDemotion == [pc : {"demoteWrite"}, user : Users,
                    to : {"RETRACTED", "REMOVED"}, notify : BOOLEAN, id : Nat,
                    row : SignUpRows]
WritingUpdate == [pc : {"updateWrite"}, event : EventRows,
                  create : SUBSET [id : Slots, capacity : Nat,
                                   gradeYears : SUBSET Years],
                  change : SUBSET SlotChanges, drop : SUBSET SlotDrops]

RequestStates ==
    [pc : {"idle", "done", "notify"}] \cup Attempting \cup Confirming
    \cup ReadingProduct \cup CreatingOrder \cup AddingOrder \cup Retracting
    \cup Demoting \cup WritingDemotion \cup WritingUpdate

Waiters == [user : Users, id : Nat]

\* newSignUps are the ids of the sign-ups promoted by this job so far, todo is
\* what is left of the wait list it read.
WorkerStates ==
    [pc : {"idle", "getEvent", "promote", "findMany", "findSlot", "updateRead",
           "updateWrite", "mail"},
     stalled : {0, 1}, attempts : Int, newSignUps : SUBSET Nat,
     todo : SUBSET Waiters, user : OrUndefined(Users),
     slot : Slots \cup {NoSlot}, row : SignUpRows]

IdleWorker == [pc |-> "idle", stalled |-> 0, attempts |-> 0, newSignUps |-> {},
               todo |-> {}, user |-> Undefined, slot |-> NoSlot, row |-> NoRow]

At(r, label) == req[r].pc = label
Goto(r, state) == req' = [req EXCEPT ![r] = state]
WorkerAt(w, label) == worker[w].pc = label
WorkerGoto(w, state) == worker' = [worker EXCEPT ![w] = state]

Init ==
    /\ event = InitialEvent
    /\ slot = InitialSlots
    /\ signUp = InitialSignUps
    /\ inactive = [u \in Users |-> NoRow]
    /\ product = [version |-> 0, orders |-> 0]
    /\ nextId = Cardinality(Users) + 1
    /\ jobs = [k \in {0, 1} |-> 0]
    /\ mailed = {}
    /\ now = 0
    /\ req = [r \in Requests |-> Idle]
    /\ worker = [w \in Workers |-> IdleWorker]

-----------------------------------------------------------------------------
(* Repository: reads *)

AreSignUpsAvailable ==
    event.enabled /\ event.opensAt <= now /\ now <= event.closesAt

\* Mutant of OpenTo: a user without a graduation year is let in anywhere.
OpenToUnknownYear(row, year) == year = Undefined \/ year \in row.gradeYears

\* A user without a graduation year needs a slot that is open to every year.
OpenTo(row, year) ==
    IF year = Undefined THEN Years \subseteq row.gradeYears
                        ELSE year \in row.gradeYears

SlotsWithRemainingCapacity(year) ==
    {s \in Slots : OpenTo(slot[s], year) /\ slot[s].remaining > 0}

\* The slots findFirst may return; none when it returns null.
SlotWithRemainingCapacity(year) ==
    {s \in SlotsWithRemainingCapacity(year) :
        \A t \in SlotsWithRemainingCapacity(year) :
            slot[t].remaining <= slot[s].remaining}

-----------------------------------------------------------------------------
(* Repository: writes.  A write whose where clause matches no row changes  *)
(* nothing and throws NotFoundError; a second active row of a user is      *)
(* refused by the unique index with AlreadySignedUpError.                  *)

\* Mutant of HasSeat: the slot's remaining capacity is not compared.
HasSeatInEvent(s) == event.remaining > 0

HasSeat(s) == event.remaining > 0 /\ slot[s].remaining > 0
\* Mutant of NoActiveSignUp: the unique index on active rows is missing.
NoUniqueIndex(u) == TRUE

NoActiveSignUp(u) == signUp[u] = NoRow

TakeSeat(s) ==
    /\ event' = [event EXCEPT !.version = @ + 1, !.remaining = @ - 1]
    /\ slot' = [slot EXCEPT ![s].version = @ + 1, ![s].remaining = @ - 1]

FreeSeat(s) ==
    /\ event' = [event EXCEPT !.version = @ + 1, !.remaining = @ + 1]
    /\ slot' = [slot EXCEPT ![s].version = @ + 1, ![s].remaining = @ + 1]

NewSignUp(status, s) ==
    [id |-> nextId, version |-> 0, status |-> status, slot |-> s, order |-> 0]

CreateConfirmedSignUp(u, s) ==
    /\ HasSeat(s)
    /\ NoActiveSignUp(u)
    /\ TakeSeat(s)
    /\ signUp' = [signUp EXCEPT ![u] = NewSignUp("CONFIRMED", s)]
    /\ nextId' = nextId + 1
    /\ UNCHANGED <<inactive, product>>

CreateOnWaitlistSignUp(u) ==
    /\ NoActiveSignUp(u)
    /\ event' = [event EXCEPT !.version = @ + 1]
    /\ signUp' = [signUp EXCEPT ![u] = NewSignUp("ON_WAITLIST", NoSlot)]
    /\ nextId' = nextId + 1
    /\ UNCHANGED <<slot, inactive, product>>

\* Mutant of Unchanged: the version is not compared.
UnchangedById(u, row) == signUp[u].id = row.id

\* where: { id, version }; a row that became inactive has a new version.
Unchanged(u, row) == signUp[u].id = row.id /\ signUp[u].version = row.version

MakeOnWaitlistSignUpConfirmed(u, row, s) ==
    /\ Unchanged(u, row)
    /\ HasSeat(s)
    /\ TakeSeat(s)
    /\ signUp' = [signUp EXCEPT ![u].status = "CONFIRMED", ![u].slot = s,
                                ![u].version = @ + 1]
    /\ UNCHANGED <<inactive, product, nextId>>

\* Mutant of Deactivate: the row keeps active = true.
DeactivateKeepsActive(u, to) ==
    /\ inactive' = [inactive EXCEPT ![u] = NoRow]
    /\ signUp' = [signUp EXCEPT ![u].status = to, ![u].slot = NoSlot]

\* The earlier inactive row of the user is deleted in the same transaction.
Deactivate(u, to) ==
    /\ inactive' = [inactive EXCEPT ![u] =
          [signUp[u] EXCEPT !.status = to, !.slot = NoSlot, !.version = @ + 1]]
    /\ signUp' = [signUp EXCEPT ![u] = NoRow]

MakeActiveSignUpInactive(u, row, to) ==
    /\ Unchanged(u, row)
    /\ Deactivate(u, to)
    /\ \/ /\ row.status = "ON_WAITLIST"
          /\ UNCHANGED <<event, slot>>
       \/ /\ row.status = "CONFIRMED"
          /\ FreeSeat(signUp[u].slot)
    /\ UNCHANGED <<product, nextId>>

-----------------------------------------------------------------------------
(* EventService.signUp *)

env == <<jobs, mailed, now, worker>>

SignUp(r, u) ==
    /\ At(r, "idle")
    /\ Goto(r, [pc |-> "getEvent", user |-> u, attempt |-> 1])
    /\ UNCHANGED <<database, env>>

SignUpGetEvent(r) ==
    /\ At(r, "getEvent")
    /\ \/ ~AreSignUpsAvailable /\ Goto(r, Done)
       \/ /\ AreSignUpsAvailable
          /\ event.remaining <= 0
          /\ Goto(r, [req[r] EXCEPT !.pc = "waitlist"])
       \/ /\ AreSignUpsAvailable
          /\ event.remaining > 0
          /\ Goto(r, [req[r] EXCEPT !.pc = "findSlot"])
    /\ UNCHANGED <<database, env>>

SignUpFindSlot(r) ==
    /\ At(r, "findSlot")
    /\ LET found == SlotWithRemainingCapacity(GradeYear[req[r].user]) IN
       \/ found = {} /\ Goto(r, [req[r] EXCEPT !.pc = "waitlist"])
       \/ \E s \in found :
             Goto(r, [pc |-> "confirm", user |-> req[r].user,
                      attempt |-> req[r].attempt, slot |-> s])
    /\ UNCHANGED <<database, env>>

\* NotFoundError: the loop reads the event again, up to the retry limit.
Retry(r) ==
    Goto(r, IF req[r].attempt < MaxAttempts
            THEN [pc |-> "getEvent", user |-> req[r].user,
                  attempt |-> req[r].attempt + 1]
            ELSE Done)

SignUpConfirm(r) ==
    /\ At(r, "confirm")
    /\ LET u == req[r].user
           s == req[r].slot IN
       \/ /\ CreateConfirmedSignUp(u, s)
          /\ Goto(r, IF EventType = "TICKETS"
                     THEN [pc |-> "getProduct", user |-> u,
                           attempt |-> req[r].attempt, id |-> nextId]
                     ELSE Done)
       \/ ~HasSeat(s) /\ Retry(r) /\ UNCHANGED database
       \/ ~NoActiveSignUp(u) /\ Goto(r, Done) /\ UNCHANGED database
    /\ UNCHANGED env

SignUpWaitlist(r) ==
    /\ At(r, "waitlist")
    /\ \/ CreateOnWaitlistSignUp(req[r].user)
       \/ ~NoActiveSignUp(req[r].user) /\ UNCHANGED database
    /\ Goto(r, Done)
    /\ UNCHANGED env

\* orders.create reads the product, then creates the order only if the
\* product's version is still the one it read.
SignUpGetProduct(r) ==
    /\ At(r, "getProduct")
    /\ Goto(r, [pc |-> "createOrder", user |-> req[r].user,
                attempt |-> req[r].attempt, id |-> req[r].id,
                version |-> product.version])
    /\ UNCHANGED <<database, env>>

SignUpCreateOrder(r) ==
    /\ At(r, "createOrder")
    /\ \/ /\ product.version = req[r].version
          /\ product' = [version |-> product.version + 1,
                         orders |-> product.orders + 1]
          /\ Goto(r, [pc |-> "addOrder", user |-> req[r].user, id |-> req[r].id,
                      order |-> product.orders + 1])
       \/ /\ product.version # req[r].version
          /\ Retry(r)
          /\ UNCHANGED product
    /\ UNCHANGED <<event, slot, signUp, inactive, nextId, env>>

\* Mutant of WithOrder: the row is found by its user.
WithOrderOfUser(rows, u, id, order) == [rows EXCEPT ![u].order = order]

WithOrder(rows, u, id, order) ==
    IF rows[u].id = id THEN [rows EXCEPT ![u].order = order] ELSE rows

\* The row is found by its id alone, active or not; if it is gone the request
\* fails and the order stays behind.
SignUpAddOrder(r) ==
    /\ At(r, "addOrder")
    /\ LET u == req[r].user IN
       /\ signUp' = WithOrder(signUp, u, req[r].id, req[r].order)
       /\ inactive' = WithOrder(inactive, u, req[r].id, req[r].order)
    /\ Goto(r, Done)
    /\ UNCHANGED <<event, slot, product, nextId, env>>

-----------------------------------------------------------------------------
(* EventService.retractSignUp and removeSignUp *)

Retract(r, u) ==
    /\ At(r, "idle")
    /\ Goto(r, [pc |-> "getSignUp", user |-> u, closesAt |-> event.closesAt])
    /\ UNCHANGED <<database, env>>

\* Mutant of Demote: only leaving the wait list is followed by a job.
DemoteNotifiesWaiting(u, to) ==
    [pc |-> "demoteRead", user |-> u, to |-> to,
     notify |-> signUp[u].status = "ON_WAITLIST", id |-> signUp[u].id]

\* Both operations continue with the status they read: only a CONFIRMED one
\* is followed by a promotion job.
Demote(u, to) ==
    [pc |-> "demoteRead", user |-> u, to |-> to,
     notify |-> signUp[u].status = "CONFIRMED", id |-> signUp[u].id]

\* fromDataStorage makes every ticket event non-retractable.
SignUpsRetractable == Retractable /\ EventType # "TICKETS"

RetractGetSignUp(r) ==
    /\ At(r, "getSignUp")
    /\ LET u == req[r].user
           refused == \/ NoActiveSignUp(u)
                      \/ /\ signUp[u].status = "CONFIRMED"
                         /\ req[r].closesAt < now \/ ~SignUpsRetractable IN
       \/ refused /\ Goto(r, Done)
       \/ ~refused /\ Goto(r, Demote(u, "RETRACTED"))
    /\ UNCHANGED <<database, env>>

\* getSignUpById; a row that is inactive already is returned as it is.
Remove(r, u) ==
    /\ At(r, "idle")
    /\ ~NoActiveSignUp(u)
    /\ Goto(r, Demote(u, "REMOVED"))
    /\ UNCHANGED <<database, env>>

\* updateSignUp looks the active row of the user up again, whatever its id.
DemoteRead(r) ==
    /\ At(r, "demoteRead")
    /\ LET u == req[r].user IN
       \/ NoActiveSignUp(u) /\ Goto(r, Done)
       \/ /\ ~NoActiveSignUp(u)
          /\ Goto(r, [pc |-> "demoteWrite", user |-> u, to |-> req[r].to,
                      notify |-> req[r].notify, id |-> req[r].id,
                      row |-> signUp[u]])
    /\ UNCHANGED <<database, env>>

DemoteWrite(r) ==
    /\ At(r, "demoteWrite")
    /\ LET u == req[r].user
           row == req[r].row IN
       \/ /\ MakeActiveSignUpInactive(u, row, req[r].to)
          /\ Goto(r, IF req[r].notify THEN [pc |-> "notify"] ELSE Done)
       \/ ~Unchanged(u, row) /\ Goto(r, Done) /\ UNCHANGED database
    /\ UNCHANGED env

EventCapacityChanged(r) ==
    /\ At(r, "notify")
    /\ jobs' = [jobs EXCEPT ![0] = @ + 1]
    /\ Goto(r, Done)
    /\ UNCHANGED <<database, mailed, now, worker>>

-----------------------------------------------------------------------------
(* EventService.update: the new rows are computed from the rows that were  *)
(* read, and written if the event still has the version that was read.     *)

Given(value, default) == IF value = Undefined THEN default ELSE value

UpdatedEvent(p) ==
    [event EXCEPT
        !.capacity = Given(p.capacity, @),
        !.remaining = @ + Given(p.capacity, event.capacity) - event.capacity,
        !.enabled = Given(p.enabled, @),
        !.opensAt = Given(p.opensAt, @),
        !.closesAt = Given(p.closesAt, @)]

UpdatedSlot(c) ==
    LET row == slot[c.id] IN
    [id |-> c.id, version |-> row.version,
     capacity |-> Given(c.capacity, row.capacity),
     remaining |-> row.remaining + Given(c.capacity, row.capacity) - row.capacity,
     gradeYears |-> Given(c.gradeYears, row.gradeYears)]

\* Mutant of ValidUpdate: a slot with sign-ups may be deleted.
ValidUpdateDropsAnySlot(p) ==
    /\ UpdatedEvent(p).remaining >= 0
    /\ \A c \in p.change :
          slot[c.id].state = "present" /\ UpdatedSlot(c).remaining >= 0
    /\ \A s \in p.drop : slot[s].state = "present"

ValidUpdate(p) ==
    /\ UpdatedEvent(p).remaining >= 0
    /\ p.opensAt # Undefined \/ p.closesAt # Undefined =>
          UpdatedEvent(p).opensAt < UpdatedEvent(p).closesAt
    /\ \A c \in p.change :
          slot[c.id].state = "present" /\ UpdatedSlot(c).remaining >= 0
    /\ \A s \in p.drop :
          slot[s].state = "present" /\ slot[s].remaining = slot[s].capacity

Update(r, p) ==
    /\ At(r, "idle")
    /\ \/ /\ ValidUpdate(p)
          /\ Goto(r, [pc |-> "updateWrite", event |-> UpdatedEvent(p),
                      create |-> p.create,
                      change |-> {UpdatedSlot(c) : c \in p.change},
                      drop |-> {[id |-> s, version |-> slot[s].version] :
                                   s \in p.drop}])
       \/ ~ValidUpdate(p) /\ Goto(r, Done)
    /\ UNCHANGED <<database, env>>

\* deleteMany and updateMany skip a slot whose version has changed.
WrittenSlot(s, plan) ==
    LET row == slot[s]
        same == {c \in plan.change : c.id = s /\ c.version = row.version} IN
    IF [id |-> s, version |-> row.version] \in plan.drop THEN DeletedSlot
    ELSE IF row.state = "present" /\ same # {}
         THEN LET c == CHOOSE c \in same : TRUE IN
              [state |-> "present", version |-> row.version + 1,
               capacity |-> c.capacity, remaining |-> c.remaining,
               gradeYears |-> c.gradeYears]
    ELSE row

CreatedSlot(c) ==
    [state |-> "present", version |-> 0, capacity |-> c.capacity,
     remaining |-> c.capacity, gradeYears |-> c.gradeYears]

\* Mutant of EventUnchanged: the update is written whatever happened meanwhile.
EventNotCompared(read) == TRUE

\* The event's version is compared, but not incremented.
EventUnchanged(read) == event.version = read.version

UpdateWrite(r) ==
    /\ At(r, "updateWrite")
    /\ \/ /\ EventUnchanged(req[r].event)
          /\ event' = req[r].event
          /\ slot' = [s \in Slots |->
                IF slot[s].state = "unused" /\ s \in Created(req[r])
                THEN CreatedSlot(CHOOSE c \in req[r].create : c.id = s)
                ELSE WrittenSlot(s, req[r])]
          /\ UNCHANGED <<signUp, inactive, product, nextId>>
       \/ /\ ~EventUnchanged(req[r].event)
          /\ UNCHANGED database
    /\ Goto(r, Done)
    /\ UNCHANGED env

-----------------------------------------------------------------------------
(* The sign-up worker: the job "event-capacity-increased" *)

envW == <<mailed, now, req>>

TakeJob(w, k) ==
    /\ WorkerAt(w, "idle")
    /\ jobs[k] > 0
    /\ jobs' = [jobs EXCEPT ![k] = @ - 1]
    /\ WorkerGoto(w, [IdleWorker EXCEPT !.pc = "getEvent", !.stalled = k])
    /\ UNCHANGED <<database, envW>>

\* The number of promotions is fixed by the remaining capacity of this read.
WorkerGetEvent(w) ==
    /\ WorkerAt(w, "getEvent")
    /\ \/ ~event.enabled /\ WorkerGoto(w, IdleWorker)
       \/ /\ event.enabled
          /\ WorkerGoto(w, [worker[w] EXCEPT
                !.pc = IF event.remaining > 0 THEN "promote" ELSE "mail",
                !.attempts = event.remaining])
    /\ UNCHANGED <<database, jobs, envW>>

\* promoteFromWaitList; an exception fails the job, which is not retried.
Promote(w) ==
    /\ WorkerAt(w, "promote")
    /\ \/ event.remaining <= 0 /\ WorkerGoto(w, IdleWorker)
       \/ /\ event.remaining > 0
          /\ WorkerGoto(w, [worker[w] EXCEPT !.pc = "findMany"])
    /\ UNCHANGED <<database, jobs, envW>>

\* The loop over the wait list ends with a promotion or, at its end, with null.
NextSignUp(w, todo) ==
    [worker[w] EXCEPT !.pc = IF todo = {} THEN "mail" ELSE "findSlot",
                      !.todo = todo, !.user = Undefined, !.slot = NoSlot,
                      !.row = NoRow]

Promoted(w, id) ==
    [IdleWorker EXCEPT !.pc = IF worker[w].attempts > 1 THEN "promote" ELSE "mail",
                       !.stalled = worker[w].stalled,
                       !.attempts = worker[w].attempts - 1,
                       !.newSignUps = worker[w].newSignUps \cup {id}]

FindManySignUps(w) ==
    /\ WorkerAt(w, "findMany")
    /\ WorkerGoto(w, NextSignUp(w, {[user |-> u, id |-> signUp[u].id] :
                                       u \in OnWaitList(signUp)}))
    /\ UNCHANGED <<database, jobs, envW>>

\* Mutant of First: the newest sign-up is promoted.
Latest(todo) == {x \in todo : \A y \in todo : y.id <= x.id}
First(todo) == {x \in todo : \A y \in todo : x.id <= y.id}

\* Mutant of Rest: the loop does not advance.
RestIsAll(todo, next) == todo
Rest(todo, next) == todo \ {next}

\* Promotion only uses slots that are open to every grade year.
PromoteFindSlot(w) ==
    /\ WorkerAt(w, "findSlot")
    /\ \E next \in First(worker[w].todo) :
        LET rest == Rest(worker[w].todo, next)
            found == SlotWithRemainingCapacity(Undefined) IN
        \/ found = {} /\ WorkerGoto(w, NextSignUp(w, rest))
        \/ \E s \in found :
              WorkerGoto(w, [worker[w] EXCEPT !.pc = "updateRead", !.slot = s,
                                              !.user = next.user, !.todo = rest])
    /\ UNCHANGED <<database, jobs, envW>>

\* A sign-up that is CONFIRMED already is returned as if it were promoted; a
\* user without an active sign-up fails the job.
PromoteUpdateRead(w) ==
    /\ WorkerAt(w, "updateRead")
    /\ LET row == signUp[worker[w].user] IN
       \/ row = NoRow /\ WorkerGoto(w, IdleWorker)
       \/ row.status = "CONFIRMED" /\ WorkerGoto(w, Promoted(w, row.id))
       \/ /\ row.status = "ON_WAITLIST"
          /\ WorkerGoto(w, [worker[w] EXCEPT !.pc = "updateWrite", !.row = row])
    /\ UNCHANGED <<database, jobs, envW>>

\* NotFoundError moves on to the next sign-up of the wait list.
PromoteUpdateWrite(w) ==
    /\ WorkerAt(w, "updateWrite")
    /\ LET u == worker[w].user
           row == worker[w].row
           s == worker[w].slot IN
       \/ /\ MakeOnWaitlistSignUpConfirmed(u, row, s)
          /\ WorkerGoto(w, Promoted(w, row.id))
       \/ /\ ~(Unchanged(u, row) /\ HasSeat(s))
          /\ WorkerGoto(w, NextSignUp(w, worker[w].todo))
          /\ UNCHANGED database
    /\ UNCHANGED <<jobs, envW>>

SendAsyncBulk(w) ==
    /\ WorkerAt(w, "mail")
    /\ mailed' = mailed \cup worker[w].newSignUps
    /\ WorkerGoto(w, IdleWorker)
    /\ UNCHANGED <<database, jobs, now, req>>

-----------------------------------------------------------------------------
(* The environment *)

Tick ==
    /\ now < MaxNow
    /\ now' = now + 1
    /\ UNCHANGED <<database, jobs, mailed, req, worker>>

\* A server process dies, or Redis refuses the job: the request goes no further.
RequestFails(r) ==
    /\ MayCrash
    /\ req[r].pc \notin {"idle", "done"}
    /\ Goto(r, Done)
    /\ UNCHANGED <<database, env>>

\* A worker process dies.  BullMQ gives a stalled job to a worker once more
\* and fails it the second time.
WorkerStalls(w) ==
    /\ MayCrash
    /\ ~WorkerAt(w, "idle")
    /\ WorkerGoto(w, IdleWorker)
    /\ jobs' = IF worker[w].stalled = 0 THEN [jobs EXCEPT ![1] = @ + 1] ELSE jobs
    /\ UNCHANGED <<database, envW>>

-----------------------------------------------------------------------------
RequestStep(r) ==
    \/ SignUpGetEvent(r)
    \/ SignUpFindSlot(r)
    \/ SignUpConfirm(r)
    \/ SignUpWaitlist(r)
    \/ SignUpGetProduct(r)
    \/ SignUpCreateOrder(r)
    \/ SignUpAddOrder(r)
    \/ RetractGetSignUp(r)
    \/ DemoteRead(r)
    \/ DemoteWrite(r)
    \/ EventCapacityChanged(r)
    \/ UpdateWrite(r)

RequestCall(r) ==
    \/ \E u \in MaySignUp[r] : SignUp(r, u)
    \/ \E u \in MayRetract[r] : Retract(r, u)
    \/ \E u \in MayRemove[r] : Remove(r, u)
    \/ \E p \in MayUpdate[r] : Update(r, p)

WorkerStep(w) ==
    \/ \E k \in {0, 1} : TakeJob(w, k)
    \/ WorkerGetEvent(w)
    \/ Promote(w)
    \/ FindManySignUps(w)
    \/ PromoteFindSlot(w)
    \/ PromoteUpdateRead(w)
    \/ PromoteUpdateWrite(w)
    \/ SendAsyncBulk(w)

Next ==
    \/ \E r \in Requests : RequestCall(r) \/ RequestStep(r) \/ RequestFails(r)
    \/ \E w \in Workers : WorkerStep(w) \/ WorkerStalls(w)
    \/ Tick

Spec == Init /\ [][Next]_vars

\* Node runs every pending continuation and BullMQ polls its queue for as long
\* as the process lives; a client need not call, and time need not pass.
Fairness ==
    /\ \A r \in Requests : WF_vars(RequestStep(r))
    /\ \A w \in Workers : WF_vars(WorkerStep(w))

FairSpec == Spec /\ Fairness
=============================================================================
