--------------------------- MODULE MCEventSignUps ---------------------------
(***************************************************************************)
(* Small instances of EventSignUps, one section for each run.              *)
(***************************************************************************)
EXTENDS EventSignUpsProperties, TLC

CONSTANTS u1, u2, u3, u4, s1, s2, s3, r1, r2, r3, w1, w2

Event(cap, taken) == [version |-> 0, capacity |-> cap, remaining |-> cap - taken,
                      enabled |-> TRUE, opensAt |-> 0, closesAt |-> 1]
Slot(cap, taken, years) == [state |-> "present", version |-> 0, capacity |-> cap,
                            remaining |-> cap - taken, gradeYears |-> years]
UnusedSlot == [state |-> "unused", version |-> 0, capacity |-> 0,
               remaining |-> 0, gradeYears |-> {}]
Holds(i, s) == [id |-> i, version |-> 0, status |-> "CONFIRMED", slot |-> s,
                order |-> 0]
Waits(i) == [id |-> i, version |-> 0, status |-> "ON_WAITLIST", slot |-> NoSlot,
             order |-> 0]

TwoYears == {1, 2}
AllFirstYear == [u \in Users |-> 1]
GradeYearsMixed == u1 :> 1 @@ u2 :> 2 @@ u3 :> Undefined

\* Which users a request may be called for: none, or those listed.
Nobody == [r \in Requests |-> {}]
Calls(first, second, third) ==
    [r \in Requests |-> CASE r = r1 -> first [] r = r2 -> second [] OTHER -> third]

-----------------------------------------------------------------------------
(* seats: a ticket event with two slots of one seat, the second for the    *)
(* second year only; one seat is taken and u3, without a year, waits.      *)

SeatsEvent == [Event(2, 1) EXCEPT !.closesAt = 0]
SeatsSlots == s1 :> Slot(1, 1, {1, 2}) @@ s2 :> Slot(1, 0, {2})
SeatsSignUps == u1 :> Holds(1, s1) @@ u2 :> NoRow @@ u3 :> Waits(2)
SeatsSignUpCalls == Calls({u2}, {u1, u3}, {u2})
SeatsRetractCalls == Calls({u1}, {u1, u3}, {u1, u2})
SeatsRemoveCalls == Calls({}, {u1, u2, u3}, {u1, u2})

-----------------------------------------------------------------------------
(* updates: u1 holds the only seat of s1; s2 is free; s3 can be created.   *)

UpdatesEvent == Event(2, 1)
UpdatesSlots == s1 :> Slot(1, 1, {1, 2}) @@ s2 :> Slot(1, 0, {1, 2})
                @@ s3 :> UnusedSlot
UpdatesSignUps == u1 :> Holds(1, s1) @@ u2 :> NoRow

NoChange == [capacity |-> Undefined, enabled |-> Undefined,
             opensAt |-> Undefined, closesAt |-> Undefined,
             create |-> {}, change |-> {}, drop |-> {}]
Resized(s, cap) == [id |-> s, capacity |-> cap, gradeYears |-> Undefined]
ShrinkEvent == [NoChange EXCEPT !.capacity = 1]
GrowEvent == [NoChange EXCEPT !.capacity = 3, !.change = {Resized(s1, 2)},
              !.create = {[id |-> s3, capacity |-> 1, gradeYears |-> {1, 2}]}]
DropSlot == [NoChange EXCEPT !.drop = {s2}]
DropFullSlot == [NoChange EXCEPT !.drop = {s1}, !.change = {Resized(s2, 2)}]
CloseSignUps == [NoChange EXCEPT !.opensAt = 1, !.closesAt = 1]
SecondYearOnly == [NoChange EXCEPT !.enabled = FALSE,
    !.change = {[id |-> s2, capacity |-> Undefined, gradeYears |-> {2}]}]
UpdatesUpdateCalls ==
    Calls({GrowEvent, DropSlot, SecondYearOnly}, {ShrinkEvent, DropFullSlot,
          CloseSignUps, GrowEvent}, {})
UpdatesSignUpCalls == Calls({u2}, {u2}, {u2})
UpdatesRemoveCalls == Calls({u1}, {}, {u1, u2})

-----------------------------------------------------------------------------
(* refill: a full event whose slots are open to every year, and a wait     *)
(* list; the confirmed users leave.                                        *)

FullEvent == Event(2, 2)
FullSlots == s1 :> Slot(1, 1, {1, 2}) @@ s2 :> Slot(1, 1, {1, 2})
FullSignUps == u1 :> Holds(1, s1) @@ u2 :> Holds(2, s2) @@ u3 :> Waits(3)
               @@ u4 :> Waits(4)
EachLeaves == Calls({u1}, {u2}, {})

-----------------------------------------------------------------------------
(* ticket_order: two free seats of one slot for two users, one product.    *)

RoomyEvent == Event(2, 0)
RoomySlots == s1 :> Slot(2, 0, {1, 2})
NobodySignedUp == u1 :> NoRow @@ u2 :> NoRow
RoomySignUpCalls == Calls({u1}, {u2}, {})
=============================================================================
