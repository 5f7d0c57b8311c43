-------------------------- MODULE Payments_proofs --------------------------
(***************************************************************************)
(* Proofs about Payments, for any number of requests, workers, attempts    *)
(* and repeats, with failing calls and dying processes: the inductive      *)
(* invariant PaymentsInv, that every step is a step of OrderPayment, and   *)
(* under which conditions the payer is charged once and every reserved     *)
(* order is being captured.                                                *)
(***************************************************************************)
EXTENDS PaymentsProperties, FiniteSetTheorems, TLAPS

Inv == PaymentsTypeOK /\ PaymentsInv

-----------------------------------------------------------------------------
(* What requests and workers hold *)

\* A request that is at a label has the fields of that label.
LEMMA RequestShape ==
    ASSUME PaymentsTypeOK, NEW r \in Requests
    PROVE  /\ At(r, "create") \/ At(r, "createAttempt") \/ At(r, "writeOrder") =>
                 req[r].order \in OrderRows
           /\ At(r, "writeOrder") \/ At(r, "readOrder") \/ At(r, "addPollingJob") =>
                 req[r].ref \in Refs
  BY DEF PaymentsTypeOK, At, RequestStates

\* A job names one of the order's attempts.
LEMMA JobShape ==
    ASSUME NEW job \in Jobs
    PROVE  job.ref \in Refs
  BY DEF Jobs

\* A worker that is at a label has the fields of that label.
LEMMA WorkerShape ==
    ASSUME PaymentsTypeOK, NEW w \in Workers
    PROVE  /\ worker[w].at # "idle" => worker[w].job \in Jobs /\ Ref(w) \in Refs
           /\ worker[w].at \in {"getOrder", "info", "updateAttempt"} =>
                 worker[w].attempt \in AttemptRows
           /\ worker[w].at \in {"info", "updateAttempt", "writeOrder"} =>
                 worker[w].order \in OrderRows
           /\ worker[w].at \in {"updateAttempt", "removeRepeatable"} =>
                 worker[w].state \in PaymentStates
  <1>1. worker[w] \in WorkerStates
    BY DEF PaymentsTypeOK
  <1>2. worker[w].at # "idle" => worker[w].job \in Jobs
    BY <1>1 DEF WorkerStates
  <1>3. worker[w].at # "idle" => Ref(w) \in Refs
    BY <1>2, JobShape DEF Ref
  <1>4. worker[w].at \in {"getOrder", "info", "updateAttempt"} =>
           worker[w].attempt \in AttemptRows
    BY <1>1 DEF WorkerStates
  <1>5. worker[w].at \in {"info", "updateAttempt", "writeOrder"} =>
           worker[w].order \in OrderRows
    BY <1>1 DEF WorkerStates
  <1>6. worker[w].at \in {"updateAttempt", "removeRepeatable"} =>
           worker[w].state \in PaymentStates
    BY <1>1 DEF WorkerStates
  <1> QED BY <1>2, <1>3, <1>4, <1>5, <1>6

\* How the shared rows may change under a request or worker that waits.
Progress ==
    /\ order' = order \/ order'.version > order.version
    /\ \A n \in Refs :
          \/ attempts'[n] = attempts[n]
          \/ attempts[n].state = "none"
          \/ /\ attempts[n].state = "CREATED"
             /\ attempts'[n].state # "none"
             /\ attempts'[n].version > attempts[n].version
    /\ \A n \in Refs :
          \/ vipps'[n] = vipps[n]
          \/ vipps[n] \in {"none", "CREATED"} /\ vipps'[n] # "none"
    /\ charged \subseteq charged'

\* What a request holds stays true while it waits.
LEMMA RequestWaits ==
    ASSUME Inv, PaymentsTypeOK', Progress, NEW r \in Requests, req'[r] = req[r]
    PROVE  RequestHolds(r)'
  <1>1. RequestHolds(r)
    BY DEF Inv, PaymentsInv
  <1>2. /\ At(r, "create") \/ At(r, "createAttempt") \/ At(r, "writeOrder") =>
                 req[r].order \in OrderRows
    BY RequestShape DEF Inv
  <1>3. order \in OrderRows /\ order' \in OrderRows
    BY DEF Inv, PaymentsTypeOK
  <1>4. ASSUME HeldOrder(req[r].order), req[r].order \in OrderRows
        PROVE  HeldOrder(req[r].order)'
    BY <1>3, <1>4 DEF HeldOrder, Progress, OrderRows
  <1>5. ASSUME At(r, "createAttempt")
        PROVE  (vipps[req[r].order.attempt + 1] # "none")'
    <2>1. req[r].order.attempt + 1 \in Refs
      BY <1>1, <1>2, <1>5, PaymentsAssumption DEF RequestHolds, At, OrderRows, Refs
    <2> QED BY <2>1, <1>1, <1>5 DEF RequestHolds, At, Progress
  <1>6. ASSUME req[r].at \in {"readOrder", "writeOrder", "addPollingJob"}
        PROVE  attempts'[req[r].ref].state # "none"
    <2>1. req[r].ref \in Refs
      BY <1>6, RequestShape DEF Inv, At
    <2> QED BY <1>1, <1>6, <2>1 DEF RequestHolds, Progress
  <1> QED BY <1>1, <1>2, <1>4, <1>5, <1>6 DEF RequestHolds, At, MayBePaid

\* What a worker holds stays true while it waits.
LEMMA WorkerWaits ==
    ASSUME Inv, PaymentsTypeOK', Progress, NEW w \in Workers, worker'[w] = worker[w]
    PROVE  WorkerHolds(w)'
  <1>1. WorkerHolds(w)
    BY DEF Inv, PaymentsInv
  <1>2. order \in OrderRows /\ order' \in OrderRows
    BY DEF Inv, PaymentsTypeOK
  <1>3. /\ worker[w].at # "idle" => Ref(w) \in Refs
        /\ worker[w].at \in {"getOrder", "info", "updateAttempt"} =>
                 worker[w].attempt \in AttemptRows
        /\ worker[w].at \in {"info", "updateAttempt", "writeOrder"} =>
                 worker[w].order \in OrderRows
    BY WorkerShape DEF Inv
  <1>4. Ref(w)' = Ref(w)
    BY DEF Ref
  <1>5. ASSUME HeldOrder(worker[w].order), worker[w].order \in OrderRows
        PROVE  HeldOrder(worker[w].order)'
    BY <1>2, <1>5 DEF HeldOrder, Progress, OrderRows
  <1>6. CASE worker[w].at \in {"getOrder", "info", "updateAttempt"}
    <2>1. attempts[Ref(w)] \in AttemptRows /\ attempts'[Ref(w)] \in AttemptRows
      BY <1>3, <1>6 DEF Inv, PaymentsTypeOK
    <2>2. HeldAttempt(Ref(w), worker[w].attempt)' /\ attempts'[Ref(w)].state # "none"
      BY <1>1, <1>3, <1>4, <1>6, <2>1 DEF WorkerHolds, HeldAttempt, Progress, AttemptRows
    <2>3. worker[w].at = "updateAttempt" /\ worker[w].state \in FinalStates =>
             vipps'[Ref(w)] = worker[w].state
      BY <1>1, <1>3, <1>6 DEF WorkerHolds, Progress, FinalStates
    <2> QED BY <1>1, <1>3, <1>4, <1>5, <1>6, <2>2, <2>3 DEF WorkerHolds
  <1>7. CASE worker[w].at \in {"removeRepeatable", "addCapture",
                               "captureGetOrder", "vippsCapture"}
    BY <1>1, <1>3, <1>4, <1>7 DEF WorkerHolds, Progress, Authorized, FinalStates
  <1>8. CASE worker[w].at \in {"readOrder", "writeOrder", "receipt"}
    BY <1>1, <1>3, <1>4, <1>5, <1>8 DEF WorkerHolds, Progress
  <1>9. CASE worker[w].at = "idle"
    BY <1>9 DEF WorkerHolds
  <1>10. worker[w].at \in {"idle", "getOrder", "info", "updateAttempt",
                           "removeRepeatable", "addCapture", "captureGetOrder",
                           "vippsCapture", "readOrder", "writeOrder", "receipt"}
    BY DEF Inv, PaymentsTypeOK, WorkerStates
  <1> QED BY <1>6, <1>7, <1>8, <1>9, <1>10

\* A step keeps the invariant if it keeps its three parts about the rows, and
\* what the requests and workers that take part in it hold.
LEMMA StepKeepsInv ==
    ASSUME Inv, PaymentsTypeOK', Progress,
           OrderFollowsAttempts', CapturedWasCharged', AttemptsMirrorVipps',
           \A r \in Requests : req'[r] = req[r] \/ RequestHolds(r)',
           \A w \in Workers : worker'[w] = worker[w] \/ WorkerHolds(w)'
    PROVE  Inv'
  <1>1. \A r \in Requests : RequestHolds(r)'
    BY RequestWaits
  <1>2. \A w \in Workers : WorkerHolds(w)'
    BY WorkerWaits
  <1> QED BY <1>1, <1>2 DEF Inv, PaymentsInv

\* A step that writes neither rows nor payments keeps what is said of them.
LEMMA SameRows ==
    ASSUME Inv, UNCHANGED <<database, atVipps>>
    PROVE  /\ Progress /\ OrderFollowsAttempts' /\ CapturedWasCharged'
           /\ AttemptsMirrorVipps'
  BY DEF database, atVipps, Inv, PaymentsInv, Progress, OrderFollowsAttempts,
         CapturedWasCharged, AttemptsMirrorVipps, Authorized

-----------------------------------------------------------------------------
(* The steps of a request, and of Vipps *)

LEMMA InitInv == Init => Inv
  <1> SUFFICES ASSUME Init PROVE Inv
    OBVIOUS
  <1>1. /\ MaxRefs \in Nat \ {0} /\ PollLimit \in Nat \ {0}
        /\ MaxFailures \in Nat /\ InitiallyOpen \in 0..MaxRefs
    BY PaymentsAssumption
  <1>2. order \in OrderRows
    BY <1>1 DEF Init, OrderRows
  <1>3. attempts \in [Refs -> AttemptRows] /\ vipps \in [Refs -> PaymentStates]
    BY DEF Init, AttemptRows, NewAttempt, NoAttempt, PaymentStates
  <1>4. redirected \subseteq Refs /\ polls \in [Refs -> 0..PollLimit]
    BY <1>1 DEF Init, Refs
  <1>5. PaymentsTypeOK
    BY <1>1, <1>2, <1>3, <1>4
       DEF Init, PaymentsTypeOK, Idle, RequestStates, WorkerStates
  <1>6. \A n \in Refs : /\ attempts[n].state \in {"none", "CREATED"}
                        /\ attempts[n].state # "none" <=> n <= InitiallyOpen
                        /\ vipps[n] = attempts[n].state
    BY DEF Init, NewAttempt, NoAttempt
  <1>7. OrderFollowsAttempts /\ CapturedWasCharged /\ AttemptsMirrorVipps
    BY <1>1, <1>6 DEF Init, OrderFollowsAttempts, CapturedWasCharged,
       AttemptsMirrorVipps, Authorized, FinalStates
  <1>8. /\ \A r \in Requests : RequestHolds(r)
        /\ \A w \in Workers : WorkerHolds(w)
    BY DEF Init, Idle, RequestHolds, WorkerHolds
  <1> QED BY <1>5, <1>7, <1>8 DEF Inv, PaymentsInv

LEMMA InitiateInv ==
    ASSUME Inv, NEW r \in Requests, InitiatePaymentAttempt(r)
    PROVE  Inv'
  <1>1. UNCHANGED <<database, atVipps>>
    BY DEF InitiatePaymentAttempt
  <1>2. order \in OrderRows
    BY DEF Inv, PaymentsTypeOK
  <1>3. PaymentsTypeOK'
    BY <1>2 DEF Inv, PaymentsTypeOK, InitiatePaymentAttempt, Goto, Done,
       RequestStates, database, atVipps, queue
  <1>4. RequestHolds(r)'
    BY <1>2 DEF Inv, PaymentsTypeOK, InitiatePaymentAttempt, Goto, Done,
       RequestHolds, HeldOrder, MayBePaid, OrderRows, database
  <1>5. /\ \A q \in Requests : q = r \/ req'[q] = req[q]
        /\ worker' = worker
    BY DEF InitiatePaymentAttempt, Goto, Inv, PaymentsTypeOK
  <1> QED BY <1>1, <1>3, <1>4, <1>5, SameRows, StepKeepsInv

LEMMA VippsCreateInv ==
    ASSUME Inv, NEW r \in Requests, VippsCreate(r)
    PROVE  Inv'
  <1> DEFINE held == req[r].order
             ref == held.attempt + 1
  <1>1. /\ held \in OrderRows /\ HeldOrder(held) /\ MayBePaid(held)
        /\ held.attempt < MaxRefs
    BY RequestShape DEF Inv, PaymentsInv, VippsCreate, RequestHolds, At
  <1>2. ref \in Refs
    BY <1>1, PaymentsAssumption DEF OrderRows, Refs
  <1>3. /\ UNCHANGED <<order, attempts, charged, redirected, polls, jobs,
                       receipts, worker>>
        /\ failures' \in 0..MaxFailures
    <2>1. \/ failures' = failures
          \/ failures < MaxFailures /\ failures' = failures + 1
      BY DEF VippsCreate, Fails
    <2>2. failures' \in 0..MaxFailures
      BY <2>1, PaymentsAssumption DEF Inv, PaymentsTypeOK
    <2> QED BY <2>2 DEF VippsCreate, database, queue
  <1>4. \/ vipps' = vipps
        \/ vipps[ref] = "none" /\ vipps' = [vipps EXCEPT ![ref] = "CREATED"]
    BY DEF VippsCreate
  <1>5. \/ req' = [req EXCEPT ![r] = Done]
        \/ /\ req' = [req EXCEPT ![r] = [at |-> "createAttempt", order |-> held]]
           /\ vipps' = [vipps EXCEPT ![ref] = "CREATED"]
    BY DEF VippsCreate, Goto
  <1>6. PaymentsTypeOK'
    <2>1. vipps' \in [Refs -> PaymentStates]
      BY <1>4 DEF Inv, PaymentsTypeOK, PaymentStates
    <2>2. req' \in [Requests -> RequestStates]
      BY <1>1, <1>5 DEF Inv, PaymentsTypeOK, RequestStates, Done
    <2> QED BY <1>3, <2>1, <2>2 DEF Inv, PaymentsTypeOK
  <1>7. \A n \in Refs : \/ vipps'[n] = vipps[n]
                        \/ vipps[n] = "none" /\ vipps'[n] = "CREATED"
    BY <1>2, <1>4 DEF Inv, PaymentsTypeOK
  <1>8. Progress
    BY <1>3, <1>7 DEF Progress
  <1>9. OrderFollowsAttempts' /\ CapturedWasCharged' /\ AttemptsMirrorVipps'
    BY <1>3, <1>7 DEF Inv, PaymentsInv, OrderFollowsAttempts,
       CapturedWasCharged, AttemptsMirrorVipps, Authorized, FinalStates
  <1>10. RequestHolds(r)'
    <2>1. CASE req' = [req EXCEPT ![r] = Done]
      BY <2>1 DEF Inv, PaymentsTypeOK, RequestHolds, Done
    <2>2. CASE /\ req' = [req EXCEPT ![r] = [at |-> "createAttempt", order |-> held]]
               /\ vipps' = [vipps EXCEPT ![ref] = "CREATED"]
      BY <1>1, <1>2, <1>3, <2>2
         DEF Inv, PaymentsTypeOK, RequestHolds, HeldOrder, MayBePaid
    <2> QED BY <1>5, <2>1, <2>2
  <1>11. \A q \in Requests : q = r \/ req'[q] = req[q]
    BY <1>5 DEF Inv, PaymentsTypeOK
  <1> QED BY <1>3, <1>6, <1>8, <1>9, <1>10, <1>11, StepKeepsInv

LEMMA CreatePaymentAttemptInv ==
    ASSUME Inv, NEW r \in Requests, CreatePaymentAttempt(r)
    PROVE  Inv'
  <1> DEFINE held == req[r].order
             ref == held.attempt + 1
  <1>1. /\ held \in OrderRows /\ HeldOrder(held) /\ MayBePaid(held)
        /\ held.attempt < MaxRefs /\ vipps[ref] # "none"
    BY RequestShape DEF Inv, PaymentsInv, CreatePaymentAttempt, RequestHolds, At
  <1>2. ref \in Refs
    BY <1>1, PaymentsAssumption DEF OrderRows, Refs
  <1>3. UNCHANGED <<atVipps, redirected, queue, receipts, failures, worker>>
    BY DEF CreatePaymentAttempt
  <1>4. CASE ~OrderUnchanged(held)
    <2>1. UNCHANGED database /\ req' = [req EXCEPT ![r] = Done]
      BY <1>4 DEF CreatePaymentAttempt, Goto
    <2>2. PaymentsTypeOK'
      BY <1>3, <2>1 DEF Inv, PaymentsTypeOK, Done, RequestStates, database,
         atVipps, queue
    <2>3. RequestHolds(r)' /\ \A q \in Requests : q = r \/ req'[q] = req[q]
      BY <2>1 DEF Inv, PaymentsTypeOK, RequestHolds, Done
    <2> QED BY <1>3, <2>1, <2>2, <2>3, SameRows, StepKeepsInv
  <1>5. CASE OrderUnchanged(held)
    <2>1. /\ attempts' = [attempts EXCEPT ![ref] = NewAttempt]
          /\ order' = [order EXCEPT !.paymentStatus = "CREATED",
                                    !.attempt = @ + 1, !.version = @ + 1]
          /\ req' = [req EXCEPT ![r] = [at |-> "readOrder", ref |-> ref]]
      BY <1>5 DEF CreatePaymentAttempt, Goto
    <2>2. held = order /\ order \in OrderRows
      BY <1>1, <1>5 DEF HeldOrder, OrderUnchanged
    <2>3. /\ attempts[ref].state = "none" /\ ref = order.attempt + 1
          /\ order.paymentStatus \in {"PENDING", "CREATED"}
      BY <1>1, <1>2, <2>2, PaymentsAssumption
         DEF Inv, PaymentsInv, AttemptsMirrorVipps, MayBePaid, OrderRows, Refs
    <2>4. /\ order'.version = order.version + 1 /\ order'.attempt = ref
          /\ order'.paymentStatus = "CREATED" /\ order'.captured = order.captured
          /\ order' \in OrderRows
      <3>1. order.attempt + 1 \in 0..MaxRefs /\ order.version + 1 \in Nat
        BY <1>2, <2>2, <2>3 DEF OrderRows, Refs
      <3> QED BY <2>1, <2>2, <2>3, <3>1 DEF OrderRows
    <2>5. \A n \in Refs : attempts'[n] = IF n = ref THEN NewAttempt ELSE attempts[n]
      BY <2>1 DEF Inv, PaymentsTypeOK
    <2>6. PaymentsTypeOK'
      <3>1. attempts' \in [Refs -> AttemptRows]
        BY <2>1 DEF Inv, PaymentsTypeOK, AttemptRows, NewAttempt, PaymentStates
      <3>2. req' \in [Requests -> RequestStates]
        BY <1>2, <2>1 DEF Inv, PaymentsTypeOK, RequestStates
      <3> QED BY <1>3, <2>4, <3>1, <3>2 DEF Inv, PaymentsTypeOK, atVipps, queue
    <2>7. Progress
      BY <1>3, <2>2, <2>3, <2>4, <2>5 DEF Progress, atVipps, OrderRows
    <2>8. Authorized' = Authorized
      BY <2>3, <2>5 DEF Authorized, NewAttempt
    <2>9. Authorized = {} /\ order.paymentStatus # "CAPTURED"
      BY <2>3 DEF Inv, PaymentsInv, OrderFollowsAttempts
    <2>10. OrderFollowsAttempts'
      BY <1>2, <2>4, <2>8, <2>9 DEF OrderFollowsAttempts, Refs
    <2>11. CapturedWasCharged'
      BY <1>3, <2>4, <2>8, <2>9 DEF Inv, PaymentsInv, CapturedWasCharged, atVipps
    <2>12. AttemptsMirrorVipps'
      <3> SUFFICES ASSUME NEW n \in Refs
                   PROVE  /\ attempts'[n].state # "none" <=> n <= order'.attempt
                          /\ attempts'[n].state # "none" => vipps'[n] # "none"
                          /\ attempts'[n].state \in FinalStates =>
                                vipps'[n] = attempts'[n].state
        BY DEF AttemptsMirrorVipps
      <3>1. CASE n = ref
        BY <1>1, <1>3, <2>4, <2>5, <3>1
           DEF NewAttempt, FinalStates, atVipps, Refs
      <3>2. CASE n # ref
        <4>1. n <= order'.attempt <=> n <= order.attempt
          BY <2>2, <2>3, <2>4, <3>2 DEF OrderRows, Refs
        <4> QED BY <1>3, <2>5, <3>2, <4>1
                DEF Inv, PaymentsInv, AttemptsMirrorVipps, atVipps
      <3> QED BY <3>1, <3>2
    <2>13. RequestHolds(r)' /\ \A q \in Requests : q = r \/ req'[q] = req[q]
      BY <1>2, <2>1, <2>5 DEF Inv, PaymentsTypeOK, RequestHolds, NewAttempt
    <2> QED BY <1>3, <2>6, <2>7, <2>10, <2>11, <2>12, <2>13, StepKeepsInv
  <1> QED BY <1>4, <1>5

LEMMA UpdateOrderReadInv ==
    ASSUME Inv, NEW r \in Requests, UpdateOrderRead(r)
    PROVE  Inv'
  <1>1. UNCHANGED <<database, atVipps>>
    BY DEF UpdateOrderRead
  <1>2. order \in OrderRows /\ req[r].ref \in Refs
    BY RequestShape DEF Inv, PaymentsTypeOK, UpdateOrderRead
  <1>3. PaymentsTypeOK'
    BY <1>2 DEF Inv, PaymentsTypeOK, UpdateOrderRead, Goto, RequestStates,
       database, atVipps, queue
  <1>4. RequestHolds(r)'
    BY <1>2 DEF Inv, PaymentsInv, PaymentsTypeOK, UpdateOrderRead, At, Goto,
       RequestHolds, HeldOrder, OrderRows, database
  <1>5. /\ \A q \in Requests : q = r \/ req'[q] = req[q]
        /\ worker' = worker
    BY DEF UpdateOrderRead, Goto, Inv, PaymentsTypeOK
  <1> QED BY <1>1, <1>3, <1>4, <1>5, SameRows, StepKeepsInv

LEMMA UpdateOrderWriteInv ==
    ASSUME Inv, NEW r \in Requests, UpdateOrderWrite(r)
    PROVE  Inv'
  <1> DEFINE held == req[r].order
             ref == req[r].ref
  <1>1. held \in OrderRows /\ HeldOrder(held) /\ ref \in Refs
    BY RequestShape DEF Inv, PaymentsInv, UpdateOrderWrite, RequestHolds, At
  <1>2. UNCHANGED <<attempts, atVipps, redirected, queue, receipts, failures, worker>>
    BY DEF UpdateOrderWrite
  <1>3. CASE ~OrderUnchanged(held)
    <2>1. UNCHANGED database /\ req' = [req EXCEPT ![r] = Done]
      BY <1>2, <1>3 DEF UpdateOrderWrite, Goto, database
    <2>2. PaymentsTypeOK'
      BY <1>2, <2>1 DEF Inv, PaymentsTypeOK, Done, RequestStates, database,
         atVipps, queue
    <2>3. RequestHolds(r)' /\ \A q \in Requests : q = r \/ req'[q] = req[q]
      BY <2>1 DEF Inv, PaymentsTypeOK, RequestHolds, Done
    <2> QED BY <1>2, <2>1, <2>2, <2>3, SameRows, StepKeepsInv
  <1>4. CASE OrderUnchanged(held)
    <2>1. held = order
      BY <1>1, <1>4 DEF HeldOrder, OrderUnchanged
    <2>2. order'.version = order.version + 1 /\ order' \in OrderRows
      <3>1. held.version + 1 \in Nat
        BY <1>1 DEF OrderRows
      <3> QED BY <1>1, <1>4, <2>1, <3>1 DEF UpdateOrderWrite, WriteOrder, OrderRows
    <2>3. /\ order'.attempt = order.attempt /\ order'.captured = order.captured
          /\ order'.paymentStatus = IF order.paymentStatus = "PENDING"
                                      THEN "CREATED" ELSE order.paymentStatus
          /\ req' = [req EXCEPT ![r] = [at |-> "addPollingJob", ref |-> ref]]
      BY <1>1, <1>4, <2>1 DEF UpdateOrderWrite, WriteOrder, Goto, OrderRows
    <2>4. attempts[ref].state # "none" /\ ref <= order.attempt
      BY <1>1 DEF Inv, PaymentsInv, RequestHolds, UpdateOrderWrite, At,
         AttemptsMirrorVipps
    <2>5. order.paymentStatus # "PENDING"
      BY <1>1, <2>1, <2>4 DEF Inv, PaymentsInv, OrderFollowsAttempts, OrderRows, Refs
    <2>6. PaymentsTypeOK'
      BY <1>1, <1>2, <2>2, <2>3 DEF Inv, PaymentsTypeOK, RequestStates, atVipps, queue
    <2>7. Progress
      BY <1>1, <1>2, <2>1, <2>2 DEF Progress, atVipps, OrderRows
    <2>8. OrderFollowsAttempts' /\ CapturedWasCharged' /\ AttemptsMirrorVipps'
      BY <1>2, <2>3, <2>5 DEF Inv, PaymentsInv, OrderFollowsAttempts,
         CapturedWasCharged, AttemptsMirrorVipps, Authorized, atVipps
    <2>9. RequestHolds(r)' /\ \A q \in Requests : q = r \/ req'[q] = req[q]
      BY <1>2, <2>3, <2>4 DEF Inv, PaymentsTypeOK, RequestHolds
    <2> QED BY <1>2, <2>6, <2>7, <2>8, <2>9, StepKeepsInv
  <1> QED BY <1>3, <1>4

LEMMA AddPollingJobInv ==
    ASSUME Inv, NEW r \in Requests, AddPollingJob(r)
    PROVE  Inv'
  <1>1. UNCHANGED <<database, atVipps, jobs, receipts, failures, worker>>
    BY DEF AddPollingJob
  <1>2. /\ req[r].ref \in Refs
        /\ polls' = [polls EXCEPT ![req[r].ref] = PollLimit]
        /\ redirected' = redirected \cup {req[r].ref}
        /\ req' = [req EXCEPT ![r] = Done]
    BY RequestShape DEF Inv, AddPollingJob, Goto
  <1>3. PaymentsTypeOK'
    BY <1>1, <1>2, PaymentsAssumption
       DEF Inv, PaymentsTypeOK, Done, RequestStates, database, atVipps
  <1>4. RequestHolds(r)' /\ \A q \in Requests : q = r \/ req'[q] = req[q]
    BY <1>2 DEF Inv, PaymentsTypeOK, RequestHolds, Done
  <1> QED BY <1>1, <1>3, <1>4, SameRows, StepKeepsInv

LEMMA RequestFailsInv ==
    ASSUME Inv, NEW r \in Requests, RequestFails(r)
    PROVE  Inv'
  <1>1. /\ UNCHANGED <<database, atVipps, redirected, queue, receipts, failures,
                       worker>>
        /\ req' = [req EXCEPT ![r] = Done]
    BY DEF RequestFails, Goto
  <1>2. PaymentsTypeOK'
    BY <1>1 DEF Inv, PaymentsTypeOK, Done, RequestStates, database, atVipps, queue
  <1>3. RequestHolds(r)' /\ \A q \in Requests : q = r \/ req'[q] = req[q]
    BY <1>1 DEF Inv, PaymentsTypeOK, RequestHolds, Done
  <1> QED BY <1>1, <1>2, <1>3, SameRows, StepKeepsInv

\* Vipps settles a payment of which no row is final yet.
LEMMA SettleInv ==
    ASSUME Inv, NEW n \in Refs, NEW outcome \in FinalStates, Settle(n, outcome)
    PROVE  Inv'
  <1>1. /\ UNCHANGED <<order, attempts, charged, redirected, polls, jobs,
                       receipts, failures, req, worker>>
        /\ vipps[n] = "CREATED" /\ vipps' = [vipps EXCEPT ![n] = outcome]
    BY DEF Settle, database, queue
  <1>2. PaymentsTypeOK'
    BY <1>1 DEF Inv, PaymentsTypeOK, FinalStates, PaymentStates
  <1>3. Progress
    BY <1>1 DEF Inv, PaymentsTypeOK, Progress, FinalStates
  <1>4. OrderFollowsAttempts' /\ CapturedWasCharged'
    BY <1>1 DEF Inv, PaymentsInv, OrderFollowsAttempts, CapturedWasCharged, Authorized
  <1>5. AttemptsMirrorVipps'
    BY <1>1 DEF Inv, PaymentsInv, PaymentsTypeOK, AttemptsMirrorVipps, FinalStates
  <1> QED BY <1>1, <1>2, <1>3, <1>4, <1>5, StepKeepsInv

-----------------------------------------------------------------------------
(* The steps of a worker *)

\* A worker step that writes no rows only has to keep what the worker holds.
LEMMA WorkerOnlyInv ==
    ASSUME Inv, PaymentsTypeOK', NEW w \in Workers,
           UNCHANGED <<database, atVipps, req>>,
           \A v \in Workers : v = w \/ worker'[v] = worker[v],
           WorkerHolds(w)'
    PROVE  Inv'
  BY SameRows, StepKeepsInv

\* An idle worker holds nothing, and the others are as they were.
LEMMA EndJobHolds ==
    ASSUME Inv, NEW w \in Workers, EndJob(w)
    PROVE  /\ WorkerHolds(w)' /\ worker' \in [Workers -> WorkerStates]
           /\ \A v \in Workers : v = w \/ worker'[v] = worker[v]
  BY DEF Inv, PaymentsTypeOK, EndJob, WorkerGoto, Idle, WorkerHolds, WorkerStates

\* A job that is put back, stalled or not, is a job.
LEMMA JobAgain ==
    ASSUME PaymentsTypeOK, NEW w \in Workers, worker[w].at # "idle"
    PROVE  /\ worker[w].job \in Jobs
           /\ [worker[w].job EXCEPT !.stalled = TRUE] \in Jobs
  <1>1. worker[w].job \in Jobs
    BY WorkerShape
  <1>2. [worker[w].job EXCEPT !.stalled = TRUE] \in Jobs
    BY <1>1 DEF Jobs
  <1> QED BY <1>1, <1>2

\* The payment attempt a job is about is read when the job is taken.
LEMMA GetPaymentAttemptHolds ==
    ASSUME Inv, NEW w \in Workers, NEW job \in Jobs,
           GetPaymentAttempt(w, job), UNCHANGED <<database, atVipps>>
    PROVE  /\ WorkerHolds(w)' /\ worker' \in [Workers -> WorkerStates]
           /\ \A v \in Workers : v = w \/ worker'[v] = worker[v]
  <1> DEFINE row == attempts[job.ref]
  <1>1. row \in AttemptRows /\ job.ref \in Refs
    BY JobShape DEF Inv, PaymentsTypeOK
  <1>2. PICK x : /\ worker' = [worker EXCEPT ![w] = x]
                 /\ \/ /\ row.state = "CREATED"
                       /\ x = [at |-> "getOrder", job |-> job, attempt |-> row]
                    \/ /\ row.state = "AUTHORIZED"
                       /\ x = [at |-> "captureGetOrder", job |-> job]
                    \/ x = Idle
    BY DEF GetPaymentAttempt, WorkerGoto
  <1>3. x \in WorkerStates
    BY <1>1, <1>2 DEF WorkerStates, Idle
  <1>4. worker'[w] = x /\ worker' \in [Workers -> WorkerStates]
        /\ \A v \in Workers : v = w \/ worker'[v] = worker[v]
    BY <1>2, <1>3 DEF Inv, PaymentsTypeOK
  <1>5. WorkerHolds(w)'
    BY <1>1, <1>2, <1>4 DEF WorkerHolds, HeldAttempt, Ref, Authorized,
       AttemptRows, database, Idle
  <1> QED BY <1>4, <1>5

LEMMA TakePollInv ==
    ASSUME Inv, NEW w \in Workers, NEW n \in Refs, TakePoll(w, n)
    PROVE  Inv'
  <1> DEFINE job == [kind |-> "poll", ref |-> n, repeat |-> polls[n],
                     stalled |-> FALSE]
  <1>1. /\ UNCHANGED <<database, atVipps, redirected, jobs, receipts, failures, req>>
        /\ polls[n] > 0 /\ polls' = [polls EXCEPT ![n] = @ - 1]
        /\ GetPaymentAttempt(w, job)
    BY DEF TakePoll
  <1>2. polls[n] \in 1..PollLimit /\ polls[n] - 1 \in 0..PollLimit
    BY <1>1, PaymentsAssumption DEF Inv, PaymentsTypeOK
  <1>3. job \in Jobs
    BY <1>2 DEF Jobs
  <1>4. polls' \in [Refs -> 0..PollLimit]
    BY <1>1, <1>2 DEF Inv, PaymentsTypeOK
  <1>5. /\ WorkerHolds(w)' /\ worker' \in [Workers -> WorkerStates]
        /\ \A v \in Workers : v = w \/ worker'[v] = worker[v]
    BY <1>1, <1>3, GetPaymentAttemptHolds
  <1>6. PaymentsTypeOK'
    BY <1>1, <1>4, <1>5 DEF Inv, PaymentsTypeOK, database, atVipps
  <1> QED BY <1>1, <1>5, <1>6, WorkerOnlyInv

LEMMA TakeJobInv ==
    ASSUME Inv, NEW w \in Workers, NEW job \in jobs, TakeJob(w, job)
    PROVE  Inv'
  <1>1. /\ UNCHANGED <<database, atVipps, redirected, polls, receipts, failures, req>>
        /\ jobs' = jobs \ {job} /\ job \in Jobs /\ GetPaymentAttempt(w, job)
    BY DEF TakeJob, Inv, PaymentsTypeOK
  <1>2. /\ WorkerHolds(w)' /\ worker' \in [Workers -> WorkerStates]
        /\ \A v \in Workers : v = w \/ worker'[v] = worker[v]
    BY <1>1, GetPaymentAttemptHolds
  <1>3. PaymentsTypeOK'
    BY <1>1, <1>2 DEF Inv, PaymentsTypeOK, database, atVipps
  <1> QED BY <1>1, <1>2, <1>3, WorkerOnlyInv

LEMMA UpdateGetOrderInv ==
    ASSUME Inv, NEW w \in Workers, UpdateGetOrder(w)
    PROVE  Inv'
  <1> DEFINE held == worker[w]
             next == [at |-> "info", job |-> held.job, attempt |-> held.attempt,
                      order |-> order]
  <1>1. /\ UNCHANGED <<database, atVipps, redirected, queue, receipts, failures, req>>
        /\ worker' = [worker EXCEPT ![w] = next] /\ held.at = "getOrder"
    BY DEF UpdateGetOrder, WorkerGoto, WorkerAt
  <1>2. /\ held.job \in Jobs /\ held.attempt \in AttemptRows /\ order \in OrderRows
    BY <1>1, WorkerShape DEF Inv, PaymentsTypeOK
  <1>3. next \in WorkerStates
    BY <1>2 DEF WorkerStates
  <1>4. PaymentsTypeOK' /\ \A v \in Workers : v = w \/ worker'[v] = worker[v]
    BY <1>1, <1>3 DEF Inv, PaymentsTypeOK, database, atVipps, queue
  <1>5. worker'[w] = next
    BY <1>1 DEF Inv, PaymentsTypeOK
  <1>6. WorkerHolds(w)
    BY DEF Inv, PaymentsInv
  <1>7. WorkerHolds(w)'
    BY <1>1, <1>2, <1>5, <1>6 DEF WorkerHolds, HeldAttempt, HeldOrder, Ref,
       OrderRows, database
  <1> QED BY <1>1, <1>4, <1>7, WorkerOnlyInv

LEMMA GetRemotePaymentStateInv ==
    ASSUME Inv, NEW w \in Workers, GetRemotePaymentState(w)
    PROVE  Inv'
  <1> DEFINE held == worker[w]
             next == [at |-> "updateAttempt", job |-> held.job,
                      attempt |-> held.attempt, order |-> held.order,
                      state |-> vipps[Ref(w)]]
  <1>1. /\ UNCHANGED <<database, atVipps, redirected, polls, receipts, req>>
        /\ held.at = "info"
    BY DEF GetRemotePaymentState, WorkerAt
  <1>2. /\ held.job \in Jobs /\ Ref(w) \in Refs /\ held.attempt \in AttemptRows
        /\ held.order \in OrderRows /\ WorkerHolds(w)
    BY <1>1, WorkerShape DEF Inv, PaymentsInv
  <1>3. vipps[Ref(w)] \in PaymentStates /\ vipps[Ref(w)] # "none"
    BY <1>1, <1>2 DEF Inv, PaymentsInv, PaymentsTypeOK, AttemptsMirrorVipps, WorkerHolds
  <1>4. /\ jobs' \subseteq Jobs /\ failures' \in 0..MaxFailures
    <2>1. \/ failures' = failures
          \/ failures < MaxFailures /\ failures' = failures + 1
      BY DEF GetRemotePaymentState, Fails
    <2>2. failures' \in 0..MaxFailures
      BY <2>1, PaymentsAssumption DEF Inv, PaymentsTypeOK
    <2> QED BY <1>2, <2>2 DEF GetRemotePaymentState, Requeue, Inv, PaymentsTypeOK
  <1>5. CASE EndJob(w)
    <2>1. PaymentsTypeOK'
      BY <1>1, <1>4, <1>5, EndJobHolds DEF Inv, PaymentsTypeOK, database, atVipps
    <2> QED BY <1>1, <1>5, <2>1, EndJobHolds, WorkerOnlyInv
  <1>6. CASE WorkerGoto(w, next)
    <2>1. next \in WorkerStates
      BY <1>2, <1>3 DEF WorkerStates
    <2>2. /\ worker'[w] = next /\ worker' \in [Workers -> WorkerStates]
          /\ \A v \in Workers : v = w \/ worker'[v] = worker[v]
      BY <1>6, <2>1 DEF Inv, PaymentsTypeOK, WorkerGoto
    <2>3. PaymentsTypeOK'
      BY <1>1, <1>4, <2>2 DEF Inv, PaymentsTypeOK, database, atVipps
    <2>4. WorkerHolds(w)'
      BY <1>1, <1>2, <1>3, <2>2 DEF WorkerHolds, HeldAttempt, HeldOrder, Ref,
         database, atVipps
    <2> QED BY <1>1, <2>2, <2>3, <2>4, WorkerOnlyInv
  <1> QED BY <1>5, <1>6 DEF GetRemotePaymentState, Requeue, RemoteState

\* What updatePaymentAttempt writes when neither row has changed.
LEMMA WrittenRows ==
    ASSUME Inv, NEW w \in Workers, UpdatePaymentAttempt(w),
           AttemptUnchanged(Ref(w), worker[w].attempt),
           OrderUnchanged(worker[w].order)
    PROVE  /\ worker[w].order = order /\ worker[w].attempt = attempts[Ref(w)]
           /\ attempts[Ref(w)].state = "CREATED" /\ Ref(w) \in Refs
           /\ worker[w].state \in PaymentStates \ {"none"}
           /\ worker[w].state \in FinalStates => vipps[Ref(w)] = worker[w].state
           /\ attempts' = [attempts EXCEPT ![Ref(w)] =
                  [state |-> worker[w].state, version |-> @.version + 1]]
           /\ order' = [order EXCEPT
                  !.paymentStatus = NewStatus(worker[w].state, order),
                  !.version = @ + 1]
  <1>1. /\ worker[w].at = "updateAttempt" /\ WorkerHolds(w)
    BY DEF UpdatePaymentAttempt, WorkerAt, Inv, PaymentsInv
  <1>2. worker[w].order = order /\ worker[w].attempt = attempts[Ref(w)]
    BY <1>1 DEF WorkerHolds, HeldOrder, HeldAttempt, AttemptUnchanged, OrderUnchanged
  <1>3. Ref(w) \in Refs /\ worker[w].state \in PaymentStates
    BY <1>1, WorkerShape DEF Inv
  <1> QED BY <1>1, <1>2, <1>3 DEF UpdatePaymentAttempt, WorkerHolds

LEMMA UpdatePaymentAttemptInv ==
    ASSUME Inv, NEW w \in Workers, UpdatePaymentAttempt(w)
    PROVE  Inv'
  <1> DEFINE held == worker[w]
             n == Ref(w)
             next == [at |-> "removeRepeatable", job |-> held.job,
                      state |-> held.state]
             unchanged == /\ AttemptUnchanged(n, held.attempt)
                          /\ OrderUnchanged(held.order)
  <1>1. UNCHANGED <<atVipps, redirected, queue, receipts, failures, req>>
    BY DEF UpdatePaymentAttempt
  <1>2. CASE ~unchanged
    <2>1. EndJob(w) /\ UNCHANGED database
      BY <1>2 DEF UpdatePaymentAttempt
    <2>2. PaymentsTypeOK'
      BY <1>1, <2>1, EndJobHolds DEF Inv, PaymentsTypeOK, database, atVipps, queue
    <2> QED BY <1>1, <2>1, <2>2, EndJobHolds, WorkerOnlyInv
  <1>3. CASE unchanged
    <2>1. /\ held.order = order /\ held.attempt = attempts[n]
          /\ attempts[n].state = "CREATED" /\ n \in Refs
          /\ held.state \in PaymentStates \ {"none"}
          /\ held.state \in FinalStates => vipps[n] = held.state
          /\ attempts' = [attempts EXCEPT ![n] =
                 [state |-> held.state, version |-> @.version + 1]]
          /\ order' = [order EXCEPT
                 !.paymentStatus = NewStatus(held.state, order),
                 !.version = @ + 1]
      BY <1>3, WrittenRows
    <2>2. order \in OrderRows /\ attempts[n] \in AttemptRows
      BY <2>1 DEF Inv, PaymentsTypeOK
    <2>3. /\ order'.version = order.version + 1
          /\ order'.paymentStatus = NewStatus(held.state, order)
          /\ order'.attempt = order.attempt /\ order'.captured = order.captured
      BY <2>1, <2>2 DEF OrderRows
    <2>4. order' \in OrderRows
      <3>1. order.version + 1 \in Nat
        BY <2>2 DEF OrderRows
      <3> QED BY <2>1, <2>2, <3>1 DEF OrderRows, NewStatus
    <2>5. \A m \in Refs : attempts'[m] =
             IF m = n THEN [state |-> held.state, version |-> attempts[n].version + 1]
                      ELSE attempts[m]
      BY <2>1 DEF Inv, PaymentsTypeOK
    <2>6. attempts' \in [Refs -> AttemptRows]
      <3>1. attempts[n].version + 1 \in Nat
        BY <2>2 DEF AttemptRows
      <3> QED BY <2>1, <3>1 DEF Inv, PaymentsTypeOK, AttemptRows
    <2>7. \/ EndJob(w)
          \/ held.state \in FinalStates /\ WorkerGoto(w, next)
      BY <1>3 DEF UpdatePaymentAttempt, IsFinalState
    <2>8. /\ worker' \in [Workers -> WorkerStates] /\ WorkerHolds(w)'
          /\ \A v \in Workers : v = w \/ worker'[v] = worker[v]
      <3>1. CASE EndJob(w)
        BY <3>1, EndJobHolds
      <3>2. CASE held.state \in FinalStates /\ WorkerGoto(w, next)
        <4>1. held.job \in Jobs
          BY WorkerShape DEF Inv, UpdatePaymentAttempt, WorkerAt
        <4>2. next \in WorkerStates
          BY <2>1, <4>1 DEF WorkerStates
        <4>3. /\ worker'[w] = next /\ worker' \in [Workers -> WorkerStates]
              /\ \A v \in Workers : v = w \/ worker'[v] = worker[v]
          BY <3>2, <4>2 DEF Inv, PaymentsTypeOK, WorkerGoto
        <4> QED BY <2>1, <2>5, <3>2, <4>3 DEF WorkerHolds, Ref
      <3> QED BY <2>7, <3>1, <3>2
    <2>9. PaymentsTypeOK'
      BY <1>1, <2>4, <2>6, <2>8 DEF Inv, PaymentsTypeOK, atVipps, queue
    <2>10. Progress
      BY <1>1, <2>1, <2>2, <2>3, <2>5 DEF Progress, atVipps, OrderRows, AttemptRows
    <2>11. Authorized' = IF held.state = "AUTHORIZED" THEN Authorized \cup {n}
                                                      ELSE Authorized
      BY <2>1, <2>5 DEF Authorized
    <2>12. order.attempt # 0 /\ order.paymentStatus # "PENDING"
      BY <2>1, <2>2 DEF Inv, PaymentsInv, AttemptsMirrorVipps,
         OrderFollowsAttempts, OrderRows, Refs
    <2>13. OrderFollowsAttempts'
      BY <2>3, <2>11, <2>12 DEF Inv, PaymentsInv, OrderFollowsAttempts, NewStatus
    <2>14. CapturedWasCharged'
      BY <1>1, <2>3, <2>11 DEF Inv, PaymentsInv, CapturedWasCharged, NewStatus, atVipps
    <2>15. AttemptsMirrorVipps'
      BY <1>1, <2>1, <2>3, <2>5 DEF Inv, PaymentsInv, AttemptsMirrorVipps, atVipps
    <2> QED BY <1>1, <2>8, <2>9, <2>10, <2>13, <2>14, <2>15, StepKeepsInv
  <1> QED BY <1>2, <1>3

LEMMA RemoveRepeatableInv ==
    ASSUME Inv, NEW w \in Workers, RemoveRepeatable(w)
    PROVE  Inv'
  <1> DEFINE next == [at |-> "addCapture", job |-> worker[w].job]
  <1>1. /\ UNCHANGED <<database, atVipps, redirected, jobs, receipts, failures, req>>
        /\ worker[w].at = "removeRepeatable" /\ polls' = [polls EXCEPT ![Ref(w)] = 0]
        /\ \/ worker[w].state = "AUTHORIZED" /\ WorkerGoto(w, next)
           \/ EndJob(w)
    BY DEF RemoveRepeatable, WorkerAt
  <1>2. worker[w].job \in Jobs /\ Ref(w) \in Refs /\ WorkerHolds(w)
    BY <1>1, WorkerShape DEF Inv, PaymentsInv
  <1>3. polls' \in [Refs -> 0..PollLimit]
    <2>1. 0 \in 0..PollLimit
      BY PaymentsAssumption
    <2> QED BY <1>1, <2>1 DEF Inv, PaymentsTypeOK
  <1>4. CASE EndJob(w)
    <2>1. PaymentsTypeOK'
      BY <1>1, <1>3, <1>4, EndJobHolds DEF Inv, PaymentsTypeOK, database, atVipps
    <2> QED BY <1>1, <1>4, <2>1, EndJobHolds, WorkerOnlyInv
  <1>5. CASE worker[w].state = "AUTHORIZED" /\ WorkerGoto(w, next)
    <2>1. /\ worker'[w] = next /\ worker' \in [Workers -> WorkerStates]
          /\ \A v \in Workers : v = w \/ worker'[v] = worker[v]
      BY <1>2, <1>5 DEF Inv, PaymentsTypeOK, WorkerGoto, WorkerStates
    <2>2. PaymentsTypeOK'
      BY <1>1, <1>3, <2>1 DEF Inv, PaymentsTypeOK, database, atVipps
    <2>3. WorkerHolds(w)'
      BY <1>1, <1>2, <1>5, <2>1 DEF WorkerHolds, Ref, Authorized, database
    <2> QED BY <1>1, <2>1, <2>2, <2>3, WorkerOnlyInv
  <1> QED BY <1>1, <1>4, <1>5

LEMMA AddCaptureJobInv ==
    ASSUME Inv, NEW w \in Workers, AddCaptureJob(w)
    PROVE  Inv'
  <1>1. /\ UNCHANGED <<database, atVipps, redirected, polls, receipts, failures, req>>
        /\ worker[w].at = "addCapture" /\ EndJob(w)
        /\ jobs' = jobs \cup {CaptureJob(Ref(w))}
    BY DEF AddCaptureJob, WorkerAt
  <1>2. CaptureJob(Ref(w)) \in Jobs
    BY <1>1, WorkerShape DEF Inv, CaptureJob, Jobs
  <1>3. PaymentsTypeOK'
    BY <1>1, <1>2, EndJobHolds DEF Inv, PaymentsTypeOK, database, atVipps
  <1> QED BY <1>1, <1>3, EndJobHolds, WorkerOnlyInv

LEMMA CaptureGetOrderInv ==
    ASSUME Inv, NEW w \in Workers, CaptureGetOrder(w)
    PROVE  Inv'
  <1> DEFINE next == [at |-> "vippsCapture", job |-> worker[w].job]
  <1>1. /\ UNCHANGED <<database, atVipps, redirected, queue, receipts, failures, req>>
        /\ worker[w].at = "captureGetOrder" /\ (WorkerGoto(w, next) \/ EndJob(w))
    BY DEF CaptureGetOrder, WorkerAt
  <1>2. worker[w].job \in Jobs /\ WorkerHolds(w)
    BY <1>1, WorkerShape DEF Inv, PaymentsInv
  <1>3. CASE EndJob(w)
    <2>1. PaymentsTypeOK'
      BY <1>1, <1>3, EndJobHolds DEF Inv, PaymentsTypeOK, database, atVipps, queue
    <2> QED BY <1>1, <1>3, <2>1, EndJobHolds, WorkerOnlyInv
  <1>4. CASE WorkerGoto(w, next)
    <2>1. /\ worker'[w] = next /\ worker' \in [Workers -> WorkerStates]
          /\ \A v \in Workers : v = w \/ worker'[v] = worker[v]
      BY <1>2, <1>4 DEF Inv, PaymentsTypeOK, WorkerGoto, WorkerStates
    <2>2. PaymentsTypeOK'
      BY <1>1, <2>1 DEF Inv, PaymentsTypeOK, database, atVipps, queue
    <2>3. WorkerHolds(w)'
      BY <1>1, <1>2, <2>1 DEF WorkerHolds, Ref, Authorized, database
    <2> QED BY <1>1, <2>1, <2>2, <2>3, WorkerOnlyInv
  <1> QED BY <1>1, <1>3, <1>4

LEMMA VippsCaptureInv ==
    ASSUME Inv, NEW w \in Workers, VippsCapture(w)
    PROVE  Inv'
  <1> DEFINE n == Ref(w)
             next == [at |-> "readOrder", job |-> worker[w].job]
  <1>1. /\ UNCHANGED <<database, vipps, redirected, polls, receipts, req>>
        /\ worker[w].at = "vippsCapture"
    BY DEF VippsCapture, WorkerAt
  <1>2. worker[w].job \in Jobs /\ n \in Refs /\ n \in Authorized
    BY <1>1, WorkerShape DEF Inv, PaymentsInv, WorkerHolds
  <1>3. \/ EndJob(w) /\ (charged' = charged \/ charged' = charged \cup {n})
        \/ WorkerGoto(w, next) /\ charged' = charged \cup {n}
    BY DEF VippsCapture, Requeue
  <1>4. jobs' \subseteq Jobs /\ failures' \in 0..MaxFailures
    <2>1. \/ failures' = failures
          \/ failures < MaxFailures /\ failures' = failures + 1
      BY DEF VippsCapture, Fails
    <2>2. failures' \in 0..MaxFailures
      BY <2>1, PaymentsAssumption DEF Inv, PaymentsTypeOK
    <2> QED BY <1>2, <2>2 DEF VippsCapture, Requeue, Inv, PaymentsTypeOK
  <1>5. /\ worker' \in [Workers -> WorkerStates] /\ WorkerHolds(w)'
        /\ \A v \in Workers : v = w \/ worker'[v] = worker[v]
    <2>1. CASE EndJob(w)
      BY <2>1, EndJobHolds
    <2>2. CASE WorkerGoto(w, next) /\ charged' = charged \cup {n}
      <3>1. /\ worker'[w] = next /\ worker' \in [Workers -> WorkerStates]
            /\ \A v \in Workers : v = w \/ worker'[v] = worker[v]
        BY <1>2, <2>2 DEF Inv, PaymentsTypeOK, WorkerGoto, WorkerStates
      <3> QED BY <2>2, <3>1 DEF WorkerHolds, Ref
    <2> QED BY <1>3, <2>1, <2>2
  <1>6. charged' \subseteq Refs /\ charged \subseteq charged'
        /\ charged' \subseteq charged \cup {n}
    BY <1>2, <1>3 DEF Inv, PaymentsTypeOK
  <1>7. PaymentsTypeOK'
    BY <1>1, <1>4, <1>5, <1>6 DEF Inv, PaymentsTypeOK, database
  <1>8. Progress
    BY <1>1, <1>6 DEF Progress, database
  <1>9. OrderFollowsAttempts' /\ CapturedWasCharged' /\ AttemptsMirrorVipps'
    BY <1>1, <1>2, <1>6 DEF Inv, PaymentsInv, OrderFollowsAttempts,
       CapturedWasCharged, AttemptsMirrorVipps, Authorized, database
  <1> QED BY <1>1, <1>5, <1>7, <1>8, <1>9, StepKeepsInv

LEMMA CaptureReadOrderInv ==
    ASSUME Inv, NEW w \in Workers, CaptureReadOrder(w)
    PROVE  Inv'
  <1> DEFINE next == [at |-> "writeOrder", job |-> worker[w].job, order |-> order]
  <1>1. /\ UNCHANGED <<database, atVipps, redirected, queue, receipts, failures, req>>
        /\ worker[w].at = "readOrder" /\ WorkerGoto(w, next)
    BY DEF CaptureReadOrder, WorkerAt
  <1>2. worker[w].job \in Jobs /\ WorkerHolds(w) /\ order \in OrderRows
    BY <1>1, WorkerShape DEF Inv, PaymentsInv, PaymentsTypeOK
  <1>3. /\ worker'[w] = next /\ worker' \in [Workers -> WorkerStates]
        /\ \A v \in Workers : v = w \/ worker'[v] = worker[v]
    BY <1>1, <1>2 DEF Inv, PaymentsTypeOK, WorkerGoto, WorkerStates
  <1>4. PaymentsTypeOK'
    BY <1>1, <1>3 DEF Inv, PaymentsTypeOK, database, atVipps, queue
  <1>5. WorkerHolds(w)'
    BY <1>1, <1>2, <1>3
       DEF WorkerHolds, Ref, HeldOrder, OrderRows, database, atVipps
  <1> QED BY <1>1, <1>3, <1>4, <1>5, WorkerOnlyInv

LEMMA CaptureWriteOrderInv ==
    ASSUME Inv, NEW w \in Workers, CaptureWriteOrder(w)
    PROVE  Inv'
  <1> DEFINE held == worker[w].order
             n == Ref(w)
             next == [at |-> "receipt", job |-> worker[w].job]
  <1>1. /\ UNCHANGED <<attempts, atVipps, redirected, queue, receipts, failures, req>>
        /\ worker[w].at = "writeOrder"
    BY DEF CaptureWriteOrder, WorkerAt
  <1>2. /\ worker[w].job \in Jobs /\ n \in Refs /\ held \in OrderRows
        /\ HeldOrder(held) /\ n \in charged
    BY <1>1, WorkerShape DEF Inv, PaymentsInv, WorkerHolds
  <1>3. CASE ~OrderUnchanged(held)
    <2>1. EndJob(w) /\ UNCHANGED database
      BY <1>1, <1>3 DEF CaptureWriteOrder, database
    <2>2. PaymentsTypeOK'
      BY <1>1, <2>1, EndJobHolds DEF Inv, PaymentsTypeOK, database, atVipps, queue
    <2> QED BY <1>1, <2>1, <2>2, EndJobHolds, WorkerOnlyInv
  <1>4. CASE OrderUnchanged(held)
    <2>1. held = order
      BY <1>2, <1>4 DEF HeldOrder, OrderUnchanged
    <2>2. WriteOrder(order, "CAPTURED", n) /\ WorkerGoto(w, next)
      BY <1>4, <2>1 DEF CaptureWriteOrder
    <2>3. order' \in OrderRows /\ order'.version = order.version + 1
      <3>1. order.version + 1 \in Nat /\ n \in 0..MaxRefs
        BY <1>2, <2>1, PaymentsAssumption DEF OrderRows, Refs
      <3> QED BY <1>2, <2>1, <2>2, <3>1 DEF WriteOrder, OrderRows
    <2>4. /\ order'.paymentStatus = "CAPTURED" /\ order'.captured = n
          /\ order'.attempt = order.attempt /\ n # 0
      BY <1>2, <2>1, <2>2 DEF WriteOrder, OrderRows, Refs
    <2>5. /\ worker'[w] = next /\ worker' \in [Workers -> WorkerStates]
          /\ \A v \in Workers : v = w \/ worker'[v] = worker[v]
      BY <1>2, <2>2 DEF Inv, PaymentsTypeOK, WorkerGoto, WorkerStates
    <2>6. PaymentsTypeOK'
      BY <1>1, <2>3, <2>5 DEF Inv, PaymentsTypeOK, atVipps, queue
    <2>7. WorkerHolds(w)'
      BY <1>1, <1>2, <2>5 DEF WorkerHolds, Ref, atVipps
    <2>8. Progress
      BY <1>1, <1>2, <2>1, <2>3 DEF Progress, OrderRows, atVipps
    <2>9. n \in Authorized /\ order.attempt # 0
      BY <1>2 DEF Inv, PaymentsInv, CapturedWasCharged, OrderFollowsAttempts
    <2>10. OrderFollowsAttempts' /\ CapturedWasCharged' /\ AttemptsMirrorVipps'
      BY <1>1, <1>2, <2>4, <2>9 DEF Inv, PaymentsInv, OrderFollowsAttempts,
         CapturedWasCharged, AttemptsMirrorVipps, Authorized, atVipps
    <2> QED BY <1>1, <2>5, <2>6, <2>7, <2>8, <2>10, StepKeepsInv
  <1> QED BY <1>3, <1>4

LEMMA SendReceiptInv ==
    ASSUME Inv, NEW w \in Workers, SendReceipt(w)
    PROVE  Inv'
  <1>1. /\ UNCHANGED <<database, atVipps, redirected, queue, failures, req>>
        /\ Ref(w) \in Refs /\ receipts' = receipts \cup {Ref(w)} /\ EndJob(w)
    BY WorkerShape DEF Inv, SendReceipt, WorkerAt
  <1>2. PaymentsTypeOK'
    BY <1>1, EndJobHolds DEF Inv, PaymentsTypeOK, database, atVipps, queue
  <1> QED BY <1>1, <1>2, EndJobHolds, WorkerOnlyInv

LEMMA WorkerStallsInv ==
    ASSUME Inv, NEW w \in Workers, WorkerStalls(w)
    PROVE  Inv'
  <1>1. /\ UNCHANGED <<database, atVipps, redirected, polls, receipts, failures, req>>
        /\ worker[w].at # "idle" /\ EndJob(w)
    BY DEF WorkerStalls, WorkerAt
  <1>2. jobs' \subseteq Jobs
    BY <1>1, JobAgain DEF WorkerStalls, Inv, PaymentsTypeOK
  <1>3. PaymentsTypeOK'
    BY <1>1, <1>2, EndJobHolds DEF Inv, PaymentsTypeOK, database, atVipps
  <1> QED BY <1>1, <1>3, EndJobHolds, WorkerOnlyInv

-----------------------------------------------------------------------------
(* The invariant *)

LEMMA StutterInv == ASSUME Inv, UNCHANGED vars PROVE Inv'
  <1>1. PaymentsTypeOK'
    BY DEF vars, Inv, PaymentsTypeOK
  <1> QED BY <1>1, SameRows, StepKeepsInv DEF vars, database, atVipps

LEMMA NextInv == Inv /\ [Next]_vars => Inv'
  <1> SUFFICES ASSUME Inv, [Next]_vars PROVE Inv'
    OBVIOUS
  <1>1. CASE UNCHANGED vars
    BY <1>1, StutterInv
  <1>2. ASSUME NEW r \in Requests,
               InitiatePaymentAttempt(r) \/ RequestStep(r) \/ RequestFails(r)
        PROVE  Inv'
    BY <1>2, InitiateInv, VippsCreateInv, CreatePaymentAttemptInv,
       UpdateOrderReadInv, UpdateOrderWriteInv, AddPollingJobInv,
       RequestFailsInv DEF RequestStep
  <1>3. ASSUME NEW w \in Workers, WorkerStep(w)
        PROVE  Inv'
    BY <1>3, TakePollInv, TakeJobInv, UpdateGetOrderInv,
       GetRemotePaymentStateInv, UpdatePaymentAttemptInv, RemoveRepeatableInv,
       AddCaptureJobInv, CaptureGetOrderInv, VippsCaptureInv,
       CaptureReadOrderInv, CaptureWriteOrderInv, SendReceiptInv
       DEF WorkerStep, Take
  <1>4. ASSUME NEW w \in Workers, WorkerStalls(w)
        PROVE  Inv'
    BY <1>4, WorkerStallsInv
  <1>5. ASSUME NEW n \in Refs, NEW outcome \in FinalStates, Settle(n, outcome)
        PROVE  Inv'
    BY <1>5, SettleInv
  <1> QED BY <1>1, <1>2, <1>3, <1>4, <1>5 DEF Next

LEMMA InvHolds == Spec => []Inv
  BY InitInv, NextInv, PTL DEF Spec

\* Every reachable state of every instance is well typed.
THEOREM PaymentsTypeCorrect == Spec => []PaymentsTypeOK
  <1>1. Inv => PaymentsTypeOK
    BY DEF Inv
  <1> QED BY <1>1, InvHolds, PTL

\* The inductive invariant holds: what requests and workers read before an
\* await is either out of date by its version or still the current row.
THEOREM PaymentsInvariance == Spec => []PaymentsInv
  <1>1. Inv => PaymentsInv
    BY DEF Inv
  <1> QED BY <1>1, InvHolds, PTL

\* The status of the order agrees with its attempts.
THEOREM OrderAgreesWithAttempts == Spec => []OrderFollowsAttempts
  <1>1. Inv => OrderFollowsAttempts
    BY DEF Inv, PaymentsInv
  <1> QED BY <1>1, InvHolds, PTL

\* A captured order was paid with an authorised attempt Vipps has captured.
THEOREM CapturedOrderWasCharged == Spec => []CapturedWasCharged
  <1>1. Inv => CapturedWasCharged
    BY DEF Inv, PaymentsInv
  <1> QED BY <1>1, InvHolds, PTL

\* The attempts stored as final are what Vipps settled.
THEOREM StoredAttemptsMirrorVipps == Spec => []AttemptsMirrorVipps
  <1>1. Inv => AttemptsMirrorVipps
    BY DEF Inv, PaymentsInv
  <1> QED BY <1>1, InvHolds, PTL

-----------------------------------------------------------------------------
(* Every step is a step of OrderPayment *)

\* A step that writes neither rows nor charges is invisible.
LEMMA InvisibleStep ==
    ASSUME UNCHANGED <<database, charged>>
    PROVE  UNCHANGED Abstract!vars
  BY DEF Abstract!vars, database

LEMMA InitRefines == Init => Abstract!Init
  <1> SUFFICES ASSUME Init PROVE Abstract!Init
    OBVIOUS
  <1>1. \A n \in Refs : attempts[n].state \in {"none", "CREATED"}
    BY DEF Init, NewAttempt, NoAttempt
  <1> QED BY <1>1 DEF Init, Abstract!Init

\* createPaymentAttempt begins a payment.
LEMMA CreatePaymentAttemptRefines ==
    ASSUME Inv, NEW r \in Requests, CreatePaymentAttempt(r)
    PROVE  [Abstract!Next]_(Abstract!vars)
  <1> DEFINE held == req[r].order
             ref == held.attempt + 1
  <1>1. CASE ~OrderUnchanged(held)
    <2>1. UNCHANGED <<database, charged>>
      BY <1>1 DEF CreatePaymentAttempt, atVipps
    <2> QED BY <2>1, InvisibleStep
  <1>2. CASE OrderUnchanged(held)
    <2>1. /\ held \in OrderRows /\ HeldOrder(held) /\ MayBePaid(held)
          /\ held.attempt < MaxRefs
      BY RequestShape DEF Inv, PaymentsInv, CreatePaymentAttempt, RequestHolds, At
    <2>2. held = order /\ ref \in Refs
      BY <1>2, <2>1, PaymentsAssumption
         DEF HeldOrder, OrderUnchanged, OrderRows, Refs
    <2>3. /\ attempts' = [attempts EXCEPT ![ref] = NewAttempt]
          /\ order' = [order EXCEPT !.paymentStatus = "CREATED",
                                    !.attempt = @ + 1, !.version = @ + 1]
          /\ charged' = charged
      BY <1>2 DEF CreatePaymentAttempt, atVipps
    <2>4. attempts[ref].state = "none"
      BY <2>1, <2>2 DEF Inv, PaymentsInv, AttemptsMirrorVipps, OrderRows, Refs
    <2>5. [n \in Refs |-> attempts'[n].state]
             = [[n \in Refs |-> attempts[n].state] EXCEPT ![ref] = "CREATED"]
      BY <2>3 DEF Inv, PaymentsTypeOK, NewAttempt
    <2>6. order'.paymentStatus = "CREATED" /\ order'.captured = order.captured
      BY <2>1, <2>2, <2>3 DEF OrderRows
    <2>7. Abstract!Begin(ref)
      BY <2>1, <2>2, <2>3, <2>4, <2>5, <2>6 DEF Abstract!Begin, MayBePaid
    <2> QED BY <2>2, <2>7 DEF Abstract!Next, Abstract!Begin
  <1> QED BY <1>1, <1>2

\* updateOrder after it only increments the version.
LEMMA UpdateOrderWriteRefines ==
    ASSUME Inv, NEW r \in Requests, UpdateOrderWrite(r)
    PROVE  [Abstract!Next]_(Abstract!vars)
  <1> DEFINE held == req[r].order
  <1>1. /\ held \in OrderRows /\ HeldOrder(held) /\ req[r].ref \in Refs
        /\ attempts[req[r].ref].state # "none"
    BY RequestShape DEF Inv, PaymentsInv, UpdateOrderWrite, RequestHolds, At
  <1>2. order.paymentStatus # "PENDING"
    BY <1>1 DEF Inv, PaymentsInv, PaymentsTypeOK, AttemptsMirrorVipps,
       OrderFollowsAttempts, OrderRows, Refs
  <1>3. /\ order'.paymentStatus = order.paymentStatus
        /\ order'.captured = order.captured
    BY <1>1, <1>2 DEF UpdateOrderWrite, OrderUnchanged, HeldOrder, WriteOrder, OrderRows
  <1>4. attempts' = attempts /\ charged' = charged
    BY DEF UpdateOrderWrite, atVipps
  <1> QED BY <1>3, <1>4 DEF Abstract!vars

\* updatePaymentAttempt authorises a payment, ends it or stores it as it was.
LEMMA UpdatePaymentAttemptRefines ==
    ASSUME Inv, NEW w \in Workers, UpdatePaymentAttempt(w)
    PROVE  [Abstract!Next]_(Abstract!vars)
  <1> DEFINE held == worker[w]
             n == Ref(w)
             unchanged == /\ AttemptUnchanged(n, held.attempt)
                          /\ OrderUnchanged(held.order)
  <1>1. charged' = charged
    BY DEF UpdatePaymentAttempt, atVipps
  <1>2. CASE ~unchanged
    <2>1. UNCHANGED database
      BY <1>2 DEF UpdatePaymentAttempt
    <2> QED BY <1>1, <2>1, InvisibleStep
  <1>3. CASE unchanged
    <2>1. /\ attempts[n].state = "CREATED" /\ n \in Refs
          /\ held.state \in {"CREATED", "AUTHORIZED", "FAILED"}
          /\ attempts' = [attempts EXCEPT ![n] =
                 [state |-> held.state, version |-> @.version + 1]]
          /\ order' = [order EXCEPT
                 !.paymentStatus = NewStatus(held.state, order),
                 !.version = @ + 1]
      BY <1>3, WrittenRows DEF PaymentStates
    <2>2. [m \in Refs |-> attempts'[m].state]
             = [[m \in Refs |-> attempts[m].state] EXCEPT ![n] = held.state]
      BY <2>1 DEF Inv, PaymentsTypeOK
    <2>3. /\ order'.paymentStatus = NewStatus(held.state, order)
          /\ order'.captured = order.captured
      BY <2>1 DEF Inv, PaymentsTypeOK, OrderRows
    <2>4. CASE held.state = "CREATED"
      <3>1. [m \in Refs |-> attempts'[m].state] = [m \in Refs |-> attempts[m].state]
        BY <2>1, <2>2, <2>4
      <3> QED BY <1>1, <2>3, <2>4, <3>1 DEF Abstract!vars, NewStatus
    <2>5. CASE held.state = "AUTHORIZED"
      <3>1. Abstract!Authorize(n)
        BY <1>1, <2>1, <2>2, <2>3, <2>5 DEF Abstract!Authorize, NewStatus
      <3> QED BY <2>1, <3>1 DEF Abstract!Next, Abstract!Authorize
    <2>6. CASE held.state = "FAILED"
      <3>1. Abstract!Fail(n)
        BY <1>1, <2>1, <2>2, <2>3, <2>6 DEF Abstract!Fail, NewStatus
      <3> QED BY <2>1, <3>1 DEF Abstract!Next, Abstract!Fail
    <2> QED BY <2>1, <2>4, <2>5, <2>6
  <1> QED BY <1>2, <1>3

\* The capture call charges an authorised payment.
LEMMA VippsCaptureRefines ==
    ASSUME Inv, NEW w \in Workers, VippsCapture(w)
    PROVE  [Abstract!Next]_(Abstract!vars)
  <1> DEFINE n == Ref(w)
  <1>1. attempts' = attempts /\ order' = order
    BY DEF VippsCapture, database
  <1>2. n \in Refs /\ attempts[n].state = "AUTHORIZED"
    BY WorkerShape
       DEF Inv, PaymentsInv, WorkerHolds, VippsCapture, WorkerAt, Authorized
  <1>3. CASE charged' = charged
    BY <1>1, <1>3, InvisibleStep DEF database
  <1>4. CASE charged' = charged \cup {n}
    <2>1. Abstract!Charge(n)
      BY <1>1, <1>2, <1>4 DEF Abstract!Charge
    <2> QED BY <1>2, <2>1 DEF Abstract!Next
  <1> QED BY <1>3, <1>4 DEF VippsCapture

\* updateOrder after it captures the order.
LEMMA CaptureWriteOrderRefines ==
    ASSUME Inv, NEW w \in Workers, CaptureWriteOrder(w)
    PROVE  [Abstract!Next]_(Abstract!vars)
  <1> DEFINE held == worker[w].order
             n == Ref(w)
  <1>1. /\ n \in Refs /\ held \in OrderRows /\ n \in charged
        /\ attempts' = attempts /\ charged' = charged
    BY WorkerShape DEF Inv, PaymentsInv, WorkerHolds, CaptureWriteOrder, WorkerAt, atVipps
  <1>2. CASE ~OrderUnchanged(held)
    BY <1>1, <1>2, InvisibleStep DEF CaptureWriteOrder, database
  <1>3. CASE OrderUnchanged(held)
    <2>1. order'.paymentStatus = "CAPTURED" /\ order'.captured = n
      BY <1>1, <1>3 DEF CaptureWriteOrder, WriteOrder, OrderRows
    <2>2. Abstract!Capture(n)
      BY <1>1, <2>1 DEF Abstract!Capture
    <2> QED BY <1>1, <2>2 DEF Abstract!Next
  <1> QED BY <1>2, <1>3

LEMMA NextRefines == Inv /\ [Next]_vars => [Abstract!Next]_(Abstract!vars)
  <1> SUFFICES ASSUME Inv, [Next]_vars PROVE [Abstract!Next]_(Abstract!vars)
    OBVIOUS
  <1>1. CASE UNCHANGED vars
    BY <1>1, InvisibleStep DEF vars, database
  <1>2. ASSUME NEW r \in Requests,
               InitiatePaymentAttempt(r) \/ RequestStep(r) \/ RequestFails(r)
        PROVE  [Abstract!Next]_(Abstract!vars)
    <2>1. CASE \/ InitiatePaymentAttempt(r) \/ VippsCreate(r)
               \/ UpdateOrderRead(r) \/ AddPollingJob(r) \/ RequestFails(r)
      <3>1. UNCHANGED <<database, charged>>
        BY <2>1 DEF InitiatePaymentAttempt, VippsCreate, UpdateOrderRead,
           AddPollingJob, RequestFails, atVipps
      <3> QED BY <3>1, InvisibleStep
    <2> QED BY <1>2, <2>1, CreatePaymentAttemptRefines, UpdateOrderWriteRefines
            DEF RequestStep
  <1>3. ASSUME NEW w \in Workers, WorkerStep(w) \/ WorkerStalls(w)
        PROVE  [Abstract!Next]_(Abstract!vars)
    <2>1. CASE \/ Take(w) \/ UpdateGetOrder(w) \/ GetRemotePaymentState(w)
               \/ RemoveRepeatable(w) \/ AddCaptureJob(w) \/ CaptureGetOrder(w)
               \/ CaptureReadOrder(w) \/ SendReceipt(w) \/ WorkerStalls(w)
      <3>1. UNCHANGED <<database, charged>>
        BY <2>1 DEF Take, TakePoll, TakeJob, UpdateGetOrder,
           GetRemotePaymentState, RemoveRepeatable, AddCaptureJob,
           CaptureGetOrder, CaptureReadOrder, SendReceipt, WorkerStalls, atVipps
      <3> QED BY <3>1, InvisibleStep
    <2> QED BY <1>3, <2>1, UpdatePaymentAttemptRefines, VippsCaptureRefines,
               CaptureWriteOrderRefines DEF WorkerStep
  <1>4. ASSUME NEW n \in Refs, NEW outcome \in FinalStates, Settle(n, outcome)
        PROVE  [Abstract!Next]_(Abstract!vars)
    BY <1>4, InvisibleStep DEF Settle
  <1> QED BY <1>1, <1>2, <1>3, <1>4 DEF Next

\* The payments of an order keep the promises of OrderPayment, whatever the
\* number of requests, workers and attempts, and with failures and crashes.
THEOREM OrderPaymentImplemented == Spec => ImplementsOrderPayment
  BY InitRefines, NextRefines, InvHolds, PTL DEF Spec, ImplementsOrderPayment, Abstract!Spec

-----------------------------------------------------------------------------
(* The payer is charged once *)

\* There is one worker process.
OneWorker == \A v, w \in Workers : v = w

\* The answer of Vipps to a capture is never lost.
NoAnswerIsLost == "capture answer" \notin FailingCalls

\* No updateOrder of an initiation writes the order between the moment the
\* worker has read it after a capture and the moment it writes it.
OvertakesNoWrite ==
    (\E r \in Requests : UpdateOrderWrite(r)) /\ order' # order =>
        \A w \in Workers : ~WorkerAt(w, "writeOrder")

\* No worker dies between the capture and the write of it.
ForgetsNoCapture == \A w \in Workers :
    worker[w].at \in {"readOrder", "writeOrder"} => ~WorkerStalls(w)

\* No worker dies.
KillsNoWorker == \A w \in Workers : ~WorkerStalls(w)

LeavesCharge == OvertakesNoWrite /\ ForgetsNoCapture
LeavesCapture == OvertakesNoWrite /\ KillsNoWorker

\* What the worker writes after a capture will be written.
WriteInv == \A w \in Workers :
    WorkerAt(w, "writeOrder") => OrderUnchanged(worker[w].order)

\* After a capture the order is captured, or its worker is about to write so.
ChargeInv ==
    /\ \A m, n \in charged : m = n
    /\ \/ charged = {}
       \/ order.paymentStatus = "CAPTURED"
       \/ \E w \in Workers : worker[w].at \in {"readOrder", "writeOrder"}
    /\ \A w \in Workers :
          WorkerAt(w, "vippsCapture") => order.paymentStatus # "CAPTURED"

\* A capture job waits for a reserved order, or a worker is on its way to add
\* one or to capture the order.
OnItsWay(w) ==
    /\ worker[w].at \in {"removeRepeatable", "addCapture", "captureGetOrder",
                         "vippsCapture", "readOrder", "writeOrder"}
    /\ Ref(w) \in Authorized
CaptureInv ==
    /\ \A w \in Workers : worker[w].at \in {"captureGetOrder", "vippsCapture"} =>
          worker[w].job.kind = "capture"
    /\ order.paymentStatus = "RESERVED" =>
          \/ \E j \in jobs : j.kind = "capture" /\ j.ref \in Authorized
          \/ \E w \in Workers : OnItsWay(w)

\* The steps of requests leave what is authorised and charged, and whether the
\* order is reserved or captured; and an order with a charged attempt is only
\* written by updateOrder.
LEMMA RequestsLeaveTheRest ==
    ASSUME Inv, NEW r \in Requests,
           InitiatePaymentAttempt(r) \/ RequestStep(r) \/ RequestFails(r)
    PROVE  /\ UNCHANGED <<charged, worker, jobs>> /\ Authorized \subseteq Authorized'
           /\ \A s \in {"RESERVED", "CAPTURED"} :
                 order'.paymentStatus = s <=> order.paymentStatus = s
           /\ order' = order \/ UpdateOrderWrite(r) \/ charged = {}
<1>1. UNCHANGED <<charged, worker, jobs>>
  BY DEF RequestStep, InitiatePaymentAttempt, VippsCreate, CreatePaymentAttempt,
         UpdateOrderRead, UpdateOrderWrite, AddPollingJob, RequestFails, atVipps, queue
<1>2. CASE CreatePaymentAttempt(r) /\ OrderUnchanged(req[r].order)
  <2> DEFINE held == req[r].order
  <2>1. /\ held \in OrderRows /\ HeldOrder(held) /\ MayBePaid(held)
        /\ held.attempt < MaxRefs
    BY <1>2, RequestShape
       DEF Inv, PaymentsInv, CreatePaymentAttempt, RequestHolds, At
  <2>2. held = order
    BY <1>2, <2>1 DEF HeldOrder, OrderUnchanged
  <2>3. order.attempt + 1 \in Refs /\ order.attempt \in Nat
    BY <2>1, <2>2, PaymentsAssumption DEF OrderRows, Refs
  <2>4. attempts[order.attempt + 1].state = "none"
    BY <2>3 DEF Inv, PaymentsInv, AttemptsMirrorVipps
  <2>5. /\ attempts' = [attempts EXCEPT ![order.attempt + 1] = NewAttempt]
        /\ order'.paymentStatus = "CREATED"
    BY <1>2, <2>1, <2>2 DEF CreatePaymentAttempt, OrderRows
  <2>6. Authorized \subseteq Authorized'
    BY <2>3, <2>4, <2>5 DEF Inv, PaymentsTypeOK, Authorized
  <2>7. order.paymentStatus \in {"PENDING", "CREATED"}
    BY <2>1, <2>2 DEF MayBePaid
  <2>8. charged = {}
    BY <2>7 DEF Inv, PaymentsInv, OrderFollowsAttempts, CapturedWasCharged
  <2> QED
    BY <1>1, <2>5, <2>6, <2>7, <2>8
<1>3. CASE UpdateOrderWrite(r)
  <2> DEFINE held == req[r].order
  <2>1. held \in OrderRows /\ HeldOrder(held)
    BY <1>3, RequestShape DEF Inv, PaymentsInv, UpdateOrderWrite, RequestHolds, At
  <2>2. attempts' = attempts
    BY <1>3 DEF UpdateOrderWrite
  <2>3. \/ order' = order
        \/ /\ held = order
           /\ order'.paymentStatus = IF order.paymentStatus = "PENDING"
                 THEN "CREATED" ELSE order.paymentStatus
    BY <1>3, <2>1 DEF UpdateOrderWrite, OrderUnchanged, HeldOrder, WriteOrder, OrderRows
  <2>4. Authorized' = Authorized
    BY <2>2 DEF Authorized
  <2> QED
    BY <1>1, <1>3, <2>3, <2>4
<1>4. CASE UNCHANGED database
  BY <1>1, <1>4 DEF database, Authorized
<1>5. \/ UNCHANGED database \/ UpdateOrderWrite(r)
      \/ CreatePaymentAttempt(r) /\ OrderUnchanged(req[r].order)
  BY DEF RequestStep, InitiatePaymentAttempt, VippsCreate, CreatePaymentAttempt,
         UpdateOrderRead, AddPollingJob, RequestFails, database
<1> QED
  BY <1>2, <1>3, <1>4, <1>5

\* A worker that takes a job polls, captures an authorised payment, or is idle.
LEMMA TakenJob ==
    ASSUME Inv, NEW w \in Workers, NEW job \in Jobs, GetPaymentAttempt(w, job)
    PROVE  /\ worker' = [worker EXCEPT ![w] = worker'[w]]
           /\ \/ worker'[w].at = "captureGetOrder" /\ worker'[w].job = job
              \/ worker'[w].at \in {"getOrder", "idle"}
           /\ worker'[w].at = "captureGetOrder" => job.kind = "capture"
           /\ job.kind = "capture" /\ job.ref \in Authorized =>
                 worker'[w].at = "captureGetOrder"
<1> DEFINE row == attempts[job.ref]
<1>1. worker \in [Workers -> WorkerStates]
  BY DEF Inv, PaymentsTypeOK
<1>2. CASE job.kind = "poll" /\ row.state = "CREATED"
  <2>1. worker' = [worker EXCEPT ![w] = [at |-> "getOrder", job |-> job, attempt |-> row]]
    BY <1>2 DEF GetPaymentAttempt, WorkerGoto
  <2> QED
    BY <1>1, <1>2, <2>1
<1>3. CASE job.kind = "capture" /\ row.state = "AUTHORIZED"
  <2>1. worker' = [worker EXCEPT ![w] = [at |-> "captureGetOrder", job |-> job]]
    BY <1>3 DEF GetPaymentAttempt, WorkerGoto
  <2> QED
    BY <1>1, <1>3, <2>1
<1>4. CASE /\ ~(job.kind = "poll" /\ row.state = "CREATED")
           /\ ~(job.kind = "capture" /\ row.state = "AUTHORIZED")
  <2>1. worker' = [worker EXCEPT ![w] = Idle]
    BY <1>4 DEF GetPaymentAttempt, WorkerGoto
  <2>2. ~(job.kind = "capture" /\ job.ref \in Authorized)
    BY <1>4 DEF Authorized
  <2> QED
    BY <1>1, <2>1, <2>2 DEF Idle
<1> QED
  BY <1>2, <1>3, <1>4

\* What the steps of a worker write: most leave the order and the charges.
LEMMA WorkersWrite ==
    ASSUME Inv, NEW w \in Workers, WorkerStep(w) \/ WorkerStalls(w)
    PROVE  /\ worker' = [worker EXCEPT ![w] = worker'[w]]
           /\ worker'[w].at = "captureGetOrder" => worker[w].at = "idle"
           /\ worker'[w].at = "writeOrder" => CaptureReadOrder(w)
           /\ \/ VippsCapture(w) \/ CaptureReadOrder(w) \/ CaptureWriteOrder(w)
              \/ CaptureGetOrder(w) \/ UpdatePaymentAttempt(w)
              \/ /\ UNCHANGED <<order, charged>>
                 /\ worker[w].at \notin {"readOrder", "writeOrder"} \/ WorkerStalls(w)
                 /\ worker'[w].at \notin {"readOrder", "writeOrder", "vippsCapture"}
<1>1. worker \in [Workers -> WorkerStates] /\ polls \in [Refs -> 0..PollLimit]
      /\ jobs \subseteq Jobs
  BY DEF Inv, PaymentsTypeOK
<1>2. ASSUME NEW n \in Refs, TakePoll(w, n)
      PROVE  /\ GetPaymentAttempt(w, [kind |-> "poll", ref |-> n,
                                      repeat |-> polls[n], stalled |-> FALSE])
             /\ [kind |-> "poll", ref |-> n, repeat |-> polls[n], stalled |-> FALSE] \in Jobs
             /\ UNCHANGED <<order, charged>> /\ worker[w].at = "idle"
  <2>1. polls[n] \in 1..PollLimit
    BY <1>1, <1>2, PaymentsAssumption DEF TakePoll
  <2> QED
    BY <1>2, <2>1 DEF TakePoll, Jobs, database, atVipps, WorkerAt
<1>3. ASSUME NEW job \in jobs, TakeJob(w, job)
      PROVE  /\ GetPaymentAttempt(w, job) /\ job \in Jobs
             /\ UNCHANGED <<order, charged>> /\ worker[w].at = "idle"
  BY <1>1, <1>3 DEF TakeJob, database, atVipps, WorkerAt
<1>4. CASE Take(w)
  BY <1>2, <1>3, <1>4, TakenJob DEF Take
<1>5. CASE UpdateGetOrder(w) \/ RemoveRepeatable(w) \/ AddCaptureJob(w) \/ SendReceipt(w)
  BY <1>1, <1>5 DEF UpdateGetOrder, RemoveRepeatable, AddCaptureJob, SendReceipt,
     EndJob, WorkerGoto, WorkerAt, Idle, database, atVipps
<1>6. CASE GetRemotePaymentState(w) \/ WorkerStalls(w)
  BY <1>1, <1>6 DEF GetRemotePaymentState, WorkerStalls, Requeue,
     EndJob, WorkerGoto, WorkerAt, Idle, database, atVipps
<1>7. CASE VippsCapture(w)
  <2>1. \/ worker' = [worker EXCEPT ![w] = [at |-> "readOrder", job |-> worker[w].job]]
        \/ worker' = [worker EXCEPT ![w] = Idle]
    BY <1>7 DEF VippsCapture, Requeue, EndJob, WorkerGoto
  <2> QED
    BY <1>1, <1>7, <2>1 DEF Idle
<1>8. CASE CaptureReadOrder(w)
  BY <1>1, <1>8 DEF CaptureReadOrder, WorkerGoto
<1>9. CASE CaptureWriteOrder(w)
  BY <1>1, <1>9 DEF CaptureWriteOrder, EndJob, WorkerGoto, Idle
<1>10. CASE CaptureGetOrder(w) \/ UpdatePaymentAttempt(w)
  BY <1>1, <1>10 DEF CaptureGetOrder, UpdatePaymentAttempt,
     EndJob, WorkerGoto, Idle
<1> QED
  BY <1>4, <1>5, <1>6, <1>7, <1>8, <1>9, <1>10 DEF WorkerStep

\* Nothing comes between reading the order after a capture and writing it.
LEMMA NextWriteInv ==
    ASSUME OneWorker, Inv, WriteInv, [Next]_vars, OvertakesNoWrite
    PROVE  WriteInv'
<1>1. CASE UNCHANGED vars
  BY <1>1 DEF WriteInv, WorkerAt, OrderUnchanged, vars
<1>2. ASSUME NEW r \in Requests,
             InitiatePaymentAttempt(r) \/ RequestStep(r) \/ RequestFails(r)
      PROVE  WriteInv'
  <2> SUFFICES ASSUME NEW w \in Workers, WorkerAt(w, "writeOrder")'
               PROVE  OrderUnchanged(worker[w].order)'
    BY DEF WriteInv
  <2>1. worker' = worker /\ WorkerAt(w, "writeOrder")
    BY <1>2, RequestsLeaveTheRest DEF WorkerAt
  <2>2. charged # {}
    BY <2>1 DEF Inv, PaymentsInv, WorkerHolds, WorkerAt
  <2>3. order' = order
    BY <1>2, <2>1, <2>2, RequestsLeaveTheRest DEF OvertakesNoWrite
  <2> QED
    BY <2>1, <2>3 DEF WriteInv, OrderUnchanged
<1>3. ASSUME NEW w \in Workers, WorkerStep(w) \/ WorkerStalls(w)
      PROVE  WriteInv'
  <2> SUFFICES ASSUME NEW v \in Workers, WorkerAt(v, "writeOrder")'
               PROVE  OrderUnchanged(worker[v].order)'
    BY DEF WriteInv
  <2>1. v = w
    BY DEF OneWorker
  <2>2. CaptureReadOrder(w)
    BY <1>3, <2>1, WorkersWrite DEF WorkerAt
  <2> QED
    BY <2>1, <2>2 DEF CaptureReadOrder, WorkerGoto, OrderUnchanged, database, Inv, PaymentsTypeOK
<1>4. ASSUME NEW n \in Refs, NEW outcome \in FinalStates, Settle(n, outcome)
      PROVE  WriteInv'
  BY <1>4 DEF Settle, WriteInv, WorkerAt, OrderUnchanged, database
<1> QED
  BY <1>1, <1>2, <1>3, <1>4 DEF Next

\* Where a worker goes, it is.
LEMMA WorkerMoves ==
    ASSUME Inv, NEW w \in Workers, NEW s, worker' = [worker EXCEPT ![w] = s]
    PROVE  worker'[w] = s
  BY DEF Inv, PaymentsTypeOK

\* A worker charges the payer only for an order that is not captured, and the
\* order it has read after that is captured next.
LEMMA WorkerChargeInv ==
    ASSUME OneWorker, NoAnswerIsLost, Inv, WriteInv,
           ChargeInv, ForgetsNoCapture,
           NEW w \in Workers, WorkerStep(w) \/ WorkerStalls(w)
    PROVE  ChargeInv'
<1>1. \A v \in Workers : v = w
  BY DEF OneWorker
<1>2. CASE VippsCapture(w)
  <2>1. charged = {} /\ order' = order
    BY <1>1, <1>2 DEF VippsCapture, ChargeInv, WorkerAt, database
  <2>2. \/ /\ charged' = {Ref(w)}
           /\ worker' = [worker EXCEPT ![w] =
                             [at |-> "readOrder", job |-> worker[w].job]]
        \/ charged' = {} /\ worker' = [worker EXCEPT ![w] = Idle]
    BY <1>2, <2>1 DEF NoAnswerIsLost, VippsCapture, Fails, Requeue, EndJob, WorkerGoto
  <2>3. \/ worker'[w].at = "readOrder" /\ \A m, n \in charged' : m = n
        \/ worker'[w].at = "idle" /\ charged' = {}
    BY <2>2, WorkerMoves DEF Idle
  <2> QED
    BY <1>1, <2>3 DEF ChargeInv, WorkerAt
<1>3. CASE CaptureReadOrder(w)
  BY <1>1, <1>3 DEF CaptureReadOrder, ChargeInv, WorkerAt, WorkerGoto,
     database, atVipps, Inv, PaymentsTypeOK
<1>4. CASE CaptureWriteOrder(w)
  <2>1. OrderUnchanged(worker[w].order) /\ worker[w].order \in OrderRows
    BY <1>4, WorkerShape DEF CaptureWriteOrder, WriteInv, WorkerAt, Inv
  <2>2. /\ order'.paymentStatus = "CAPTURED" /\ charged' = charged
        /\ worker' = [worker EXCEPT ![w] = [at |-> "receipt", job |-> worker[w].job]]
    BY <1>4, <2>1 DEF CaptureWriteOrder, WriteOrder, WorkerGoto, atVipps, OrderRows
  <2> QED
    BY <1>1, <2>2 DEF ChargeInv, WorkerAt, Inv, PaymentsTypeOK
<1>5. CASE CaptureGetOrder(w)
  <2>1. /\ UNCHANGED <<order, charged>> /\ WorkerAt(w, "captureGetOrder")
        /\ \/ /\ order.paymentStatus # "CAPTURED"
              /\ worker' = [worker EXCEPT ![w] =
                                [at |-> "vippsCapture", job |-> worker[w].job]]
           \/ worker' = [worker EXCEPT ![w] = Idle]
    BY <1>5 DEF CaptureGetOrder, MayBeCaptured, EndJob, WorkerGoto, database, atVipps
  <2>2. \/ worker'[w].at = "vippsCapture" /\ order.paymentStatus # "CAPTURED"
        \/ worker'[w].at = "idle"
    BY <2>1, WorkerMoves DEF Idle
  <2> QED
    BY <1>1, <2>1, <2>2 DEF ChargeInv, WorkerAt
<1>6. CASE UpdatePaymentAttempt(w)
  <2>1. charged' = charged /\ worker[w].at = "updateAttempt"
        /\ worker'[w].at \in {"removeRepeatable", "idle"}
    <3>1. \/ worker' = [worker EXCEPT ![w] = [at |-> "removeRepeatable",
                 job |-> worker[w].job, state |-> worker[w].state]]
          \/ worker' = [worker EXCEPT ![w] = Idle]
      BY <1>6 DEF UpdatePaymentAttempt, EndJob, WorkerGoto
    <3> QED
      BY <1>6, <3>1, WorkerMoves DEF UpdatePaymentAttempt, WorkerAt, Idle, atVipps
  <2>2. order.paymentStatus = "CAPTURED" => order'.paymentStatus = "CAPTURED"
    <3>1. CASE /\ AttemptUnchanged(Ref(w), worker[w].attempt)
               /\ OrderUnchanged(worker[w].order)
      BY <1>6, <3>1, WrittenRows DEF NewStatus, Inv, PaymentsTypeOK, OrderRows
    <3>2. CASE ~(/\ AttemptUnchanged(Ref(w), worker[w].attempt)
                 /\ OrderUnchanged(worker[w].order))
      BY <1>6, <3>2 DEF UpdatePaymentAttempt, database
    <3> QED
      BY <3>1, <3>2
  <2> QED
    BY <1>1, <2>1, <2>2 DEF ChargeInv, WorkerAt
<1>7. CASE /\ UNCHANGED <<order, charged>>
           /\ worker[w].at \notin {"readOrder", "writeOrder"} \/ WorkerStalls(w)
           /\ worker'[w].at \notin {"readOrder", "writeOrder", "vippsCapture"}
  <2>1. worker[w].at \notin {"readOrder", "writeOrder"}
    BY <1>7 DEF ForgetsNoCapture
  <2> QED
    BY <1>1, <1>7, <2>1 DEF ChargeInv, WorkerAt
<1> QED
  BY <1>2, <1>3, <1>4, <1>5, <1>6, <1>7, WorkersWrite

\* Every step keeps the charges and the order together.
LEMMA NextChargeInv ==
    ASSUME OneWorker, NoAnswerIsLost, Inv, WriteInv,
           ChargeInv, [Next]_vars, ForgetsNoCapture
    PROVE  ChargeInv'
<1>1. CASE UNCHANGED vars
  BY <1>1 DEF ChargeInv, WorkerAt, vars
<1>2. ASSUME NEW r \in Requests,
             InitiatePaymentAttempt(r) \/ RequestStep(r) \/ RequestFails(r)
      PROVE  ChargeInv'
  BY <1>2, RequestsLeaveTheRest DEF ChargeInv, WorkerAt
<1>3. ASSUME NEW w \in Workers, WorkerStep(w) \/ WorkerStalls(w)
      PROVE  ChargeInv'
  BY <1>3, WorkerChargeInv
<1>4. ASSUME NEW n \in Refs, NEW outcome \in FinalStates, Settle(n, outcome)
      PROVE  ChargeInv'
  BY <1>4 DEF Settle, ChargeInv, WorkerAt, database
<1> QED
  BY <1>1, <1>2, <1>3, <1>4 DEF Next

\* The steps of a worker keep a capture job, or a worker on its way, for a
\* reserved order.
LEMMA WorkerCaptureInv ==
    ASSUME OneWorker, Inv, WriteInv, CaptureInv, NEW w \in Workers, WorkerStep(w)
    PROVE  CaptureInv'
<1>1. \A v \in Workers : v = w
  BY DEF OneWorker
<1>2. /\ worker[w].at # "idle" => worker[w].job \in Jobs
      /\ worker[w].at \in {"captureGetOrder", "vippsCapture"} =>
            worker[w].job.kind = "capture"
  BY WorkerShape DEF Inv, CaptureInv
<1>3. ASSUME UNCHANGED <<order, attempts>>,
             worker'[w].at = "captureGetOrder" => worker'[w].job.kind = "capture",
             worker'[w].at = "vippsCapture" => worker'[w].job.kind = "capture",
             order.paymentStatus = "RESERVED" =>
                \A j \in jobs : j.kind = "capture" /\ j.ref \in Authorized =>
                    OnItsWay(w)' \/ j \in jobs',
             order.paymentStatus = "RESERVED" /\ OnItsWay(w) =>
                \/ OnItsWay(w)'
                \/ \E j \in jobs' : j.kind = "capture" /\ j.ref \in Authorized
      PROVE  CaptureInv'
  <2>1. Authorized' = Authorized
    BY <1>3 DEF Authorized
  <2> QED
    BY <1>1, <1>3, <2>1 DEF CaptureInv
<1>4. CASE Take(w)
  <2>1. UNCHANGED <<order, attempts>> /\ worker[w].at = "idle"
    BY <1>4 DEF Take, TakePoll, TakeJob, database, WorkerAt
  <2>2. ASSUME NEW n \in Refs, TakePoll(w, n)
        PROVE  CaptureInv'
    <3> DEFINE job == [kind |-> "poll", ref |-> n, repeat |-> polls[n], stalled |-> FALSE]
    <3>1. polls[n] \in 1..PollLimit
      BY <2>2, PaymentsAssumption DEF TakePoll, Inv, PaymentsTypeOK
    <3>2. job \in Jobs /\ job.kind = "poll"
      BY <3>1 DEF Jobs
    <3>3. worker'[w].at \in {"getOrder", "idle"} /\ jobs' = jobs
      BY <2>2, <3>2, TakenJob DEF TakePoll
    <3> QED
      BY <1>3, <2>1, <3>3 DEF OnItsWay
  <2>3. ASSUME NEW job \in jobs, TakeJob(w, job)
        PROVE  CaptureInv'
    <3>1. job \in Jobs /\ jobs' = jobs \ {job} /\ GetPaymentAttempt(w, job)
      BY <2>3 DEF TakeJob, Inv, PaymentsTypeOK
    <3>2. Authorized' = Authorized
      BY <2>1 DEF Authorized
    <3>3. job.kind = "capture" /\ job.ref \in Authorized => OnItsWay(w)'
      BY <3>1, <3>2, TakenJob DEF OnItsWay, Ref
    <3>4. /\ worker'[w].at = "captureGetOrder" => worker'[w].job.kind = "capture"
          /\ worker'[w].at # "vippsCapture"
      BY <3>1, TakenJob
    <3> QED
      BY <1>3, <2>1, <3>1, <3>3, <3>4 DEF OnItsWay
  <2> QED
    BY <1>4, <2>2, <2>3 DEF Take
<1>5. CASE UpdateGetOrder(w) \/ GetRemotePaymentState(w) \/ SendReceipt(w)
  <2>1. /\ UNCHANGED <<order, attempts>> /\ jobs \subseteq jobs'
        /\ worker[w].at \in {"getOrder", "info", "receipt"}
    BY <1>5 DEF UpdateGetOrder, GetRemotePaymentState, SendReceipt, Requeue,
       EndJob, WorkerAt, database, queue
  <2>2. worker'[w].at # "captureGetOrder" /\ worker'[w].at # "vippsCapture"
    BY <1>5, <2>1, WorkersWrite DEF WorkerStep, VippsCapture, CaptureReadOrder,
       CaptureWriteOrder, CaptureGetOrder, UpdatePaymentAttempt, WorkerAt
  <2> QED
    BY <1>3, <2>1, <2>2 DEF OnItsWay
<1>6. CASE UpdatePaymentAttempt(w)
  <2> DEFINE held == worker[w]
             n == Ref(w)
             next == [at |-> "removeRepeatable", job |-> held.job, state |-> held.state]
  <2>1. /\ held.at = "updateAttempt" /\ jobs' = jobs
        /\ worker' = [worker EXCEPT ![w] = next] \/ worker' = [worker EXCEPT ![w] = Idle]
    BY <1>6 DEF UpdatePaymentAttempt, EndJob, WorkerGoto, WorkerAt, queue
  <2>2. worker'[w].at \in {"removeRepeatable", "idle"}
    BY <2>1, WorkerMoves DEF Idle
  <2>3. CASE ~(AttemptUnchanged(n, held.attempt) /\ OrderUnchanged(held.order))
    <3>1. UNCHANGED <<order, attempts>>
      BY <1>6, <2>3 DEF UpdatePaymentAttempt, database
    <3> QED
      BY <1>3, <2>1, <2>2, <3>1 DEF OnItsWay
  <2>4. CASE AttemptUnchanged(n, held.attempt) /\ OrderUnchanged(held.order)
    <3>1. /\ n \in Refs /\ attempts[n].state = "CREATED"
          /\ attempts' = [attempts EXCEPT ![n] =
                              [state |-> held.state, version |-> @.version + 1]]
          /\ order'.paymentStatus = NewStatus(held.state, order)
      BY <1>6, <2>4, WrittenRows DEF Inv, PaymentsTypeOK, OrderRows
    <3>2. Authorized \subseteq Authorized'
      BY <3>1 DEF Inv, PaymentsTypeOK, Authorized
    <3>3. CASE held.state = "AUTHORIZED"
      <4>1. n \in Authorized'
        BY <3>1, <3>3 DEF Inv, PaymentsTypeOK, Authorized
      <4>2. worker' = [worker EXCEPT ![w] = next]
        BY <1>6, <2>4, <3>3 DEF UpdatePaymentAttempt, IsFinalState, FinalStates,
           EndJob, WorkerGoto
      <4>3. worker'[w] = next
        BY <4>2, WorkerMoves
      <4>4. OnItsWay(w)'
        BY <4>1, <4>3 DEF OnItsWay, Ref
      <4> QED
        BY <1>1, <2>2, <4>4 DEF CaptureInv
    <3>4. CASE held.state # "AUTHORIZED"
      <4>1. order'.paymentStatus = order.paymentStatus
        BY <3>1, <3>4 DEF NewStatus
      <4>2. ~OnItsWay(w)
        BY <2>1 DEF OnItsWay
      <4> QED
        BY <1>1, <2>1, <2>2, <3>2, <4>1, <4>2 DEF CaptureInv
    <3> QED
      BY <3>3, <3>4
  <2> QED
    BY <2>3, <2>4
<1>7. CASE RemoveRepeatable(w)
  <2> DEFINE next == [at |-> "addCapture", job |-> worker[w].job]
  <2>1. /\ UNCHANGED <<order, attempts>> /\ jobs' = jobs
        /\ worker[w].at = "removeRepeatable"
        /\ \/ worker' = [worker EXCEPT ![w] = next]
           \/ worker[w].state # "AUTHORIZED" /\ worker' = [worker EXCEPT ![w] = Idle]
    BY <1>7 DEF RemoveRepeatable, EndJob, WorkerGoto, WorkerAt, database
  <2>2. \/ worker'[w] = next
        \/ worker[w].state # "AUTHORIZED" /\ worker'[w] = Idle
    BY <2>1, WorkerMoves
  <2>3. worker[w].state # "AUTHORIZED" => ~OnItsWay(w)
    BY <2>1 DEF Inv, PaymentsInv, WorkerHolds, OnItsWay, Authorized
  <2>4. Authorized' = Authorized
    BY <2>1 DEF Authorized
  <2>5. CASE worker'[w] = next
    BY <1>3, <2>1, <2>4, <2>5 DEF OnItsWay, Ref
  <2>6. CASE worker[w].state # "AUTHORIZED" /\ worker'[w] = Idle
    BY <1>3, <2>1, <2>3, <2>6 DEF Idle
  <2> QED
    BY <2>2, <2>5, <2>6
<1>8. CASE AddCaptureJob(w)
  <2>1. /\ UNCHANGED <<order, attempts>> /\ jobs' = jobs \cup {CaptureJob(Ref(w))}
        /\ worker' = [worker EXCEPT ![w] = Idle]
    BY <1>8 DEF AddCaptureJob, EndJob, WorkerGoto, database
  <2>2. worker'[w].at = "idle"
    BY <2>1, WorkerMoves DEF Idle
  <2>3. CaptureJob(Ref(w)).kind = "capture" /\ CaptureJob(Ref(w)).ref = Ref(w)
    BY DEF CaptureJob
  <2> QED
    BY <1>3, <2>1, <2>2, <2>3 DEF OnItsWay
<1>9. CASE CaptureGetOrder(w)
  <2> DEFINE next == [at |-> "vippsCapture", job |-> worker[w].job]
  <2>1. /\ UNCHANGED <<order, attempts>> /\ jobs' = jobs
        /\ worker[w].at = "captureGetOrder"
        /\ \/ worker' = [worker EXCEPT ![w] = next]
           \/ order.paymentStatus = "CAPTURED" /\ worker' = [worker EXCEPT ![w] = Idle]
    BY <1>9 DEF CaptureGetOrder, MayBeCaptured, EndJob, WorkerGoto, WorkerAt, database, queue
  <2>2. \/ worker'[w] = next
        \/ order.paymentStatus = "CAPTURED" /\ worker'[w] = Idle
    BY <2>1, WorkerMoves
  <2>3. Authorized' = Authorized
    BY <2>1 DEF Authorized
  <2>4. CASE worker'[w] = next
    BY <1>2, <1>3, <2>1, <2>3, <2>4 DEF OnItsWay, Ref
  <2>5. CASE order.paymentStatus = "CAPTURED" /\ worker'[w] = Idle
    BY <1>3, <2>1, <2>5 DEF Idle
  <2> QED
    BY <2>2, <2>4, <2>5
<1>10. CASE VippsCapture(w)
  <2> DEFINE next == [at |-> "readOrder", job |-> worker[w].job]
  <2>1. /\ UNCHANGED <<order, attempts>> /\ worker[w].at = "vippsCapture"
        /\ \/ worker' = [worker EXCEPT ![w] = next] /\ jobs' = jobs
           \/ /\ worker' = [worker EXCEPT ![w] = Idle]
              /\ jobs' = jobs \cup {worker[w].job}
    BY <1>10 DEF VippsCapture, Requeue, EndJob, WorkerGoto, WorkerAt, database
  <2>2. \/ worker'[w] = next /\ jobs' = jobs
        \/ worker'[w] = Idle /\ jobs' = jobs \cup {worker[w].job}
    BY <2>1, WorkerMoves
  <2>3. Authorized' = Authorized
    BY <2>1 DEF Authorized
  <2>4. CASE worker'[w] = next /\ jobs' = jobs
    BY <1>3, <2>1, <2>3, <2>4 DEF OnItsWay, Ref
  <2>5. CASE worker'[w] = Idle /\ jobs' = jobs \cup {worker[w].job}
    BY <1>2, <1>3, <2>1, <2>5 DEF OnItsWay, Ref, Idle
  <2> QED
    BY <2>2, <2>4, <2>5
<1>11. CASE CaptureReadOrder(w)
  <2> DEFINE next == [at |-> "writeOrder", job |-> worker[w].job, order |-> order]
  <2>1. /\ UNCHANGED <<order, attempts>> /\ jobs' = jobs
        /\ worker' = [worker EXCEPT ![w] = next]
    BY <1>11 DEF CaptureReadOrder, WorkerGoto, database, queue
  <2>2. worker'[w] = next
    BY <2>1, WorkerMoves
  <2>3. Authorized' = Authorized
    BY <2>1 DEF Authorized
  <2> QED
    BY <1>3, <2>1, <2>2, <2>3 DEF OnItsWay, Ref
<1>12. CASE CaptureWriteOrder(w)
  <2>1. OrderUnchanged(worker[w].order) /\ worker[w].order \in OrderRows
    BY <1>12, WorkerShape DEF CaptureWriteOrder, WriteInv, WorkerAt, Inv
  <2>2. /\ order'.paymentStatus = "CAPTURED"
        /\ worker' = [worker EXCEPT ![w] = [at |-> "receipt", job |-> worker[w].job]]
    BY <1>12, <2>1 DEF CaptureWriteOrder, WriteOrder, WorkerGoto, OrderRows
  <2>3. worker'[w].at = "receipt"
    BY <2>2, WorkerMoves
  <2> QED
    BY <1>1, <2>2, <2>3 DEF CaptureInv
<1> QED
  BY <1>4, <1>5, <1>6, <1>7, <1>8, <1>9, <1>10, <1>11, <1>12 DEF WorkerStep

\* Every step but the death of a worker keeps the capture of a reserved order
\* under way.
LEMMA NextCaptureInv ==
    ASSUME OneWorker, Inv, WriteInv, CaptureInv, [Next]_vars,
           KillsNoWorker
    PROVE  CaptureInv'
<1>1. CASE UNCHANGED vars
  BY <1>1 DEF CaptureInv, OnItsWay, Ref, Authorized, vars
<1>2. ASSUME NEW r \in Requests,
             InitiatePaymentAttempt(r) \/ RequestStep(r) \/ RequestFails(r)
      PROVE  CaptureInv'
  BY <1>2, RequestsLeaveTheRest DEF CaptureInv, OnItsWay, Ref
<1>3. ASSUME NEW w \in Workers, WorkerStep(w) \/ WorkerStalls(w)
      PROVE  CaptureInv'
  BY <1>3, WorkerCaptureInv DEF KillsNoWorker
<1>4. ASSUME NEW n \in Refs, NEW outcome \in FinalStates, Settle(n, outcome)
      PROVE  CaptureInv'
  BY <1>4 DEF Settle, CaptureInv, OnItsWay, Ref, Authorized, database, queue
<1> QED
  BY <1>1, <1>2, <1>3, <1>4 DEF Next

\* An undisturbed step keeps what is written and charged.
LEMMA UndisturbedCharge ==
    ASSUME OneWorker, NoAnswerIsLost, Inv, WriteInv, ChargeInv, [Next]_vars, [LeavesCharge]_vars
    PROVE  WriteInv' /\ ChargeInv'
<1>1. CASE UNCHANGED vars
  BY <1>1 DEF WriteInv, ChargeInv, WorkerAt,
     OrderUnchanged, vars
<1>2. CASE ~UNCHANGED vars
  BY <1>2, NextWriteInv, NextChargeInv DEF LeavesCharge
<1> QED
  BY <1>1, <1>2

\* The payer is charged for one attempt at most, whatever requests initiate,
\* as long as there is one worker, it does not die after a capture, hears of
\* it, and no updateOrder comes between its read and its write of the order.
THEOREM OneChargeIfUndisturbed ==
    ASSUME OneWorker, NoAnswerIsLost
    PROVE  Spec /\ [][LeavesCharge]_vars => []ChargedOnce
<1>1. Init => WriteInv /\ ChargeInv
  BY DEF Init, WriteInv, ChargeInv, Idle, WorkerAt
<1>2. /\ Inv /\ WriteInv /\ ChargeInv /\ [Next]_vars /\ [LeavesCharge]_vars
         => WriteInv' /\ ChargeInv'
  BY UndisturbedCharge
<1>3. Inv /\ ChargeInv => ChargedOnce
  <2> SUFFICES ASSUME Inv, ChargeInv PROVE Cardinality(charged) <= 1
    BY DEF ChargedOnce
  <2>1. CASE charged = {}
    BY <2>1, FS_EmptySet
  <2>2. CASE \E n : charged = {n}
    BY <2>2, FS_Singleton
  <2>3. charged = {} \/ \E n : charged = {n}
    BY DEF ChargeInv
  <2> QED
    BY <2>1, <2>2, <2>3
<1> QED
  BY <1>1, <1>2, <1>3, InvHolds, PTL DEF Spec

\* An undisturbed step keeps what is written and on its way.
LEMMA UndisturbedCapture ==
    ASSUME OneWorker, Inv, WriteInv, CaptureInv, [Next]_vars, [LeavesCapture]_vars
    PROVE  WriteInv' /\ CaptureInv'
<1>1. CASE UNCHANGED vars
  BY <1>1 DEF WriteInv, CaptureInv, OnItsWay, Ref, Authorized, WorkerAt,
     OrderUnchanged, vars
<1>2. CASE ~UNCHANGED vars
  BY <1>2, NextWriteInv, NextCaptureInv DEF LeavesCapture
<1> QED
  BY <1>1, <1>2

\* A reserved order never waits for nothing, whatever requests initiate, calls
\* fail and answers are lost, as long as the one worker does not die and no
\* updateOrder comes between its read and its write of the order.
THEOREM ReservedIsCapturedIfUndisturbed ==
    ASSUME OneWorker
    PROVE  Spec /\ [][LeavesCapture]_vars => []ReservedIsBeingCaptured
<1>1. Init => WriteInv /\ CaptureInv
  BY DEF Init, WriteInv, CaptureInv, Idle, WorkerAt
<1>2. /\ Inv /\ WriteInv /\ CaptureInv /\ [Next]_vars /\ [LeavesCapture]_vars
         => WriteInv' /\ CaptureInv'
  BY UndisturbedCapture
<1>3. CaptureInv => ReservedIsBeingCaptured
  BY DEF CaptureInv, OnItsWay, ReservedIsBeingCaptured, WorkerAt
<1> QED
  BY <1>1, <1>2, <1>3, InvHolds, PTL DEF Spec
=============================================================================
