------------------------------ MODULE Payments ------------------------------
(***************************************************************************)
(* Paying for one order: initiatePaymentAttempt, updatePaymentAttemptState *)
(* and capture (src/src/services/products/payments.ts), the worker of the  *)
(* queue payment-processing (worker.ts) and the repository calls they make *)
(* (src/src/repositories/products/repository.ts).                          *)
(*                                                                         *)
(* As in EventSignUps a Prisma call or $transaction is one step, and so is *)
(* a call of Vipps or of the queue.  Vipps, the payer and the queue are    *)
(* external: they do what the code relies on.  The reference of attempt n  *)
(* of the order is n itself.  No code writes CANCELLED, REFUNDED or        *)
(* TERMINATED, and the three failed states Vipps reports are one: "FAILED".*)
(***************************************************************************)
EXTENDS Integers, FiniteSets

CONSTANTS
    Requests,       \* calls of initiatePaymentAttempt
    Workers,        \* payment workers, one per worker process
    MaxRefs,        \* a bound of the model: the attempts the order may have
    PollLimit,      \* the limit of the repeated polling job, 300 in the code
    FailingCalls,   \* the calls of Vipps that may fail
    MaxFailures,    \* a bound of the model: how often they may fail
    MayCrash,       \* whether processes may die
    InitiallyOpen   \* attempts initiated, one after the other, at the start

VARIABLES
    order,          \* the order row
    attempts,       \* the payment attempt rows
    vipps,          \* the state Vipps keeps of each payment
    charged,        \* the payments Vipps has captured
    redirected,     \* the payments whose redirect URL was returned
    polls,          \* the repeats left of each polling job
    jobs,           \* the other jobs waiting in the queue
    receipts,       \* the payments an order-receipt mail was queued for
    failures,       \* how many calls of Vipps have failed
    req,            \* the state of each request
    worker          \* the state of each worker

database == <<order, attempts>>
queue == <<polls, jobs>>
atVipps == <<vipps, charged>>
vars == <<order, attempts, vipps, charged, redirected, polls, jobs, receipts,
          failures, req, worker>>

-----------------------------------------------------------------------------
(* Rows and jobs *)

Refs == 1..MaxRefs
PaymentStates == {"none", "CREATED", "AUTHORIZED", "FAILED"}
FinalStates == {"AUTHORIZED", "FAILED"}
OrderRows == [version : Nat,
              paymentStatus : {"PENDING", "CREATED", "RESERVED", "CAPTURED"},
              attempt : 0..MaxRefs, captured : 0..MaxRefs]
AttemptRows == [state : PaymentStates, version : Nat]
NoAttempt == [state |-> "none", version |-> 0]
NewAttempt == [state |-> "CREATED", version |-> 0]

\* repeat numbers the repeats of a polling job; a stalled job runs once more.
Jobs == [kind : {"poll"}, ref : Refs, repeat : 1..PollLimit, stalled : BOOLEAN]
        \cup [kind : {"capture"}, ref : Refs, repeat : {0}, stalled : BOOLEAN]

Calls == {"create", "create answer", "token", "info", "capture",
          "capture answer"}

ASSUME PaymentsAssumption ==
    /\ MaxRefs \in Nat \ {0}
    /\ PollLimit \in Nat \ {0}
    /\ FailingCalls \subseteq Calls
    /\ MaxFailures \in Nat
    /\ MayCrash \in BOOLEAN
    /\ InitiallyOpen \in 0..MaxRefs

Idle == [at |-> "idle"]
Done == [at |-> "done"]
RequestStates ==
    [at : {"idle", "done"}]
    \cup [at : {"create", "createAttempt"}, order : OrderRows]
    \cup [at : {"readOrder", "addPollingJob"}, ref : Refs]
    \cup [at : {"writeOrder"}, ref : Refs, order : OrderRows]
WorkerStates ==
    [at : {"idle"}]
    \cup [at : {"getOrder"}, job : Jobs, attempt : AttemptRows]
    \cup [at : {"info"}, job : Jobs, attempt : AttemptRows, order : OrderRows]
    \cup [at : {"updateAttempt"}, job : Jobs, attempt : AttemptRows,
          order : OrderRows, state : PaymentStates]
    \cup [at : {"removeRepeatable"}, job : Jobs, state : PaymentStates]
    \cup [at : {"addCapture", "captureGetOrder", "vippsCapture", "readOrder",
                "receipt"}, job : Jobs]
    \cup [at : {"writeOrder"}, job : Jobs, order : OrderRows]

At(r, label) == req[r].at = label
Goto(r, state) == req' = [req EXCEPT ![r] = state]
WorkerAt(w, label) == worker[w].at = label
WorkerGoto(w, state) == worker' = [worker EXCEPT ![w] = state]
Ref(w) == worker[w].job.ref

\* Each initiation has incremented the version of the order twice.
Init ==
    /\ order = [version |-> 2 * InitiallyOpen,
                paymentStatus |-> IF InitiallyOpen = 0 THEN "PENDING"
                                                       ELSE "CREATED",
                attempt |-> InitiallyOpen, captured |-> 0]
    /\ attempts = [n \in Refs |-> IF n <= InitiallyOpen THEN NewAttempt
                                                        ELSE NoAttempt]
    /\ vipps = [n \in Refs |-> attempts[n].state]
    /\ charged = {}
    /\ redirected = 1..InitiallyOpen
    /\ polls = [n \in Refs |-> IF n <= InitiallyOpen THEN PollLimit ELSE 0]
    /\ jobs = {}
    /\ receipts = {}
    /\ failures = 0
    /\ req = [r \in Requests |-> Idle]
    /\ worker = [w \in Workers |-> Idle]

-----------------------------------------------------------------------------
(* Vipps and the payer *)

Fails(call) ==
    /\ call \in FailingCalls
    /\ failures < MaxFailures
    /\ failures' = failures + 1

\* The payer can only approve a payment he or she was redirected to; every
\* payment may be aborted, fail or expire.
Settle(n, outcome) ==
    /\ vipps[n] = "CREATED"
    /\ outcome = "AUTHORIZED" => n \in redirected
    /\ vipps' = [vipps EXCEPT ![n] = outcome]
    /\ UNCHANGED <<database, charged, redirected, queue, receipts, failures,
                   req, worker>>

-----------------------------------------------------------------------------
(* initiatePaymentAttempt *)

\* Mutant of MayBePaid: a reserved order is not refused.
NotCaptured(o) == o.paymentStatus # "CAPTURED"
\* An order that is reserved or captured is refused.
MayBePaid(o) == o.paymentStatus \in {"PENDING", "CREATED"}

InitiatePaymentAttempt(r) ==
    /\ At(r, "idle")
    /\ order.attempt < MaxRefs
    /\ \/ MayBePaid(order) /\ Goto(r, [at |-> "create", order |-> order])
       \/ ~MayBePaid(order) /\ Goto(r, Done)
    /\ UNCHANGED <<database, atVipps, redirected, queue, receipts, failures,
                   worker>>

\* Vipps refuses a reference it knows; the answer of a call may be lost.
VippsCreate(r) ==
    /\ At(r, "create")
    /\ LET held == req[r].order
           ref == held.attempt + 1
           created == vipps' = [vipps EXCEPT ![ref] = "CREATED"]
       IN  \/ /\ vipps[ref] = "none" /\ created
              /\ Goto(r, [at |-> "createAttempt", order |-> held])
              /\ UNCHANGED failures
           \/ /\ vipps[ref] # "none" /\ Goto(r, Done)
              /\ UNCHANGED <<vipps, failures>>
           \/ Fails("create") /\ Goto(r, Done) /\ UNCHANGED vipps
           \/ /\ vipps[ref] = "none" /\ created
              /\ Fails("create answer") /\ Goto(r, Done)
    /\ UNCHANGED <<database, charged, redirected, queue, receipts, worker>>

\* Mutant of OrderUnchanged: the versions are not compared.
OrderNotCompared(held) == order.attempt = held.attempt
OrderUnchanged(held) == order.version = held.version

\* Mutant of CreatePaymentAttempt: the two rows are written apart.
CreatePaymentAttemptAlone(r) ==
    /\ At(r, "createAttempt")
    /\ LET held == req[r].order
           ref == held.attempt + 1
       IN  \/ /\ OrderUnchanged(held)
              /\ attempts' = [attempts EXCEPT ![ref] = NewAttempt]
              /\ order' = [order EXCEPT !.paymentStatus = "CREATED",
                                        !.attempt = @ + 1, !.version = @ + 1]
              /\ Goto(r, [at |-> "readOrder", ref |-> ref])
           \/ /\ ~OrderUnchanged(held) /\ Goto(r, Done)
              /\ attempts' = [attempts EXCEPT ![ref] = NewAttempt]
              /\ UNCHANGED order
    /\ UNCHANGED <<atVipps, redirected, queue, receipts, failures, worker>>

\* Written together with the order, or neither is; a lost race throws.
CreatePaymentAttempt(r) ==
    /\ At(r, "createAttempt")
    /\ LET held == req[r].order
           ref == held.attempt + 1
       IN  \/ /\ OrderUnchanged(held)
              /\ attempts' = [attempts EXCEPT ![ref] = NewAttempt]
              /\ order' = [order EXCEPT !.paymentStatus = "CREATED",
                                        !.attempt = @ + 1, !.version = @ + 1]
              /\ Goto(r, [at |-> "readOrder", ref |-> ref])
           \/ ~OrderUnchanged(held) /\ Goto(r, Done) /\ UNCHANGED database
    /\ UNCHANGED <<atVipps, redirected, queue, receipts, failures, worker>>

UpdateOrderRead(r) ==
    /\ At(r, "readOrder")
    /\ Goto(r, [at |-> "writeOrder", ref |-> req[r].ref, order |-> order])
    /\ UNCHANGED <<database, atVipps, redirected, queue, receipts, failures,
                   worker>>

\* Mutant of WriteOrder: the version is not incremented.
WriteOrderSameVersion(held, status, captured) ==
    order' = [held EXCEPT !.paymentStatus = status, !.captured = captured]
\* updateOrder writes every field of the row it read.
WriteOrder(held, status, captured) ==
    order' = [held EXCEPT !.paymentStatus = status, !.captured = captured,
                          !.version = @ + 1]

UpdateOrderWrite(r) ==
    /\ At(r, "writeOrder")
    /\ LET held == req[r].order
           status == IF held.paymentStatus = "PENDING" THEN "CREATED"
                                                       ELSE held.paymentStatus
       IN  \/ /\ OrderUnchanged(held)
              /\ WriteOrder(held, status, held.captured)
              /\ Goto(r, [at |-> "addPollingJob", ref |-> req[r].ref])
           \/ ~OrderUnchanged(held) /\ Goto(r, Done) /\ UNCHANGED order
    /\ UNCHANGED <<attempts, atVipps, redirected, queue, receipts, failures,
                   worker>>

AddPollingJob(r) ==
    /\ At(r, "addPollingJob")
    /\ polls' = [polls EXCEPT ![req[r].ref] = PollLimit]
    /\ redirected' = redirected \cup {req[r].ref}
    /\ Goto(r, Done)
    /\ UNCHANGED <<database, atVipps, jobs, receipts, failures, worker>>

-----------------------------------------------------------------------------
(* The worker: a job is taken and its payment attempt read *)

EndJob(w) == WorkerGoto(w, Idle)
\* Mutant of Requeue: the job fails instead.
DropJob(w) == EndJob(w) /\ UNCHANGED jobs
\* moveToDelayed: the job waits in the queue again.
Requeue(w) == jobs' = jobs \cup {worker[w].job} /\ EndJob(w)

GetPaymentAttempt(w, job) ==
    LET row == attempts[job.ref] IN
    WorkerGoto(w,
        CASE job.kind = "poll" /\ row.state = "CREATED" ->
                [at |-> "getOrder", job |-> job, attempt |-> row]
          [] job.kind = "capture" /\ row.state = "AUTHORIZED" ->
                [at |-> "captureGetOrder", job |-> job]
          [] OTHER -> Idle)

\* Polling lasts as long as Vipps keeps a payment open: at the last repeat
\* the payment is settled.
TakePoll(w, n) ==
    /\ WorkerAt(w, "idle")
    /\ polls[n] > 0
    /\ polls[n] = 1 => vipps[n] # "CREATED"
    /\ polls' = [polls EXCEPT ![n] = @ - 1]
    /\ GetPaymentAttempt(w, [kind |-> "poll", ref |-> n, repeat |-> polls[n],
                             stalled |-> FALSE])
    /\ UNCHANGED <<database, atVipps, redirected, jobs, receipts, failures, req>>

TakeJob(w, job) ==
    /\ WorkerAt(w, "idle")
    /\ job \in jobs
    /\ jobs' = jobs \ {job}
    /\ GetPaymentAttempt(w, job)
    /\ UNCHANGED <<database, atVipps, redirected, polls, receipts, failures, req>>

-----------------------------------------------------------------------------
(* updatePaymentAttemptState *)

UpdateGetOrder(w) ==
    /\ WorkerAt(w, "getOrder")
    /\ WorkerGoto(w, [at |-> "info", job |-> worker[w].job,
                      attempt |-> worker[w].attempt, order |-> order])
    /\ UNCHANGED <<database, atVipps, redirected, queue, receipts, failures, req>>

\* Mutant of RemoteState: a captured payment is reported as such.
RemoteStateOfCapture(n) == IF n \in charged THEN "CAPTURED" ELSE vipps[n]
RemoteState(n) == vipps[n]

\* Without a token the job is delayed, without an answer it fails.
GetRemotePaymentState(w) ==
    /\ WorkerAt(w, "info")
    /\ LET held == worker[w] IN
       \/ /\ WorkerGoto(w, [at |-> "updateAttempt", job |-> held.job,
                            attempt |-> held.attempt, order |-> held.order,
                            state |-> RemoteState(Ref(w))])
          /\ UNCHANGED <<jobs, failures>>
       \/ Fails("token") /\ Requeue(w)
       \/ Fails("info") /\ EndJob(w) /\ UNCHANGED jobs
    /\ UNCHANGED <<database, atVipps, redirected, polls, receipts, req>>

AttemptUnchanged(ref, held) == attempts[ref].version = held.version

\* Mutant of IsFinalState: polling stops after every answer.
AlwaysFinal(state) == TRUE
IsFinalState(state) == state \in FinalStates

\* Mutant of NewStatus: the status is reserved whatever the order was read as.
AlwaysReserved(state, held) ==
    IF state = "AUTHORIZED" THEN "RESERVED" ELSE held.paymentStatus
NewStatus(state, held) ==
    IF state = "AUTHORIZED" /\ held.paymentStatus # "CAPTURED"
        THEN "RESERVED" ELSE held.paymentStatus

\* Both rows are written or neither; a lost race ends the job.
UpdatePaymentAttempt(w) ==
    /\ WorkerAt(w, "updateAttempt")
    /\ LET held == worker[w]
           unchanged == /\ AttemptUnchanged(Ref(w), held.attempt)
                        /\ OrderUnchanged(held.order)
       IN  \/ /\ unchanged
              /\ attempts' = [attempts EXCEPT
                     ![Ref(w)] = [state |-> held.state, version |-> @.version + 1]]
              /\ order' = [order EXCEPT
                     !.paymentStatus = NewStatus(held.state, held.order),
                     !.version = @ + 1]
              /\ \/ /\ IsFinalState(held.state)
                    /\ WorkerGoto(w, [at |-> "removeRepeatable",
                                      job |-> held.job, state |-> held.state])
                 \/ ~IsFinalState(held.state) /\ EndJob(w)
           \/ ~unchanged /\ EndJob(w) /\ UNCHANGED database
    /\ UNCHANGED <<atVipps, redirected, queue, receipts, failures, req>>

RemoveRepeatable(w) ==
    /\ WorkerAt(w, "removeRepeatable")
    /\ polls' = [polls EXCEPT ![Ref(w)] = 0]
    /\ \/ /\ worker[w].state = "AUTHORIZED"
          /\ WorkerGoto(w, [at |-> "addCapture", job |-> worker[w].job])
       \/ worker[w].state # "AUTHORIZED" /\ EndJob(w)
    /\ UNCHANGED <<database, atVipps, redirected, jobs, receipts, failures, req>>

CaptureJob(n) == [kind |-> "capture", ref |-> n, repeat |-> 0, stalled |-> FALSE]

AddCaptureJob(w) ==
    /\ WorkerAt(w, "addCapture")
    /\ jobs' = jobs \cup {CaptureJob(Ref(w))}
    /\ EndJob(w)
    /\ UNCHANGED <<database, atVipps, redirected, polls, receipts, failures, req>>

-----------------------------------------------------------------------------
(* capture *)

\* Mutant of MayBeCaptured: the check of the order's status is dropped.
AlwaysCaptured(o) == o.paymentStatus # "PENDING"
MayBeCaptured(o) == o.paymentStatus # "CAPTURED"

\* Mutant of CaptureGetOrder: a captured order delays the job.
CaptureGetOrderDelays(w) ==
    /\ WorkerAt(w, "captureGetOrder")
    /\ \/ /\ MayBeCaptured(order) /\ UNCHANGED jobs
          /\ WorkerGoto(w, [at |-> "vippsCapture", job |-> worker[w].job])
       \/ ~MayBeCaptured(order) /\ Requeue(w)
    /\ UNCHANGED <<database, atVipps, redirected, polls, receipts, failures, req>>
CaptureGetOrder(w) ==
    /\ WorkerAt(w, "captureGetOrder")
    /\ \/ /\ MayBeCaptured(order)
          /\ WorkerGoto(w, [at |-> "vippsCapture", job |-> worker[w].job])
       \/ ~MayBeCaptured(order) /\ EndJob(w)
    /\ UNCHANGED <<database, atVipps, redirected, queue, receipts, failures, req>>

\* Vipps refuses to capture a payment twice.  A refusal, and a call without
\* an answer, delay the job.
VippsCapture(w) ==
    /\ WorkerAt(w, "vippsCapture")
    /\ LET n == Ref(w)
           captured == n \notin charged /\ charged' = charged \cup {n}
       IN  \/ /\ captured
              /\ WorkerGoto(w, [at |-> "readOrder", job |-> worker[w].job])
              /\ UNCHANGED <<jobs, failures>>
           \/ n \in charged /\ Requeue(w) /\ UNCHANGED <<charged, failures>>
           \/ Fails("capture") /\ Requeue(w) /\ UNCHANGED charged
           \/ captured /\ Fails("capture answer") /\ Requeue(w)
    /\ UNCHANGED <<database, vipps, redirected, polls, receipts, req>>

CaptureReadOrder(w) ==
    /\ WorkerAt(w, "readOrder")
    /\ WorkerGoto(w, [at |-> "writeOrder", job |-> worker[w].job,
                      order |-> order])
    /\ UNCHANGED <<database, atVipps, redirected, queue, receipts, failures, req>>

\* A lost race is a NotFoundError: the job fails and is not tried again.
CaptureWriteOrder(w) ==
    /\ WorkerAt(w, "writeOrder")
    /\ LET held == worker[w].order
       IN  \/ /\ OrderUnchanged(held)
              /\ WriteOrder(held, "CAPTURED", Ref(w))
              /\ WorkerGoto(w, [at |-> "receipt", job |-> worker[w].job])
           \/ ~OrderUnchanged(held) /\ EndJob(w) /\ UNCHANGED order
    /\ UNCHANGED <<attempts, atVipps, redirected, queue, receipts, failures, req>>

SendReceipt(w) ==
    /\ WorkerAt(w, "receipt")
    /\ receipts' = receipts \cup {Ref(w)}
    /\ EndJob(w)
    /\ UNCHANGED <<database, atVipps, redirected, queue, failures, req>>

-----------------------------------------------------------------------------
(* Failures of processes *)

RequestFails(r) ==
    /\ MayCrash
    /\ req[r].at \notin {"idle", "done"}
    /\ Goto(r, Done)
    /\ UNCHANGED <<database, atVipps, redirected, queue, receipts, failures,
                   worker>>

\* BullMQ gives the job of a dead worker to a worker again, once.
WorkerStalls(w) ==
    /\ MayCrash
    /\ ~WorkerAt(w, "idle")
    /\ LET job == worker[w].job IN
       jobs' = IF job.stalled THEN jobs
                              ELSE jobs \cup {[job EXCEPT !.stalled = TRUE]}
    /\ EndJob(w)
    /\ UNCHANGED <<database, atVipps, redirected, polls, receipts, failures, req>>

-----------------------------------------------------------------------------

RequestStep(r) ==
    \/ VippsCreate(r) \/ CreatePaymentAttempt(r) \/ UpdateOrderRead(r)
    \/ UpdateOrderWrite(r) \/ AddPollingJob(r)

Take(w) ==
    \/ \E n \in Refs : TakePoll(w, n)
    \/ \E job \in jobs : TakeJob(w, job)

WorkerStep(w) ==
    \/ Take(w) \/ UpdateGetOrder(w) \/ GetRemotePaymentState(w)
    \/ UpdatePaymentAttempt(w) \/ RemoveRepeatable(w) \/ AddCaptureJob(w)
    \/ CaptureGetOrder(w) \/ VippsCapture(w) \/ CaptureReadOrder(w)
    \/ CaptureWriteOrder(w) \/ SendReceipt(w)

Next ==
    \/ \E r \in Requests :
          InitiatePaymentAttempt(r) \/ RequestStep(r) \/ RequestFails(r)
    \/ \E w \in Workers : WorkerStep(w) \/ WorkerStalls(w)
    \/ \E n \in Refs, outcome \in FinalStates : Settle(n, outcome)

Spec == Init /\ [][Next]_vars

\* A call goes on until it ends, a worker takes the jobs that wait, and Vipps
\* keeps no payment open for ever (payments expire after ten minutes).
Fairness ==
    /\ \A r \in Requests : WF_vars(RequestStep(r))
    /\ \A w \in Workers : WF_vars(WorkerStep(w))
    /\ \A n \in Refs : WF_vars(\E outcome \in FinalStates : Settle(n, outcome))

FairSpec == Spec /\ Fairness
=============================================================================
