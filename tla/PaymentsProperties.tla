------------------------- MODULE PaymentsProperties -------------------------
(***************************************************************************)
(* What the payments of an order should do: properties of Payments.        *)
(***************************************************************************)
EXTENDS Payments

\* Every variable holds a value the rows, jobs, requests and workers can have.
PaymentsTypeOK ==
    /\ order \in OrderRows
    /\ attempts \in [Refs -> AttemptRows]
    /\ vipps \in [Refs -> PaymentStates]
    /\ charged \subseteq Refs /\ redirected \subseteq Refs /\ receipts \subseteq Refs
    /\ polls \in [Refs -> 0..PollLimit]
    /\ jobs \subseteq Jobs
    /\ failures \in 0..MaxFailures
    /\ req \in [Requests -> RequestStates]
    /\ worker \in [Workers -> WorkerStates]

-----------------------------------------------------------------------------
(* Safety *)

Authorized == {n \in Refs : attempts[n].state = "AUTHORIZED"}

\* The order is reserved or captured exactly when one of its attempts is
\* authorised: createPaymentAttempt, updatePaymentAttempt and updateOrder write
\* the status, each from an order read some awaits before.
OrderFollowsAttempts ==
    /\ order.paymentStatus \in {"RESERVED", "CAPTURED"} <=> Authorized # {}
    /\ order.paymentStatus = "PENDING" <=> order.attempt = 0

\* The order is captured with an attempt it has, that is authorised and that
\* Vipps has captured; nothing else was charged that is not authorised here.
CapturedWasCharged ==
    /\ order.paymentStatus = "CAPTURED" <=> order.captured # 0
    /\ order.captured # 0 => order.captured \in charged
    /\ charged \subseteq Authorized

\* A final state of an attempt is the state Vipps settled the payment in, and
\* there is a row exactly for the attempts the order has counted: a worker may
\* store an answer of Vipps that is old, never one that is wrong.
AttemptsMirrorVipps == \A n \in Refs :
    /\ attempts[n].state # "none" <=> n <= order.attempt
    /\ attempts[n].state # "none" => vipps[n] # "none"
    /\ attempts[n].state \in FinalStates => vipps[n] = attempts[n].state

\* Requests and workers only write rows that have not changed since they read
\* them: a version they hold that is still current holds the current row.
HeldOrder(held) ==
    /\ held.version <= order.version
    /\ held.version = order.version => held = order
HeldAttempt(ref, held) ==
    /\ held.version <= attempts[ref].version
    /\ held.version = attempts[ref].version => held = attempts[ref]

RequestHolds(r) ==
    /\ req[r].at \in {"create", "createAttempt"} =>
          /\ HeldOrder(req[r].order)
          /\ MayBePaid(req[r].order) /\ req[r].order.attempt < MaxRefs
    /\ req[r].at = "createAttempt" => vipps[req[r].order.attempt + 1] # "none"
    /\ req[r].at = "writeOrder" => HeldOrder(req[r].order)
    /\ req[r].at \in {"readOrder", "writeOrder", "addPollingJob"} =>
          attempts[req[r].ref].state # "none"

WorkerHolds(w) ==
    /\ worker[w].at \in {"getOrder", "info", "updateAttempt"} =>
          /\ attempts[Ref(w)].state # "none"
          /\ worker[w].attempt.state = "CREATED"
          /\ HeldAttempt(Ref(w), worker[w].attempt)
    /\ worker[w].at \in {"info", "updateAttempt", "writeOrder"} =>
          HeldOrder(worker[w].order)
    /\ worker[w].at = "updateAttempt" =>
          /\ worker[w].state # "none"
          /\ worker[w].state \in FinalStates => vipps[Ref(w)] = worker[w].state
    /\ worker[w].at = "removeRepeatable" =>
          /\ attempts[Ref(w)].state = worker[w].state
          /\ worker[w].state \in FinalStates
    /\ worker[w].at \in {"addCapture", "captureGetOrder", "vippsCapture"} =>
          Ref(w) \in Authorized
    /\ worker[w].at \in {"readOrder", "writeOrder", "receipt"} =>
          Ref(w) \in charged

\* The inductive invariant: the three invariants above, and what requests and
\* workers may rely on between two awaits.
PaymentsInv ==
    /\ OrderFollowsAttempts
    /\ CapturedWasCharged
    /\ AttemptsMirrorVipps
    /\ \A r \in Requests : RequestHolds(r)
    /\ \A w \in Workers : WorkerHolds(w)

\* Every step is a step of the abstract payments of an order, or invisible.
Abstract == INSTANCE OrderPayment WITH
    status <- order.paymentStatus,
    payment <- [n \in Refs |-> attempts[n].state],
    captured <- order.captured
ImplementsOrderPayment == Abstract!Spec

\* "If the order has already been captured, we should not try to capture it
\* again" (payments.ts:605): the payer is charged for one attempt at most.
ChargedOnce == Cardinality(charged) <= 1

\* "If the payment attempt has a new state of AUTHORIZED, a job is added to the
\* capture-payment queue" (payments.ts:384): while the order is reserved, a
\* worker, a job or a repeat of the polling job is still there to capture one of
\* its authorised attempts, or to add the job that does.
ReservedIsBeingCaptured ==
    order.paymentStatus = "RESERVED" =>
        \/ \E n \in Authorized : polls[n] > 0
        \/ \E j \in jobs : j.ref \in Authorized
        \/ \E w \in Workers :
              ~WorkerAt(w, "idle") /\ Ref(w) \in Authorized

-----------------------------------------------------------------------------
(* Liveness *)

\* A payment the payer has approved leads to a captured order and a receipt.
AuthorizedIsCaptured == \A n \in Refs :
    vipps[n] = "AUTHORIZED" ~>
        order.paymentStatus = "CAPTURED" /\ order.captured \in receipts

\* Polling, retries and delayed jobs come to an end.
PaymentQueueDrains == <>[](jobs = {} /\ \A n \in Refs : polls[n] = 0)
=============================================================================
