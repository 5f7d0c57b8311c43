---------------------------- MODULE OrderPayment ----------------------------
(***************************************************************************)
(* What the payments of one order promise, without requests, workers,      *)
(* versions or polling: a payment can only be begun while none of the      *)
(* order's payments has been authorised, only an authorised payment is     *)
(* charged, and the order is captured with a payment that was charged.     *)
(***************************************************************************)
EXTENDS Naturals

CONSTANT Refs       \* the references of the payments

VARIABLES
    status,         \* the payment status of the order
    payment,        \* the state of each payment
    charged,        \* the payments the payer was charged for
    captured        \* the payment the order was paid with, 0 if none

vars == <<status, payment, charged, captured>>

Init ==
    /\ status \in {"PENDING", "CREATED"}
    /\ payment \in [Refs -> {"none", "CREATED"}]
    /\ charged = {}
    /\ captured = 0

Begin(n) ==
    /\ status \in {"PENDING", "CREATED"}
    /\ payment[n] = "none"
    /\ payment' = [payment EXCEPT ![n] = "CREATED"]
    /\ status' = "CREATED"
    /\ UNCHANGED <<charged, captured>>

Authorize(n) ==
    /\ payment[n] = "CREATED"
    /\ payment' = [payment EXCEPT ![n] = "AUTHORIZED"]
    /\ status' = IF status = "CAPTURED" THEN "CAPTURED" ELSE "RESERVED"
    /\ UNCHANGED <<charged, captured>>

Fail(n) ==
    /\ payment[n] = "CREATED"
    /\ payment' = [payment EXCEPT ![n] = "FAILED"]
    /\ UNCHANGED <<status, charged, captured>>

Charge(n) ==
    /\ payment[n] = "AUTHORIZED"
    /\ charged' = charged \cup {n}
    /\ UNCHANGED <<status, payment, captured>>

Capture(n) ==
    /\ n \in charged
    /\ status' = "CAPTURED"
    /\ captured' = n
    /\ UNCHANGED <<payment, charged>>

Next == \E n \in Refs :
    Begin(n) \/ Authorize(n) \/ Fail(n) \/ Charge(n) \/ Capture(n)

Spec == Init /\ [][Next]_vars
=============================================================================
