----------------------------- MODULE MCPayments -----------------------------
(***************************************************************************)
(* Small instances of Payments.                                            *)
(***************************************************************************)
EXTENDS PaymentsProperties, TLC

CONSTANTS r1, r2, w1, w2

NoCalls == {}
\* payments: the failures that do more than delay the job they happen in.
\* charges: those after which the job is tried again and can still succeed.
PaymentsCalls == Calls \ {"token", "capture"}
ChargesCalls == Calls \ {"info", "capture answer"}
Symmetric == Permutations(Requests) \cup Permutations(Workers)
=============================================================================
