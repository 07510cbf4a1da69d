-------------------------- MODULE MCPaymentAttempt --------------------------
(* One tab that two parents use one after the other.                       *)
EXTENDS PaymentAttempt

CONSTANTS p1, p2, b1
=============================================================================
