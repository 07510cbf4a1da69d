----------------------------- MODULE MCPayments -----------------------------
(* Small instances of Payments for TLC.                                    *)
EXTENDS PaymentAgreement, TLC

CONSTANTS c1, c2, c3, w1, w2, k1, k2

Symmetry == Permutations(Calls) \union Permutations(Refunders) \union Permutations(Keys)
=============================================================================
