----------------------------- MODULE MCCheckout -----------------------------
(* Small instances of Checkout for TLC.                                    *)
EXTENDS Checkout, TLC

CONSTANTS r1, r2, w1, w2, b1, k1, k2, j1, j2

Symmetry == Permutations(Requests) \union Permutations(Workers) \union Permutations(Keys)
            \union Permutations(Jobs)

(* What a state is told apart by: all but the two histories that no guard  *)
(* reads and no property of the run names, asked and finished.             *)
Seen == <<bookingVars, request, attempt, minted, charged, refunded, known, call, refund,
          job, hand, leaseLeft>>
=============================================================================
