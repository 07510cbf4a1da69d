----------------------------- MODULE MCApiEdge -----------------------------
(* Two requests of one caller, signed in or not, and one injection point.  *)
EXTENDS ApiEdge, TLC

CONSTANTS r1, r2, subject, address, p1

Symmetry == Permutations(Requests)
=============================================================================
