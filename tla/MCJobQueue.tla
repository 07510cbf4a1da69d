----------------------------- MODULE MCJobQueue -----------------------------
(* Small instances of JobQueue for TLC.                                    *)
EXTENDS QueueAgreement, TLC

CONSTANTS j1, j2, j3, w1, w2, w3

Symmetry == Permutations(Jobs) \union Permutations(Workers)
=============================================================================
