------------------------------ MODULE MCReads ------------------------------
(***************************************************************************)
(* One screen, its background confirmation, the browser's own one and the  *)
(* screen's writes.  The contents are alike, so it starts from one of      *)
(* them.                                                                   *)
(***************************************************************************)
EXTENDS ReadCache

CONSTANTS l1, bg, rv, own

InitFromZero == Init /\ seats = 0

FairFromZero == InitFromZero /\ [][Next]_vars /\ Fairness

(* The bound on what is under way: two reads at a time, any two.           *)
InPairs == Cardinality({r \in Reads : read'[r].at # "idle"}) <= 2
=============================================================================
