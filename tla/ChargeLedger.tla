---------------------------- MODULE ChargeLedger ----------------------------
(***************************************************************************)
(* What the payment package promises, with no attempt row, provider call   *)
(* or retry in sight: under one key of one booking money moves at most     *)
(* once, what is recorded about it is true and final, and it is sent back  *)
(* at most once, and only when it is recorded as moved.                    *)
(***************************************************************************)
CONSTANTS Bookings, Keys

VARIABLES
  recorded,   (* [Bookings \X Keys -> what the table says of the charge]   *)
  moved,      (* The charges for which money moved.                        *)
  sentBack    (* The charges whose money moved back.                       *)

charges == <<recorded, moved, sentBack>>

Init ==
  /\ recorded = [charge \in Bookings \X Keys |-> "absent"]
  /\ moved = {}
  /\ sentBack = {}

Begin(charge) ==
  /\ recorded[charge] = "absent"
  /\ recorded' = [recorded EXCEPT ![charge] = "initiated"]
  /\ UNCHANGED <<moved, sentBack>>

Move(charge) ==
  /\ recorded[charge] = "initiated"
  /\ charge \notin moved
  /\ moved' = moved \union {charge}
  /\ UNCHANGED <<recorded, sentBack>>

Record(charge) ==
  /\ recorded[charge] = "initiated"
  /\ recorded' = [recorded EXCEPT ![charge] = IF charge \in moved THEN "succeeded" ELSE "failed"]
  /\ UNCHANGED <<moved, sentBack>>

SendBack(charge) ==
  /\ recorded[charge] = "succeeded"
  /\ charge \notin sentBack
  /\ sentBack' = sentBack \union {charge}
  /\ UNCHANGED <<recorded, moved>>

Next ==
  \E charge \in Bookings \X Keys :
    Begin(charge) \/ Move(charge) \/ Record(charge) \/ SendBack(charge)

Spec == Init /\ [][Next]_charges
=============================================================================
