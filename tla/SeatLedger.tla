----------------------------- MODULE SeatLedger -----------------------------
(***************************************************************************)
(* What the booking repository promises, with no transaction, lock, clock  *)
(* or status in sight: every seat has at most one owner, a seat is only    *)
(* ever given to a booking that was holding, and a holder is only owed a   *)
(* refund after its class was found with no free seat.                     *)
(***************************************************************************)
EXTENDS Naturals

CONSTANTS
  Bookings,   (* Every booking that may ever be made.                      *)
  Classes,    (* The trial classes.                                        *)
  Capacity    (* [Classes -> Nat]: how many seats each class has.          *)

VARIABLES
  seen,       (* Bookings that were ever admitted.                         *)
  held,       (* [Classes -> SUBSET Bookings]: holders without a seat.     *)
  owners,     (* [Classes -> [seat -> SUBSET Bookings]]: who has the seat. *)
  refused,    (* Holders whose class was found full, answer not yet given. *)
  owed        (* Bookings owed their money back.                           *)

ledger == <<seen, held, owners, refused, owed>>

Init ==
  /\ seen = {}
  /\ held = [c \in Classes |-> {}]
  /\ owners = [c \in Classes |-> [seat \in 1 .. Capacity[c] |-> {}]]
  /\ refused = {}
  /\ owed = {}

(* A booking takes its place on the payment screen, once in its life.      *)
Admit(b, c) ==
  /\ b \notin seen
  /\ seen' = seen \union {b}
  /\ held' = [held EXCEPT ![c] = @ \union {b}]
  /\ UNCHANGED <<owners, refused, owed>>

(* A holder becomes the owner of a seat nobody has.                        *)
Assign(b, c, seat) ==
  /\ b \in held[c] \ refused
  /\ owners[c][seat] = {}
  /\ owners' = [owners EXCEPT ![c][seat] = {b}]
  /\ held' = [held EXCEPT ![c] = @ \ {b}]
  /\ UNCHANGED <<seen, refused, owed>>

(* A holder is found to be too late: every seat of its class has an owner. *)
Refuse(b, c) ==
  /\ b \in held[c] \ refused
  /\ \A seat \in 1 .. Capacity[c] : owners[c][seat] # {}
  /\ refused' = refused \union {b}
  /\ UNCHANGED <<seen, held, owners, owed>>

(* The refusal is recorded, and the booking's money has to move back.      *)
Owe(b, c) ==
  /\ b \in held[c] \intersect refused
  /\ held' = [held EXCEPT ![c] = @ \ {b}]
  /\ refused' = refused \ {b}
  /\ owed' = owed \union {b}
  /\ UNCHANGED <<seen, owners>>

(* The refusal is forgotten before it was recorded.                        *)
Forget(b) ==
  /\ b \in refused
  /\ refused' = refused \ {b}
  /\ UNCHANGED <<seen, held, owners, owed>>

(* A holder leaves with nothing: declined, lapsed or withdrawn.            *)
Leave(b, c) ==
  /\ b \in held[c] \ refused
  /\ held' = [held EXCEPT ![c] = @ \ {b}]
  /\ UNCHANGED <<seen, owners, refused, owed>>

(* An owner gives the seat back.                                           *)
Vacate(b, c, seat) ==
  /\ owners[c][seat] = {b}
  /\ owners' = [owners EXCEPT ![c][seat] = {}]
  /\ UNCHANGED <<seen, held, refused, owed>>

(* A booking stops being owed a refund.                                    *)
Close(b) ==
  /\ b \in owed
  /\ owed' = owed \ {b}
  /\ UNCHANGED <<seen, held, owners, refused>>

Next ==
  \E b \in Bookings :
    \/ Forget(b)
    \/ Close(b)
    \/ \E c \in Classes :
         \/ Admit(b, c)
         \/ Refuse(b, c)
         \/ Owe(b, c)
         \/ Leave(b, c)
         \/ \E seat \in 1 .. Capacity[c] : Assign(b, c, seat) \/ Vacate(b, c, seat)

Spec == Init /\ [][Next]_ledger
=============================================================================
