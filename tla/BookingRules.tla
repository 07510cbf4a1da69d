---------------------------- MODULE BookingRules ----------------------------
(***************************************************************************)
(* The pure rules of the booking package: the status machine, what a live  *)
(* hold is, how many parents may sit on the payment screen of a class, and *)
(* which seat the next confirmation gets.  No state is kept here.          *)
(***************************************************************************)
EXTENDS Naturals, FiniteSets

(* Sql null for seat_no, and the Go zero time for hold_expires_at.  Seats  *)
(* are numbered from 1 and every deadline is later than the clock's start. *)
NoSeat == 0
NoDeadline == 0

allowedTransitions ==
  [ pending_payment |-> {"confirmed", "payment_failed", "refund_required",
                         "expired", "cancelled"},
    confirmed       |-> {"cancelled"},
    refund_required |-> {"cancelled"},
    payment_failed  |-> {},
    expired         |-> {},
    cancelled       |-> {} ]

Status == DOMAIN allowedTransitions

CanTransition(from, to) ==
  /\ from \in Status
  /\ to \in allowedTransitions[from]

IsLive(status) == status \in {"pending_payment", "confirmed"}

HoldIsLive(deadline, now) == deadline # NoDeadline /\ deadline > now

HoldDeadline(now, ttl) == now + ttl

MaxHolders(capacity, allowance) == capacity + allowance

(* The seats of a class that no booking carries, given the seats taken.    *)
FreeSeats(capacity, taken) == (1 .. capacity) \ taken

(* NoSeat is the "none free" answer.                                       *)
LowestFreeSeat(capacity, taken) ==
  LET free == FreeSeats(capacity, taken)
  IN  IF free = {} THEN NoSeat
      ELSE CHOOSE seat \in free : \A other \in free : seat <= other
=============================================================================
