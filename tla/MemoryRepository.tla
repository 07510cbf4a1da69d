-------------------------- MODULE MemoryRepository --------------------------
(***************************************************************************)
(* The in-memory repository the fast tests run against: every operation in *)
(* one piece under one mutex, as a function from what is stored and what   *)
(* is asked to an answer and what is stored after.  No state is kept here. *)
(* A booking the map has no entry for is a row whose status is "absent".   *)
(***************************************************************************)
EXTENDS BookingRules, Sequences

CONSTANTS Bookings, ParentOf, Capacity, HoldAllowance, MaxHoldsPerParent

Found(store, b) == store.rows[b].status # "absent"

(* Whichever of these the map is at first is the answer.                   *)
LiveBooking(rows, s, c) ==
  {b \in Bookings : rows[b].student = s /\ rows[b].class = c /\ IsLive(rows[b].status)}

hasLiveBooking(rows, s, c) == LiveBooking(rows, s, c) # {}

IsStanding(stored, now) ==
  stored.status = "pending_payment" /\ HoldIsLive(stored.deadline, now)

liveHoldsForParent(rows, p, now) ==
  Cardinality({b \in Bookings : IsStanding(rows[b], now) /\ ParentOf[rows[b].student] = p})

holders(rows, c, now) ==
  Cardinality({b \in Bookings : rows[b].class = c /\ (rows[b].status = "confirmed" \/ IsStanding(rows[b], now))})

seatsTaken(rows, c) ==
  {rows[b].seat : b \in {x \in Bookings : rows[x].class = c /\ rows[x].seat # NoSeat}}

(* What every granted operation does: the row and its audit line.          *)
record(store, b, changed) ==
  [rows |-> [store.rows EXCEPT ![b] = changed],
   events |-> [store.events EXCEPT ![b] = Append(@, [from |-> store.rows[b].status, to |-> changed.status])]]

Granted(store, b, changed) == [answer |-> changed.status, store |-> record(store, b, changed)]
Refused(store, why) == [answer |-> why, store |-> store]

(* A booking that leaves the payment screen for a new status.              *)
Moved(stored, to) == [stored EXCEPT !.status = to, !.deadline = NoDeadline]

Hold(store, b, s, c, now, expiresAt) ==
  IF hasLiveBooking(store.rows, s, c) THEN Refused(store, "ErrAlreadyBooked")
  ELSE IF liveHoldsForParent(store.rows, ParentOf[s], now) >= MaxHoldsPerParent
       THEN Refused(store, "ErrTooManyHolds")
  ELSE IF holders(store.rows, c, now) >= MaxHolders(Capacity[c], HoldAllowance[c])
       THEN Refused(store, "ErrClassFull")
  ELSE Granted(store, b, [status |-> "pending_payment", student |-> s, class |-> c,
                          seat |-> NoSeat, deadline |-> expiresAt])

Confirm(store, b) ==
  LET stored == store.rows[b]
      seat == LowestFreeSeat(Capacity[stored.class], seatsTaken(store.rows, stored.class))
  IN
  IF ~Found(store, b) THEN Refused(store, "ErrBookingNotFound")
  ELSE IF stored.status # "pending_payment" THEN Refused(store, "ErrNotHolding")
  ELSE IF seat = NoSeat THEN Granted(store, b, Moved(stored, "refund_required"))
  ELSE Granted(store, b, [Moved(stored, "confirmed") EXCEPT !.seat = seat])

Cancel(store, b) ==
  IF ~Found(store, b) THEN Refused(store, "ErrBookingNotFound")
  ELSE IF ~CanTransition(store.rows[b].status, "cancelled") THEN Refused(store, "ErrInvalidTransition")
  ELSE Granted(store, b, [Moved(store.rows[b], "cancelled") EXCEPT !.seat = NoSeat])

Fail(store, b) ==
  IF ~Found(store, b) THEN Refused(store, "ErrBookingNotFound")
  ELSE IF store.rows[b].status # "pending_payment" THEN Refused(store, "ErrNotHolding")
  ELSE Granted(store, b, Moved(store.rows[b], "payment_failed"))

Expire(store, b, now) ==
  IF ~Found(store, b) THEN Refused(store, "ErrBookingNotFound")
  ELSE IF store.rows[b].status # "pending_payment" THEN Refused(store, "ErrNotHolding")
  ELSE IF HoldIsLive(store.rows[b].deadline, now) THEN Refused(store, "ErrHoldStillLive")
  ELSE Granted(store, b, Moved(store.rows[b], "expired"))
=============================================================================
