---------------------------- MODULE BookingProofs ----------------------------
(***************************************************************************)
(* The booking transactions are correct for any number of sessions,        *)
(* bookings, children and classes.  The invariant of BookingInvariant is   *)
(* shown inductive, one lemma per kind of step.  The caps follow from what *)
(* a hold counted under the class lock (CountsStand), the agreement with   *)
(* the in-memory repository from what the locks kept in place, and the     *)
(* seat ledger is implemented step by step.                                *)
(***************************************************************************)
EXTENDS BookingAgreement, FiniteSetTheorems, WellFoundedInduction, TLAPS

USE ConstantsAssumption

(* A set of naturals that is not empty has a least element.                *)
LEMMA LeastNatural ==
  ASSUME NEW S, S \subseteq Nat, S # {}
  PROVE  \E least \in S : \A other \in S : least <= other
<1> DEFINE R == OpToRel(<, Nat)
<1>1. IsWellFoundedOn(R, Nat)
  BY NatLessThanWellFounded
<1>2. \A x, y \in Nat : x < y => <<x, y>> \in R
  BY DEF OpToRel
<1> HIDE DEF R
<1>3. PICK least \in S : \A other \in S : <<other, least>> \notin R
  BY <1>1, WFMin
<1>4. ASSUME NEW other \in S PROVE least <= other
  <2>1. least \in Nat /\ other \in Nat
    OBVIOUS
  <2>2. ~(other < least)
    BY <1>2, <1>3, <2>1
  <2>3. QED
    BY <2>1, <2>2
<1>5. QED
  BY <1>4

(* The six statuses, none of which is the mark of an absent row.           *)
LEMMA StatusSet ==
  /\ Status = {"pending_payment", "confirmed", "refund_required",
               "payment_failed", "expired", "cancelled"}
  /\ Absent \notin Status
BY DEF Status, allowedTransitions, Absent

(* The arrows of the status machine that the transactions use.             *)
LEMMA Arrows ==
  /\ \A to \in {"confirmed", "payment_failed", "refund_required", "expired", "cancelled"} :
       CanTransition("pending_payment", to)
  /\ \A from : CanTransition(from, "cancelled") <=>
       from \in {"pending_payment", "confirmed", "refund_required"}
  /\ EndStatus["cancel"] = "cancelled"
  /\ EndStatus["fail"] = "payment_failed"
  /\ EndStatus["expire"] = "expired"
BY DEF CanTransition, Status, allowedTransitions, EndStatus

(* LowestFreeSeat: a seat of the class that is free and below every other  *)
(* free one, or NoSeat exactly when none is free.                          *)
LEMMA LowestFreeSeatIsLowest ==
  ASSUME NEW capacity \in Nat, NEW taken
  PROVE  LET seat == LowestFreeSeat(capacity, taken)
             free == FreeSeats(capacity, taken)
         IN  /\ free = {} => seat = NoSeat
             /\ free # {} => /\ seat \in (1 .. capacity) \ taken
                             /\ \A other \in free : seat <= other
<1> DEFINE free == FreeSeats(capacity, taken)
<1>1. CASE free = {}
  BY <1>1 DEF LowestFreeSeat
<1>2. CASE free # {}
  <2>1. free \subseteq Nat
    BY DEF FreeSeats
  <2>2. \E seat \in free : \A other \in free : seat <= other
    BY <1>2, <2>1, LeastNatural
  <2>3. LowestFreeSeat(capacity, taken)
          = CHOOSE seat \in free : \A other \in free : seat <= other
    BY <1>2 DEF LowestFreeSeat
  <2>4. QED
    BY <1>2, <2>2, <2>3 DEF FreeSeats
<1>3. QED
  BY <1>1, <1>2

(* An idle session is a well-typed session.                                *)
LEMMA IdleType == Idle \in Session
BY StatusSet DEF Idle, Session, Place, NoSeat, Absent

-----------------------------------------------------------------------------
(* The initial state.                                                      *)
LEMMA InitInv == Init => BookingInv
<1> SUFFICES ASSUME Init PROVE BookingInv
  OBVIOUS
<1> USE DEF Init
<1>1. TypeOK
  <2>1. NoRow \in Row
    BY DEF NoRow, Row, NoSeat, NoDeadline
  <2>2. QED
    BY <2>1, IdleType DEF TypeOK
<1>2. LocksAreHeld
  BY DEF LocksAreHeld, HoldsClass, HoldsRow, Idle, Operation
<1>3. RequestsAreWellFormed
  BY DEF RequestsAreWellFormed, Idle
<1>4. RequestsMeetTheirRows /\ ReadsStayTrue
  BY DEF RequestsMeetTheirRows, ReadsStayTrue, ReadsOf, HoldsRow, Idle, Operation
<1>5. RowsAreWellFormed
  BY DEF RowsAreWellFormed
<1>6. SeatAndDeadlineFollowStatus /\ SeatsAreExclusive
  BY DEF SeatAndDeadlineFollowStatus, SeatsAreExclusive, NoRow, NoSeat, NoDeadline, Absent
<1>7. LiveBookingsDiffer
  BY DEF LiveBookingsDiffer, IsLive, NoRow, Absent
<1>8. QED
  BY <1>1, <1>2, <1>3, <1>4, <1>5, <1>6, <1>7 DEF BookingInv

(* A step that leaves the rows alone keeps what is said of rows only.      *)
LEMMA RowsUnchanged ==
  ASSUME BookingInv, UNCHANGED row
  PROVE  /\ RowsAreWellFormed'
         /\ SeatAndDeadlineFollowStatus'
         /\ SeatsAreExclusive'
         /\ LiveBookingsDiffer'
BY DEF BookingInv, RowsAreWellFormed, SeatAndDeadlineFollowStatus, SeatsAreExclusive,
       LiveBookingsDiffer

(* What a session at work names is really there.                           *)
LEMMA RequestTypes ==
  ASSUME BookingInv, NEW t \in Tx, tx[t].at # "idle"
  PROVE  /\ tx[t].booking \in Bookings
         /\ tx[t].op \in Operation
         /\ tx[t].op \in {"hold", "confirm"} => tx[t].class \in Classes
         /\ tx[t].op # "hold" => row[tx[t].booking].class \in Classes
         /\ tx[t].op # "hold" => row[tx[t].booking].student \in Students
<1>1. tx[t].booking \in Bookings /\ tx[t].op \in Operation
  BY DEF BookingInv, RequestsAreWellFormed
<1>2. CASE tx[t].op = "hold"
  BY <1>1, <1>2 DEF BookingInv, RequestsAreWellFormed
<1>3. CASE tx[t].op # "hold"
  <2>1. row[tx[t].booking].status # Absent
    BY <1>1, <1>3 DEF BookingInv, RequestsMeetTheirRows
  <2>2. row[tx[t].booking].class \in Classes /\ row[tx[t].booking].student \in Students
    BY <1>1, <2>1 DEF BookingInv, RowsAreWellFormed, NoRow
  <2>3. tx[t].op = "confirm" => tx[t].class = row[tx[t].booking].class
    BY DEF BookingInv, RequestsMeetTheirRows
  <2>4. QED
    BY <1>1, <1>3, <2>2, <2>3
<1>4. QED
  BY <1>2, <1>3

(* The locks a session relies on are of a class and of a booking.          *)
LEMMA LockTypes ==
  ASSUME BookingInv, NEW t \in Tx
  PROVE  /\ HoldsClass(t) => tx[t].class \in Classes
         /\ HoldsRow(t) => tx[t].booking \in Bookings
BY RequestTypes DEF HoldsClass, HoldsRow

(* Rolling back: the session forgets everything and its locks are free.    *)
LEMMA RollbackInv ==
  ASSUME BookingInv, NEW t \in Tx, Rollback(t)
  PROVE  BookingInv'
<1> USE DEF Rollback, ReleaseLocks, BookingInv
<1>1. TypeOK'
  BY IdleType DEF TypeOK
<1>2. \A u \in Tx \ {t} : tx'[u] = tx[u]
  BY DEF TypeOK
<1>3. tx'[t] = Idle
  BY DEF TypeOK
<1>4. LocksAreHeld'
  <2> SUFFICES ASSUME NEW u \in Tx
               PROVE  /\ HoldsClass(u)' => classLock'[tx'[u].class] = u
                      /\ HoldsRow(u)' => rowLock'[tx'[u].booking] = u
    BY DEF LocksAreHeld
  <2>1. CASE u = t
    BY <2>1, <1>3 DEF HoldsClass, HoldsRow, Idle, Operation
  <2>2. CASE u # t
    BY <2>2, <1>2, LockTypes DEF LocksAreHeld, HoldsClass, HoldsRow, TypeOK
  <2>3. QED
    BY <2>1, <2>2
<1>5. RequestsAreWellFormed'
  BY <1>2, <1>3 DEF RequestsAreWellFormed, Idle
<1>6. RequestsMeetTheirRows'
  <2>1. \A u \in Tx : tx[u].op = "hold" => tx[u].booking # Idle.booking
    BY DEF RequestsAreWellFormed, Idle
  <2>2. Idle.op = "none"
    BY DEF Idle
  <2>3. QED
    BY <1>2, <1>3, <2>1, <2>2 DEF RequestsMeetTheirRows, Operation
<1>7. ReadsStayTrue'
  BY <1>2, <1>3 DEF ReadsStayTrue, ReadsOf, HoldsRow, Idle, Operation, LiveOf, TakenSeats
<1>8. QED
  BY <1>1, <1>4, <1>5, <1>6, <1>7, RowsUnchanged

-----------------------------------------------------------------------------
(* The clock moves on: nothing a session relies on depends on the instant. *)
LEMMA TickInv == BookingInv /\ Tick => BookingInv'
<1> SUFFICES ASSUME BookingInv, Tick PROVE BookingInv'
  OBVIOUS
<1> USE DEF Tick, BookingInv
<1>1. TypeOK'
  BY DEF TypeOK
<1>2. clock \in Nat /\ clock' > clock /\ \A t \in Tx : tx[t].now \in Nat
  BY DEF TypeOK, Session
<1>3. LocksAreHeld' /\ RequestsMeetTheirRows'
  BY DEF LocksAreHeld, RequestsMeetTheirRows, HoldsClass, HoldsRow
<1>4. RequestsAreWellFormed'
  BY <1>2 DEF RequestsAreWellFormed
<1>5. ReadsStayTrue'
  <2>1. \A b \in Bookings : row[b].deadline \in Nat
    BY DEF TypeOK, Row
  <2>2. \A t \in Tx : HoldsRow(t) => tx[t].booking \in Bookings
    BY LockTypes
  <2>3. \A t \in Tx : HoldsRow(t)' <=> HoldsRow(t)
    BY DEF HoldsRow
  <2>4. QED
    BY <1>2, <2>1, <2>2, <2>3 DEF ReadsStayTrue, ReadsOf, LiveOf, TakenSeats
<1>6. QED
  BY <1>1, <1>3, <1>4, <1>5, RowsUnchanged

(* A new request, whatever it is: it holds no lock yet.                    *)
LEMMA BeginInv ==
  ASSUME BookingInv, NEW t \in Tx, Begin(t)
  PROVE  BookingInv'
<1> USE DEF BookingInv
<1>1. PICK b \in Bookings :
        \/ \E s \in Students, c \in Classes : BeginHold(t, b, s, c)
        \/ BeginConfirm(t, b)
        \/ \E op \in {"cancel", "fail", "expire"} : BeginEnding(t, b, op)
  BY DEF Begin
<1>2. UNCHANGED <<clock, row, trail, classLock, rowLock>>
  BY <1>1 DEF BeginHold, BeginConfirm, BeginEnding
<1>3. \A u \in Tx \ {t} : tx'[u] = tx[u]
  BY <1>1 DEF BeginHold, BeginConfirm, BeginEnding, TypeOK
<1>4. clock \in Nat /\ row[b] \in Row
  BY DEF TypeOK
<1>5. CASE \E s \in Students, c \in Classes : BeginHold(t, b, s, c)
  <2>1. PICK s \in Students, c \in Classes : BeginHold(t, b, s, c)
    BY <1>5
  <2>2. tx'[t] = [op |-> "hold", at |-> "lockClass", booking |-> b, student |-> s,
                  class |-> c, now |-> clock, from |-> Absent, to |-> "pending_payment",
                  seat |-> NoSeat]
    BY <2>1 DEF BeginHold, Idle, TypeOK
  <2>3. TypeOK'
    <3>1. tx'[t] \in Session
      BY <2>2, <1>4, StatusSet DEF Session, Operation, Place, NoSeat
    <3>2. tx' = [tx EXCEPT ![t] = tx'[t]]
      BY <2>1 DEF BeginHold, TypeOK
    <3>3. QED
      BY <3>1, <3>2, <1>2 DEF TypeOK
  <2>4. LocksAreHeld'
    BY <1>2, <1>3, <2>2 DEF LocksAreHeld, HoldsClass, HoldsRow, Operation
  <2>5. RequestsAreWellFormed'
    BY <1>2, <1>3, <1>4, <2>2 DEF RequestsAreWellFormed, Operation
  <2>6. RequestsMeetTheirRows'
    <3>1. row[b].status = Absent /\ \A u \in Tx : tx[u].booking # b
      BY <2>1 DEF BeginHold
    <3>2. QED
      BY <1>2, <1>3, <2>2, <3>1 DEF RequestsMeetTheirRows, Operation
  <2>7. ReadsStayTrue'
    BY <1>2, <1>3, <2>2 DEF ReadsStayTrue, ReadsOf, HoldsRow, Operation, LiveOf, TakenSeats
  <2>8. QED
    BY <1>2, <2>3, <2>4, <2>5, <2>6, <2>7, RowsUnchanged
<1>6. CASE BeginConfirm(t, b) \/ \E op \in {"cancel", "fail", "expire"} : BeginEnding(t, b, op)
  <2>1. PICK op \in {"confirm", "cancel", "fail", "expire"} :
          /\ row[b].status # Absent
          /\ tx'[t] = [op |-> op, at |-> IF op = "confirm" THEN "lockClass" ELSE "lockRow",
                       booking |-> b, student |-> None,
                       class |-> IF op = "confirm" THEN row[b].class ELSE None,
                       now |-> clock, from |-> Absent, to |-> Absent, seat |-> NoSeat]
          /\ tx' = [tx EXCEPT ![t] = tx'[t]]
    BY <1>6 DEF BeginConfirm, BeginEnding, Idle, TypeOK
  <2>2. TypeOK'
    <3>1. tx'[t] \in Session
      BY <2>1, <1>4, StatusSet DEF Session, Operation, Place, NoSeat, Row
    <3>2. QED
      BY <3>1, <2>1, <1>2 DEF TypeOK
  <2>3. LocksAreHeld'
    BY <1>2, <1>3, <2>1 DEF LocksAreHeld, HoldsClass, HoldsRow, Operation
  <2>4. RequestsAreWellFormed'
    BY <1>2, <1>3, <1>4, <2>1 DEF RequestsAreWellFormed, Operation
  <2>5. RequestsMeetTheirRows'
    BY <1>2, <1>3, <2>1 DEF RequestsMeetTheirRows, Operation
  <2>6. ReadsStayTrue'
    BY <1>2, <1>3, <2>1 DEF ReadsStayTrue, ReadsOf, HoldsRow, Operation, LiveOf, TakenSeats
  <2>7. QED
    BY <1>2, <2>2, <2>3, <2>4, <2>5, <2>6, RowsUnchanged
<1>7. QED
  BY <1>1, <1>5, <1>6

-----------------------------------------------------------------------------
(* The class lock is granted only when nobody has it.                      *)
LEMMA LockClassInv ==
  ASSUME BookingInv, NEW t \in Tx, LockClass(t)
  PROVE  BookingInv'
<1> USE DEF BookingInv, LockClass, Advance
<1>1. tx[t].op \in {"hold", "confirm"} /\ tx[t].class \in Classes /\ tx[t].at = "lockClass"
  BY RequestTypes DEF RequestsAreWellFormed, Operation
<1>2. \A u \in Tx \ {t} : tx'[u] = tx[u]
  BY DEF TypeOK
<1>3. tx'[t] = [tx[t] EXCEPT !.at = IF tx[t].op = "hold" THEN "duplicates" ELSE "lockRow"]
  BY DEF TypeOK
<1>4. tx[t] \in Session
  BY DEF TypeOK
<1>5. /\ tx'[t].op = tx[t].op /\ tx'[t].booking = tx[t].booking
      /\ tx'[t].student = tx[t].student /\ tx'[t].class = tx[t].class
      /\ tx'[t].now = tx[t].now /\ tx'[t].from = tx[t].from /\ tx'[t].to = tx[t].to
      /\ tx'[t].at = IF tx[t].op = "hold" THEN "duplicates" ELSE "lockRow"
  BY <1>3, <1>4 DEF Session
<1>6. TypeOK'
  <2>1. tx'[t] \in Session
    BY <1>3, <1>4 DEF Session, Place
  <2>2. QED
    BY <2>1, <1>1 DEF TypeOK
<1>7. LocksAreHeld'
  <2>1. classLock'[tx[t].class] = t
    BY <1>1 DEF TypeOK
  <2>2. \A u \in Tx \ {t} : HoldsClass(u) => classLock'[tx[u].class] = u
    BY <1>1, LockTypes DEF LocksAreHeld, TypeOK
  <2>3. QED
    BY <2>1, <2>2, <1>2, <1>5 DEF LocksAreHeld, HoldsClass, HoldsRow
<1>8. RequestsAreWellFormed'
  BY <1>1, <1>2, <1>5 DEF RequestsAreWellFormed, Operation
<1>9. RequestsMeetTheirRows'
  BY <1>2, <1>5 DEF RequestsMeetTheirRows
<1>10. ReadsStayTrue'
  BY <1>1, <1>2, <1>5 DEF ReadsStayTrue, ReadsOf, HoldsRow, LiveOf, TakenSeats
<1>11. QED
  BY <1>6, <1>7, <1>8, <1>9, <1>10, RowsUnchanged

(* Hold's counts either end the transaction or move it on, with nothing    *)
(* but its place changed; after the first one the child has no live        *)
(* booking in the class.                                                   *)
LEMMA CountInv ==
  ASSUME BookingInv, NEW t \in Tx,
         CountDuplicates(t) \/ CountStanding(t) \/ CountHolders(t)
  PROVE  BookingInv'
<1> USE DEF BookingInv
<1>1. CASE Rollback(t)
  BY <1>1, RollbackInv
<1>2. CASE ~Rollback(t)
  <2>1. PICK place \in {"standing", "holders", "commit"} :
          /\ tx' = [tx EXCEPT ![t].at = place]
          /\ tx[t].at \in {"duplicates", "standing", "holders"}
          /\ UNCHANGED <<clock, row, trail, classLock, rowLock>>
          /\ LiveOf(tx[t].student, tx[t].class) = {} \/ tx[t].at \in {"standing", "holders"}
    BY <1>2 DEF CountDuplicates, CountStanding, CountHolders, Advance
  <2>2. tx[t].op = "hold"
    BY <2>1, RequestTypes DEF RequestsAreWellFormed, Operation
  <2>3. \A u \in Tx \ {t} : tx'[u] = tx[u]
    BY <2>1 DEF TypeOK
  <2>4. tx[t] \in Session /\ tx'[t] = [tx[t] EXCEPT !.at = place]
    BY <2>1 DEF TypeOK
  <2>5. /\ tx'[t].op = tx[t].op /\ tx'[t].booking = tx[t].booking
        /\ tx'[t].student = tx[t].student /\ tx'[t].class = tx[t].class
        /\ tx'[t].now = tx[t].now /\ tx'[t].from = tx[t].from /\ tx'[t].to = tx[t].to
        /\ tx'[t].at = place
    BY <2>4 DEF Session
  <2>6. TypeOK'
    <3>1. tx'[t] \in Session
      BY <2>4 DEF Session, Place
    <3>2. QED
      BY <3>1, <2>1 DEF TypeOK
  <2>7. LocksAreHeld'
    BY <2>1, <2>2, <2>3, <2>5 DEF LocksAreHeld, HoldsClass, HoldsRow
  <2>8. RequestsAreWellFormed'
    BY <2>1, <2>2, <2>3, <2>5 DEF RequestsAreWellFormed
  <2>9. RequestsMeetTheirRows'
    BY <2>1, <2>3, <2>5 DEF RequestsMeetTheirRows
  <2>10. ReadsStayTrue'
    <3>1. LiveOf(tx[t].student, tx[t].class) = {}
      BY <2>1, <2>2 DEF ReadsStayTrue, ReadsOf
    <3>2. QED
      BY <2>1, <2>2, <2>3, <2>5, <3>1 DEF ReadsStayTrue, ReadsOf, HoldsRow, LiveOf, TakenSeats
  <2>11. QED
    BY <2>1, <2>6, <2>7, <2>8, <2>9, <2>10, RowsUnchanged
<1>3. QED
  BY <1>1, <1>2

(* A booking's own lock, and what the row must be once it is granted.      *)
LEMMA LockRowInv ==
  ASSUME BookingInv, NEW t \in Tx, LockRow(t)
  PROVE  BookingInv'
<1> USE DEF BookingInv
<1>1. CASE Rollback(t)
  BY <1>1, RollbackInv
<1>2. CASE ~Rollback(t)
  <2> DEFINE b == tx[t].booking
             op == tx[t].op
  <2>1. /\ tx[t].at = "lockRow"
        /\ rowLock[b] = None
        /\ MayProceed(op, row[b], tx[t].now)
        /\ rowLock' = [rowLock EXCEPT ![b] = t]
        /\ tx' = [tx EXCEPT ![t].from = row[b].status,
                            ![t].to = IF op = "confirm" THEN Absent ELSE EndStatus[op],
                            ![t].at = IF op = "confirm" THEN "chooseSeat" ELSE "commit"]
        /\ UNCHANGED <<clock, row, trail, classLock>>
    BY <1>2 DEF LockRow
  <2>2. b \in Bookings /\ op \in {"confirm", "cancel", "fail", "expire"}
    BY <2>1, RequestTypes DEF RequestsAreWellFormed, Operation
  <2>3. \A u \in Tx \ {t} : tx'[u] = tx[u]
    BY <2>1 DEF TypeOK
  <2>4. /\ tx[t] \in Session /\ row[b] \in Row
        /\ tx'[t] = [tx[t] EXCEPT !.from = row[b].status,
                                  !.to = IF op = "confirm" THEN Absent ELSE EndStatus[op],
                                  !.at = IF op = "confirm" THEN "chooseSeat" ELSE "commit"]
    BY <2>1, <2>2 DEF TypeOK
  <2>5. /\ tx'[t].op = tx[t].op /\ tx'[t].booking = tx[t].booking
        /\ tx'[t].student = tx[t].student /\ tx'[t].class = tx[t].class
        /\ tx'[t].now = tx[t].now /\ tx'[t].from = row[b].status
        /\ tx[t].op = "confirm" => tx'[t].at = "chooseSeat" /\ tx'[t].to = Absent
        /\ tx[t].op # "confirm" => tx'[t].at = "commit" /\ tx'[t].to = EndStatus[op]
    BY <2>4 DEF Session
  <2>u. UNCHANGED <<clock, row, trail, classLock>> /\ tx[t].at = "lockRow"
    BY <2>1
  <2>6. TypeOK'
    <3>1. tx'[t].to \in Status \union {Absent}
      BY <2>2, <2>5, Arrows, StatusSet
    <3>2. tx'[t] \in Session
      BY <3>1, <2>4, <2>5 DEF Session, Place, Row
    <3>3. QED
      BY <3>2, <2>1, <2>2 DEF TypeOK
  <2>7. LocksAreHeld'
    <3>1. rowLock'[b] = t
      BY <2>1, <2>2 DEF TypeOK
    <3>2. \A u \in Tx \ {t} : HoldsRow(u) => rowLock'[tx[u].booking] = u
      BY <2>1, <2>2, LockTypes DEF LocksAreHeld, TypeOK
    <3>3. op = "confirm" => classLock[tx[t].class] = t
      BY <2>1 DEF LocksAreHeld, HoldsClass
    <3>4. QED
      BY <3>1, <3>2, <3>3, <2>u, <2>2, <2>3, <2>5 DEF LocksAreHeld, HoldsClass, HoldsRow
  <2>8. RequestsAreWellFormed'
    BY <2>u, <2>2, <2>3, <2>5 DEF RequestsAreWellFormed, Operation
  <2>9. RequestsMeetTheirRows'
    BY <2>u, <2>3, <2>5 DEF RequestsMeetTheirRows
  <2>10. ReadsStayTrue'
    <3>1. /\ op # "cancel" => row[b].status = "pending_payment"
          /\ op = "cancel" => CanTransition(row[b].status, "cancelled")
      BY <2>1 DEF MayProceed
    <3>2. op = "expire" => row[b].deadline <= tx[t].now
      <4>1. tx[t].now \in Nat /\ row[b].deadline \in Nat
        BY <2>4 DEF Session, Row
      <4>2. QED
        BY <2>1, <4>1 DEF MayProceed, HoldIsLive, NoDeadline
    <3>3. QED
      BY <3>1, <3>2, <2>u, <2>2, <2>3, <2>5 DEF ReadsStayTrue, ReadsOf, HoldsRow, LiveOf, TakenSeats
  <2>11. QED
    BY <2>1, <2>6, <2>7, <2>8, <2>9, <2>10, RowsUnchanged
<1>3. QED
  BY <1>1, <1>2

(* The seat query: what it answers is a seat no booking of the class has.  *)
LEMMA ChooseSeatInv ==
  ASSUME BookingInv, NEW t \in Tx, ChooseSeat(t)
  PROVE  BookingInv'
<1> USE DEF BookingInv
<1> DEFINE class == tx[t].class
           seat == LowestFreeSeat(Capacity[class], TakenSeats(class))
           target == IF seat = NoSeat THEN "refund_required" ELSE "confirmed"
<1>1. /\ tx[t].at = "chooseSeat"
      /\ tx' = [tx EXCEPT ![t].seat = seat, ![t].at = "commit", ![t].to = target]
      /\ UNCHANGED <<clock, row, trail, classLock, rowLock>>
  BY DEF ChooseSeat
<1>2. /\ tx[t].op = "confirm"
      /\ class \in Classes
      /\ tx[t].booking \in Bookings
  BY <1>1, RequestTypes DEF RequestsAreWellFormed, Operation
<1>3. seat \in Nat /\ (seat # NoSeat => seat \in (1 .. Capacity[class]) \ TakenSeats(class))
  <2>1. Capacity[class] \in Nat
    BY <1>2
  <2>2. QED
    BY <2>1, LowestFreeSeatIsLowest DEF NoSeat
<1>4. tx[t] \in Session /\ \A u \in Tx \ {t} : tx'[u] = tx[u]
  BY <1>1 DEF TypeOK
<1> HIDE DEF seat
<1>5. tx'[t] = [tx[t] EXCEPT !.seat = seat, !.at = "commit", !.to = target]
  BY <1>1 DEF TypeOK
<1>6. /\ tx'[t].op = tx[t].op /\ tx'[t].booking = tx[t].booking
      /\ tx'[t].student = tx[t].student /\ tx'[t].class = tx[t].class
      /\ tx'[t].now = tx[t].now /\ tx'[t].from = tx[t].from
      /\ tx'[t].seat = seat /\ tx'[t].at = "commit" /\ tx'[t].to = target
  BY <1>4, <1>5 DEF Session
<1>7. TypeOK'
  <2>1. target \in Status
    BY StatusSet
  <2>2. tx'[t] \in Session
    BY <1>3, <1>4, <1>5, <2>1 DEF Session, Place
  <2>3. QED
    BY <1>1, <2>2 DEF TypeOK
<1>8. UNCHANGED <<clock, row, trail, classLock, rowLock>> /\ tx[t].at = "chooseSeat"
  BY <1>1
<1>9. LocksAreHeld'
  BY <1>2, <1>4, <1>6, <1>8 DEF LocksAreHeld, HoldsClass, HoldsRow
<1>10. RequestsAreWellFormed'
  BY <1>2, <1>4, <1>6, <1>8 DEF RequestsAreWellFormed
<1>11. RequestsMeetTheirRows'
  BY <1>2, <1>4, <1>6, <1>8 DEF RequestsMeetTheirRows
<1>12. ReadsStayTrue'
  <2>1. \/ target = "refund_required"
        \/ target = "confirmed" /\ seat \in 1 .. Capacity[class] /\ seat \notin TakenSeats(class)
    BY <1>3
  <2>2. QED
    BY <1>2, <1>4, <1>6, <1>8, <2>1 DEF ReadsStayTrue, ReadsOf, HoldsRow, LiveOf, TakenSeats
<1>13. QED
  BY <1>7, <1>8, <1>9, <1>10, <1>11, <1>12, RowsUnchanged
-----------------------------------------------------------------------------
(* What a commit writes: an insert takes an untouched row to a standing    *)
(* hold, any other operation moves its row along an arrow, and only a      *)
(* confirmation leaves a seat behind.                                      *)
LEMMA CommitWrites ==
  ASSUME BookingInv, NEW t \in Tx, Commit(t), NEW b, b = tx[t].booking
  PROVE  /\ b \in Bookings /\ row'[b] \in Row
         /\ \A x \in Bookings \ {b} : row'[x] = row[x]
         /\ tx[t].to \in Status /\ row'[b].status = tx[t].to
         /\ \/ /\ tx[t].op = "hold"
               /\ row[b] = NoRow
               /\ tx[t].to = "pending_payment"
               /\ row'[b].seat = NoSeat
               /\ row'[b].deadline = tx[t].now + HoldTTL
               /\ row'[b].student = tx[t].student /\ tx[t].student \in Students
               /\ row'[b].class = tx[t].class /\ tx[t].class \in Classes
            \/ /\ HoldsRow(t)
               /\ row[b].status \in Status
               /\ CanTransition(row[b].status, tx[t].to)
               /\ row'[b].seat = IF tx[t].to = "confirmed" THEN tx[t].seat ELSE NoSeat
               /\ tx[t].to = "confirmed" =>
                    /\ tx[t].op = "confirm" /\ tx[t].class = row[b].class
                    /\ row[b].status = "pending_payment"
                    /\ tx[t].seat \in 1 .. Capacity[tx[t].class]
                    /\ tx[t].seat \notin TakenSeats(tx[t].class)
               /\ tx[t].to \in {"confirmed", "refund_required", "payment_failed", "expired", "cancelled"}
               /\ tx[t].to = "expired" => row[b].deadline <= clock
               /\ row'[b].deadline = NoDeadline
               /\ row'[b].student = row[b].student /\ row[b].student \in Students
               /\ row'[b].class = row[b].class /\ row[b].class \in Classes
<1> USE DEF BookingInv
<1>1. tx[t].at = "commit" /\ row' = [row EXCEPT ![b] = Written(tx[t])]
  BY DEF Commit
<1>2. b \in Bookings /\ tx[t] \in Session /\ row[b] \in Row
  BY <1>1, RequestTypes DEF TypeOK
<1>3. row'[b] = Written(tx[t]) /\ \A x \in Bookings \ {b} : row'[x] = row[x]
  BY <1>1, <1>2 DEF TypeOK
<1>4. CASE tx[t].op = "hold"
  <2>1. /\ tx[t].to = "pending_payment" /\ row[b].status = Absent
        /\ tx[t].student \in Students /\ tx[t].class \in Classes /\ tx[t].now \in Nat
    BY <1>2, <1>4 DEF RequestsAreWellFormed, RequestsMeetTheirRows, Session
  <2>2. row[b] = NoRow
    BY <1>2, <2>1, StatusSet DEF RowsAreWellFormed
  <2>3. row'[b] = [status |-> "pending_payment", student |-> tx[t].student,
                   class |-> tx[t].class, seat |-> NoSeat, deadline |-> tx[t].now + HoldTTL]
    BY <1>3, <1>4 DEF Written, HoldDeadline
  <2>4. row'[b] \in Row
    BY <2>1, <2>3, StatusSet DEF Row, NoSeat
  <2>5. QED
    BY <1>2, <1>3, <1>4, <2>1, <2>2, <2>3, <2>4, StatusSet
<1>5. CASE tx[t].op # "hold"
  <2>1. tx[t].op \in {"confirm", "cancel", "fail", "expire"} /\ HoldsRow(t)
    BY <1>1, <1>5, RequestTypes DEF HoldsRow, Operation
  <2>2. /\ row[b].status \in Status
        /\ row[b].student \in Students /\ row[b].class \in Classes
    BY <1>1, <1>2, <1>5, <2>1 DEF RequestsMeetTheirRows, RowsAreWellFormed, NoRow, Operation
  <2>3. /\ tx[t].op # "cancel" => row[b].status = "pending_payment"
        /\ tx[t].op = "cancel" => CanTransition(row[b].status, "cancelled")
        /\ tx[t].op = "expire" => row[b].deadline <= clock
    <3>1. tx[t].now \in Nat /\ clock \in Nat /\ tx[t].now <= clock /\ row[b].deadline \in Nat
      BY <1>1, <1>2 DEF RequestsAreWellFormed, TypeOK, Session, Row
    <3>2. QED
      BY <2>1, <3>1 DEF ReadsStayTrue, ReadsOf
  <2>4. /\ tx[t].op = "cancel" => tx[t].to = "cancelled"
        /\ tx[t].op = "fail" => tx[t].to = "payment_failed"
        /\ tx[t].op = "expire" => tx[t].to = "expired"
    BY <1>1, Arrows DEF ReadsStayTrue, ReadsOf
  <2>5. tx[t].op = "confirm" =>
          /\ tx[t].class = row[b].class
          /\ \/ tx[t].to = "refund_required"
             \/ /\ tx[t].to = "confirmed"
                /\ tx[t].seat \in 1 .. Capacity[tx[t].class]
                /\ tx[t].seat \notin TakenSeats(tx[t].class)
    BY <1>1 DEF ReadsStayTrue, ReadsOf, RequestsMeetTheirRows
  <2>6. row[b].status = "pending_payment" => row[b].seat = NoSeat
    BY <1>2 DEF SeatAndDeadlineFollowStatus
  <2>7. row'[b] = [row[b] EXCEPT !.status = tx[t].to, !.deadline = NoDeadline,
                     !.seat = IF tx[t].to = "confirmed" THEN tx[t].seat
                              ELSE IF tx[t].to = "cancelled" THEN NoSeat ELSE @]
    BY <1>3, <1>5 DEF Written
  <2>8. /\ row'[b].status = tx[t].to
        /\ row'[b].deadline = NoDeadline
        /\ row'[b].student = row[b].student /\ row'[b].class = row[b].class
        /\ row'[b].seat = IF tx[t].to = "confirmed" THEN tx[t].seat
                          ELSE IF tx[t].to = "cancelled" THEN NoSeat ELSE row[b].seat
    BY <1>2, <2>7 DEF Row
  <2>9. tx[t].to \in {"confirmed", "refund_required", "payment_failed", "expired", "cancelled"}
    BY <2>1, <2>4, <2>5
  <2>10. row'[b] \in Row
    <3> DEFINE seat == IF tx[t].to = "confirmed" THEN tx[t].seat
                       ELSE IF tx[t].to = "cancelled" THEN NoSeat ELSE row[b].seat
    <3>1. seat \in Nat /\ tx[t].to \in Status /\ NoDeadline \in Nat
      BY <1>2, <2>9, StatusSet DEF Row, Session, NoSeat, NoDeadline
    <3>2. row'[b] = [row[b] EXCEPT !.status = tx[t].to, !.deadline = NoDeadline, !.seat = seat]
      BY <2>7
    <3> HIDE DEF seat
    <3>3. QED
      BY <1>2, <3>1, <3>2 DEF Row
  <2>11. CanTransition(row[b].status, tx[t].to)
    BY <2>1, <2>3, <2>4, <2>9, Arrows
  <2>12. row'[b].seat = IF tx[t].to = "confirmed" THEN tx[t].seat ELSE NoSeat
    BY <2>1, <2>3, <2>4, <2>5, <2>6, <2>8
  <2>13. tx[t].to = "confirmed" => tx[t].op = "confirm"
    BY <2>1, <2>4
  <2>14. tx[t].to = "expired" => row[b].deadline <= clock
    BY <2>1, <2>3, <2>4, <2>5
  <2>15. tx[t].to \in Status
    BY <2>9, StatusSet
  <2>16. QED
    BY <1>2, <1>3, <2>1, <2>2, <2>3, <2>5, <2>8, <2>9, <2>10, <2>11, <2>12, <2>13, <2>14, <2>15
<1>6. QED
  BY <1>4, <1>5

(* A commit disturbs no other session: nobody else works on this row, and  *)
(* nobody else gives a seat or a place in a class whose lock is held.      *)
LEMMA CommitInv ==
  ASSUME BookingInv, NEW t \in Tx, Commit(t)
  PROVE  BookingInv'
<1> USE DEF BookingInv
<1> DEFINE b == tx[t].booking
<1>1. /\ tx[t].at = "commit"
      /\ row' = [row EXCEPT ![b] = row'[b]]
      /\ trail' = [trail EXCEPT ![b] = Append(@, [from |-> tx[t].from, to |-> tx[t].to])]
      /\ tx' = [tx EXCEPT ![t] = Idle]
      /\ ReleaseLocks(t)
      /\ UNCHANGED clock
  BY CommitWrites DEF Commit, TypeOK
<1>2. /\ b \in Bookings /\ row'[b] \in Row
      /\ \A x \in Bookings \ {b} : row'[x] = row[x]
      /\ tx[t].to \in Status /\ row'[b].status = tx[t].to
  BY CommitWrites
<1>3. tx'[t] = Idle /\ \A u \in Tx \ {t} : tx'[u] = tx[u]
  BY <1>1 DEF TypeOK
<1>4. tx[t].op = "hold" \/ HoldsRow(t)
  BY CommitWrites
<1>5. ASSUME tx[t].op = "hold"
      PROVE  /\ RequestsMeetTheirRows' /\ ReadsStayTrue' /\ RowsAreWellFormed'
             /\ SeatAndDeadlineFollowStatus' /\ SeatsAreExclusive' /\ LiveBookingsDiffer'
  <2> USE <1>5
  <2>1. /\ row[b] = NoRow /\ tx[t].to = "pending_payment"
        /\ row'[b].seat = NoSeat /\ row'[b].deadline = tx[t].now + HoldTTL
        /\ row'[b].student = tx[t].student /\ tx[t].student \in Students
        /\ row'[b].class = tx[t].class /\ tx[t].class \in Classes
    BY CommitWrites DEF HoldsRow
  <2>2. LiveOf(tx[t].student, tx[t].class) = {} /\ classLock[tx[t].class] = t
    BY <1>1 DEF ReadsStayTrue, ReadsOf, LocksAreHeld, HoldsClass
  <2>3. \A u \in Tx \ {t} : tx[u].booking # b
    BY DEF RequestsMeetTheirRows
  <2>4. RequestsMeetTheirRows'
    BY <1>2, <1>3, <2>3, LockTypes, RequestTypes
       DEF RequestsMeetTheirRows, RequestsAreWellFormed, Idle, Operation
  <2>5. ReadsStayTrue'
    <3>1. \A u \in Tx \ {t} : TakenSeats(tx[u].class)' = TakenSeats(tx[u].class)
      BY <1>2, <1>3, <2>1 DEF TakenSeats, NoRow
    <3>2. ASSUME NEW u \in Tx \ {t}, tx[u].op = "hold", tx[u].at \in {"standing", "holders", "commit"}
          PROVE  LiveOf(tx[u].student, tx[u].class)' = {}
      <4>1. tx[u].class # tx[t].class
        BY <2>2, <3>2 DEF LocksAreHeld, HoldsClass
      <4>2. LiveOf(tx[u].student, tx[u].class) = {}
        BY <3>2 DEF ReadsStayTrue, ReadsOf
      <4>3. QED
        BY <1>2, <1>3, <2>1, <4>1, <4>2 DEF LiveOf
    <3>3. \A u \in Tx \ {t} : HoldsRow(u) => row'[tx[u].booking] = row[tx[u].booking]
      BY <1>2, <2>3, LockTypes
    <3>4. ASSUME NEW u \in Tx \ {t} PROVE ReadsOf(u)'
      <4>1. ReadsOf(u) /\ tx'[u] = tx[u] /\ clock' = clock
        BY <1>1, <1>3 DEF ReadsStayTrue
      <4>2. HoldsRow(u)' <=> HoldsRow(u)
        BY <4>1 DEF HoldsRow
      <4>3. QED
        BY <3>1, <3>2, <3>3, <4>1, <4>2 DEF ReadsOf
    <3>5. ReadsOf(t)'
      BY <1>3 DEF ReadsOf, HoldsRow, Idle, Operation
    <3>6. QED
      BY <3>4, <3>5 DEF ReadsStayTrue
  <2>6. SeatAndDeadlineFollowStatus'
    <3>1. row'[b].deadline # NoDeadline
      BY <2>1 DEF NoDeadline, TypeOK, Session
    <3>2. QED
      BY <1>2, <2>1, <3>1 DEF SeatAndDeadlineFollowStatus
  <2>7. SeatsAreExclusive'
    BY <1>2, <2>1 DEF SeatsAreExclusive
  <2>8. LiveBookingsDiffer'
    BY <1>2, <2>1, <2>2 DEF LiveBookingsDiffer, LiveOf
  <2>9. RowsAreWellFormed'
    BY <1>2, <2>1 DEF RowsAreWellFormed
  <2>10. QED
    BY <2>4, <2>5, <2>6, <2>7, <2>8, <2>9
<1>6. ASSUME tx[t].op # "hold"
      PROVE  /\ RequestsMeetTheirRows' /\ ReadsStayTrue' /\ RowsAreWellFormed'
             /\ SeatAndDeadlineFollowStatus' /\ SeatsAreExclusive' /\ LiveBookingsDiffer'
  <2>1. /\ HoldsRow(t)
        /\ row[b].status \in Status /\ CanTransition(row[b].status, tx[t].to)
        /\ row'[b].seat = IF tx[t].to = "confirmed" THEN tx[t].seat ELSE NoSeat
        /\ tx[t].to = "confirmed" =>
             /\ tx[t].op = "confirm" /\ tx[t].class = row[b].class
             /\ row[b].status = "pending_payment"
             /\ tx[t].seat \in 1 .. Capacity[tx[t].class]
             /\ tx[t].seat \notin TakenSeats(tx[t].class)
        /\ tx[t].to \in {"confirmed", "refund_required", "payment_failed", "expired", "cancelled"}
        /\ row'[b].deadline = NoDeadline
        /\ row'[b].student = row[b].student /\ row[b].student \in Students
        /\ row'[b].class = row[b].class /\ row[b].class \in Classes
    BY <1>6, CommitWrites
  <2>2. \A u \in Tx \ {t} : HoldsRow(u) => tx[u].booking # b
    BY <2>1 DEF LocksAreHeld
  <2>3. tx[t].to = "confirmed" => classLock[row[b].class] = t
    BY <1>1, <2>1 DEF LocksAreHeld, HoldsClass
  <2>4. \A x \in Bookings : row'[x].class = row[x].class /\ row'[x].student = row[x].student
    BY <1>2, <2>1
  <2>5. RequestsMeetTheirRows'
    <3>1. \A x \in Bookings : row[x].status # Absent <=> row'[x].status # Absent
      BY <1>2, <2>1, StatusSet
    <3>2. Idle.op = "none" /\ Idle.booking = None
      BY DEF Idle
    <3>3. \A u \in Tx : tx[u].op # "none" => tx[u].booking \in Bookings
      BY DEF RequestsAreWellFormed, Idle
    <3>4. QED
      BY <1>3, <2>4, <3>1, <3>2, <3>3 DEF RequestsMeetTheirRows, Operation
  <2>6. ReadsStayTrue'
    <3>1. ASSUME NEW u \in Tx \ {t}, tx[u].op = "confirm", tx[u].at = "commit",
                 tx[u].seat \notin TakenSeats(tx[u].class), tx[u].seat \in 1 .. Capacity[tx[u].class]
          PROVE  tx[u].seat \notin TakenSeats(tx[u].class)'
      <4>1. classLock[tx[u].class] = u
        BY <3>1 DEF LocksAreHeld, HoldsClass
      <4>2. row[b].class = tx[u].class => row'[b].seat = NoSeat
        BY <2>1, <2>3, <4>1
      <4>3. QED
        BY <1>2, <1>3, <2>4, <3>1, <4>2 DEF TakenSeats
    <3>2. ASSUME NEW u \in Tx \ {t}, LiveOf(tx[u].student, tx[u].class) = {}
          PROVE  LiveOf(tx[u].student, tx[u].class)' = {}
      BY <1>2, <1>3, <2>1, <2>4, <3>2 DEF LiveOf, IsLive
    <3>3. \A u \in Tx \ {t} : HoldsRow(u) => row'[tx[u].booking] = row[tx[u].booking]
      BY <1>2, <2>2, LockTypes
    <3>4. ASSUME NEW u \in Tx \ {t} PROVE ReadsOf(u)'
      <4>1. ReadsOf(u) /\ tx'[u] = tx[u] /\ clock' = clock
        BY <1>1, <1>3 DEF ReadsStayTrue
      <4>2. HoldsRow(u)' <=> HoldsRow(u)
        BY <4>1 DEF HoldsRow
      <4>3. QED
        BY <3>1, <3>2, <3>3, <4>1, <4>2 DEF ReadsOf
    <3>5. ReadsOf(t)'
      BY <1>3 DEF ReadsOf, HoldsRow, Idle, Operation
    <3>6. QED
      BY <3>4, <3>5 DEF ReadsStayTrue
  <2>7. SeatAndDeadlineFollowStatus'
    BY <1>2, <2>1 DEF SeatAndDeadlineFollowStatus, NoSeat
  <2>8. SeatsAreExclusive'
    BY <1>2, <2>1 DEF SeatsAreExclusive, TakenSeats, NoSeat
  <2>9. LiveBookingsDiffer'
    BY <1>2, <2>1 DEF LiveBookingsDiffer, IsLive
  <2>10. RowsAreWellFormed'
    BY <1>2, <2>1 DEF RowsAreWellFormed
  <2>11. QED
    BY <2>5, <2>6, <2>7, <2>8, <2>9, <2>10
<1>7. TypeOK'
  <2>1. tx[t].from \in Status \union {Absent}
    BY DEF TypeOK, Session
  <2>2. [from |-> tx[t].from, to |-> tx[t].to] \in Event
    BY <1>2, <2>1 DEF Event
  <2>3. trail' \in [Bookings -> Seq(Event)]
    BY <1>1, <1>2, <2>2 DEF TypeOK
  <2>4. row' \in [Bookings -> Row]
    BY <1>1, <1>2 DEF TypeOK
  <2>5. classLock' \in [Classes -> Tx \union {None}] /\ rowLock' \in [Bookings -> Tx \union {None}]
    BY <1>1 DEF ReleaseLocks, TypeOK
  <2>6. QED
    BY <1>1, <2>3, <2>4, <2>5, IdleType DEF TypeOK
<1>8. LocksAreHeld'
  <2>1. ~HoldsClass(t)' /\ ~HoldsRow(t)'
    BY <1>3 DEF HoldsClass, HoldsRow, Idle, Operation
  <2>2. \A u \in Tx \ {t} : (HoldsClass(u)' <=> HoldsClass(u)) /\ (HoldsRow(u)' <=> HoldsRow(u))
    BY <1>3 DEF HoldsClass, HoldsRow
  <2>3. QED
    BY <1>1, <1>3, <2>1, <2>2, LockTypes DEF LocksAreHeld, ReleaseLocks, TypeOK
<1>9. RequestsAreWellFormed'
  BY <1>1, <1>3 DEF RequestsAreWellFormed, Idle
<1>10. QED
  BY <1>5, <1>6, <1>7, <1>8, <1>9

-----------------------------------------------------------------------------
(* Every step keeps the invariant.                                         *)
LEMMA NextInv == BookingInv /\ [Next]_vars => BookingInv'
<1> SUFFICES ASSUME BookingInv, [Next]_vars PROVE BookingInv'
  OBVIOUS
<1>1. CASE Tick
  BY <1>1, TickInv
<1>2. ASSUME NEW t \in Tx, Begin(t) \/ LockClass(t) \/ LockRow(t) \/ Statement(t) \/ Abort(t)
      PROVE  BookingInv'
  BY <1>2, BeginInv, LockClassInv, LockRowInv, CountInv, ChooseSeatInv, CommitInv, RollbackInv
     DEF Statement, Abort
<1>3. CASE UNCHANGED vars
  <2>1. UNCHANGED <<clock, row, trail, classLock, rowLock, tx>>
    BY <1>3 DEF vars
  <2>2. TypeOK' /\ LocksAreHeld' /\ RequestsAreWellFormed' /\ RequestsMeetTheirRows'
    BY <2>1 DEF BookingInv, TypeOK, LocksAreHeld, HoldsClass, HoldsRow, RequestsAreWellFormed,
                RequestsMeetTheirRows
  <2>3. ReadsStayTrue'
    BY <2>1 DEF BookingInv, ReadsStayTrue, ReadsOf, HoldsRow, LiveOf, TakenSeats
  <2>4. QED
    BY <2>1, <2>2, <2>3, RowsUnchanged DEF BookingInv
<1>4. QED
  BY <1>1, <1>2, <1>3 DEF Next

(* BookingInv is an invariant of the transactions.                         *)
LEMMA Invariance == Spec => []BookingInv
BY InitInv, NextInv, PTL DEF Spec
-----------------------------------------------------------------------------
(* Every variable keeps its type.                                          *)
THEOREM TypeCorrect == Spec => []TypeOK
<1>1. BookingInv => TypeOK
  BY DEF BookingInv
<1>2. QED
  BY <1>1, Invariance, PTL

(* No two bookings of a class ever carry the same seat, however many       *)
(* sessions confirm, cancel and abort at once.                             *)
THEOREM SeatsNeverShared == Spec => []SeatsAreExclusive
<1>1. BookingInv => SeatsAreExclusive
  BY DEF BookingInv
<1>2. QED
  BY <1>1, Invariance, PTL

(* Seat and deadline are where the status says they are.                   *)
THEOREM SeatAndDeadlineCorrect == Spec => []SeatAndDeadlineFollowStatus
<1>1. BookingInv => SeatAndDeadlineFollowStatus
  BY DEF BookingInv
<1>2. QED
  BY <1>1, Invariance, PTL

(* A child never has two live bookings in a class.                         *)
THEOREM OneLiveBooking == Spec => []OneLiveBookingPerChild
<1>1. BookingInv => OneLiveBookingPerChild
  <2> SUFFICES ASSUME BookingInv, NEW s \in Students, NEW c \in Classes
               PROVE  Cardinality(LiveOf(s, c)) <= 1
    BY DEF OneLiveBookingPerChild
  <2>1. CASE LiveOf(s, c) = {}
    BY <2>1, FS_EmptySet
  <2>2. CASE LiveOf(s, c) # {}
    <3>1. PICK b : b \in LiveOf(s, c)
      BY <2>2
    <3>2. LiveOf(s, c) = {b}
      BY <3>1 DEF LiveOf, BookingInv, LiveBookingsDiffer
    <3>3. QED
      BY <3>2, FS_Singleton
  <2>3. QED
    BY <2>1, <2>2
<1>2. QED
  BY <1>1, Invariance, PTL

(* What a step may do to a committed row: nothing, or one commit.          *)
LEMMA RowsChangeByCommit ==
  ASSUME BookingInv, [Next]_vars
  PROVE  UNCHANGED row \/ \E t \in Tx : Commit(t)
BY DEF Next, vars, Tick, Begin, BeginHold, BeginConfirm, BeginEnding, LockClass, LockRow,
       Statement, CountDuplicates, CountStanding, CountHolders, ChooseSeat, Abort, Rollback

(* Statuses only move along the arrows of the status machine.              *)
THEOREM StatusMachineHolds == Spec => StatusMachine
<1>1. BookingInv /\ [Next]_vars =>
        \A b \in Bookings : row[b].status # Absent =>
          /\ row'[b].status = row[b].status \/ CanTransition(row[b].status, row'[b].status)
          /\ row'[b].student = row[b].student
          /\ row'[b].class = row[b].class
  <2> SUFFICES ASSUME BookingInv, NEW t \in Tx, Commit(t), NEW b \in Bookings,
                      row[b].status # Absent
               PROVE  /\ row'[b].status = row[b].status
                           \/ CanTransition(row[b].status, row'[b].status)
                      /\ row'[b].student = row[b].student
                      /\ row'[b].class = row[b].class
    BY RowsChangeByCommit
  <2>1. CASE b # tx[t].booking
    BY <2>1, CommitWrites
  <2>2. CASE b = tx[t].booking
    BY <2>2, CommitWrites DEF NoRow
  <2>3. QED
    BY <2>1, <2>2
<1>2. QED
  BY <1>1, Invariance, PTL DEF Spec, StatusMachine

(* Expire never takes a hold that still stands, whatever instant it read   *)
(* before it waited for the row.                                           *)
THEOREM StandingHoldKept == Spec => StandingHoldNeverExpires
<1>1. BookingInv /\ [Next]_vars =>
        \A b \in Bookings : Standing(b, clock) => row'[b].status # "expired"
  <2> SUFFICES ASSUME BookingInv, [Next]_vars, NEW b \in Bookings, Standing(b, clock)
               PROVE  row'[b].status # "expired"
    OBVIOUS
  <2>1. row[b].status = "pending_payment" /\ row[b].deadline > clock
    BY DEF Standing, HoldIsLive
  <2>2. CASE UNCHANGED row
    BY <2>1, <2>2
  <2>3. ASSUME NEW t \in Tx, Commit(t) PROVE row'[b].status # "expired"
    <3>1. CASE b # tx[t].booking
      BY <2>1, <2>3, <3>1, CommitWrites
    <3>2. CASE b = tx[t].booking
      <4>1. clock \in Nat /\ row[b].deadline \in Nat
        BY DEF BookingInv, TypeOK, Row
      <4>2. tx[t].to = "expired" => row[b].deadline <= clock
        BY <2>3, <3>2, CommitWrites
      <4>3. QED
        BY <2>1, <2>3, <3>2, <4>1, <4>2, CommitWrites
    <3>3. QED
      BY <3>1, <3>2
  <2>4. QED
    BY <2>2, <2>3, RowsChangeByCommit
<1>2. QED
  BY <1>1, Invariance, PTL DEF Spec, StandingHoldNeverExpires

(* A confirmed booking keeps its seat number until it gives it up.         *)
THEOREM SeatKept == Spec => SeatIsNeverSwapped
<1>1. BookingInv /\ [Next]_vars =>
        \A b \in Bookings : row[b].seat # NoSeat => row'[b].seat \in {row[b].seat, NoSeat}
  <2> SUFFICES ASSUME BookingInv, NEW t \in Tx, Commit(t), NEW b \in Bookings,
                      row[b].seat # NoSeat
               PROVE  row'[b].seat \in {row[b].seat, NoSeat}
    BY RowsChangeByCommit
  <2>1. row[b].status = "confirmed"
    BY DEF BookingInv, SeatAndDeadlineFollowStatus
  <2>2. CASE b # tx[t].booking
    BY <2>2, CommitWrites
  <2>3. CASE b = tx[t].booking
    BY <2>1, <2>3, CommitWrites DEF NoRow
  <2>4. QED
    BY <2>2, <2>3
<1>2. QED
  BY <1>1, Invariance, PTL DEF Spec, SeatIsNeverSwapped

(* The audit trail always leads to the row it is about: the line a commit  *)
(* adds starts from the status the row lock has kept in place.             *)
THEOREM TrailCorrect == Spec => []TrailLeadsToRow
<1>1. Init => TrailLeadsToRow
  BY DEF Init, TrailLeadsToRow, StatusAfter, NoRow
<1>2. BookingInv /\ TrailLeadsToRow /\ [Next]_vars => TrailLeadsToRow'
  <2> SUFFICES ASSUME BookingInv, TrailLeadsToRow, [Next]_vars, NEW b \in Bookings
               PROVE  /\ \A i \in 1 .. Len(trail'[b]) :
                           trail'[b][i].from = StatusAfter(trail'[b], i - 1)
                      /\ row'[b].status = StatusAfter(trail'[b], Len(trail'[b]))
    BY DEF TrailLeadsToRow
  <2>1. CASE UNCHANGED <<row, trail>>
    BY <2>1 DEF TrailLeadsToRow
  <2>2. ASSUME NEW t \in Tx, Commit(t), b # tx[t].booking
        PROVE  row'[b] = row[b] /\ trail'[b] = trail[b]
    BY <2>2, CommitWrites DEF Commit, BookingInv, TypeOK
  <2>3. ASSUME NEW t \in Tx, Commit(t), b = tx[t].booking
        PROVE  /\ \A i \in 1 .. Len(trail'[b]) :
                    trail'[b][i].from = StatusAfter(trail'[b], i - 1)
               /\ row'[b].status = StatusAfter(trail'[b], Len(trail'[b]))
    <3> DEFINE lines == trail[b]
               line == [from |-> tx[t].from, to |-> tx[t].to]
    <3>1. tx[t].from = row[b].status /\ row'[b].status = tx[t].to
      BY <2>3, CommitWrites DEF BookingInv, RequestsAreWellFormed, ReadsStayTrue, ReadsOf, NoRow
    <3>2. trail'[b] = Append(lines, line) /\ lines \in Seq(Event)
      BY <2>3 DEF Commit, BookingInv, TypeOK
    <3>3. /\ \A i \in 1 .. Len(lines) : lines[i].from = StatusAfter(lines, i - 1)
          /\ row[b].status = StatusAfter(lines, Len(lines))
      BY DEF TrailLeadsToRow
    <3> HIDE DEF lines, line
    <3>4. /\ Len(trail'[b]) = Len(lines) + 1 /\ Len(lines) \in Nat
          /\ \A i \in 1 .. Len(lines) : trail'[b][i] = lines[i]
          /\ trail'[b][Len(lines) + 1] = line
      BY <3>2
    <3>5. line.from = tx[t].from /\ line.to = tx[t].to
      BY DEF line
    <3>6. row'[b].status = StatusAfter(trail'[b], Len(trail'[b]))
      BY <3>1, <3>4, <3>5 DEF StatusAfter
    <3>7. \A i \in 0 .. Len(lines) : StatusAfter(trail'[b], i) = StatusAfter(lines, i)
      BY <3>4 DEF StatusAfter
    <3>8. ASSUME NEW i \in 1 .. Len(trail'[b])
          PROVE  trail'[b][i].from = StatusAfter(trail'[b], i - 1)
      <4>1. CASE i = Len(lines) + 1
        BY <3>1, <3>3, <3>4, <3>5, <3>7, <4>1
      <4>2. CASE i # Len(lines) + 1
        <5>1. i \in 1 .. Len(lines) /\ i - 1 \in 0 .. Len(lines)
          BY <3>4, <4>2
        <5>2. QED
          BY <3>3, <3>4, <3>7, <5>1
      <4>3. QED
        BY <4>1, <4>2
    <3>9. QED
      BY <3>6, <3>8
  <2>4. UNCHANGED <<row, trail>> \/ \E t \in Tx : Commit(t)
    BY DEF Next, vars, Tick, Begin, BeginHold, BeginConfirm, BeginEnding, LockClass, LockRow,
           Statement, CountDuplicates, CountStanding, CountHolders, ChooseSeat, Abort, Rollback
  <2>5. QED
    BY <2>1, <2>2, <2>3, <2>4 DEF TrailLeadsToRow
<1>3. QED
  BY <1>1, <1>2, Invariance, PTL DEF Spec
-----------------------------------------------------------------------------
(* Releasing: what is left belongs to the sessions that go on.             *)
LEMMA ReleaseKeepsOwners ==
  ASSUME BookingInv, LocksAreUsed, NEW t \in Tx, tx' = [tx EXCEPT ![t] = Idle], ReleaseLocks(t)
  PROVE  LocksAreUsed'
<1>1. \A u \in Tx \ {t} : tx'[u] = tx[u]
  BY DEF BookingInv, TypeOK
<1>2. \A u \in Tx \ {t} : (HoldsClass(u)' <=> HoldsClass(u)) /\ (HoldsRow(u)' <=> HoldsRow(u))
  BY <1>1 DEF HoldsClass, HoldsRow
<1>3. /\ \A c \in Classes : classLock'[c] # t
      /\ \A b \in Bookings : rowLock'[b] # t
      /\ \A c \in Classes, u \in Tx : classLock'[c] = u => classLock[c] = u
      /\ \A b \in Bookings, u \in Tx : rowLock'[b] = u => rowLock[b] = u
  BY DEF ReleaseLocks
<1>4. QED
  BY <1>1, <1>2, <1>3 DEF LocksAreUsed

(* A lock never outlives the transaction that took it.                     *)
LEMMA LocksAreUsedInvariance == Spec => []LocksAreUsed
<1>1. Init => LocksAreUsed
  BY DEF Init, LocksAreUsed
<1>2. BookingInv /\ LocksAreUsed /\ [Next]_vars => LocksAreUsed'
  <2> SUFFICES ASSUME BookingInv, LocksAreUsed, [Next]_vars PROVE LocksAreUsed'
    OBVIOUS
  <2>1. CASE UNCHANGED <<classLock, rowLock, tx>>
    BY <2>1 DEF LocksAreUsed, HoldsClass, HoldsRow
  <2>2. ASSUME NEW t \in Tx, Begin(t) PROVE LocksAreUsed'
    <3>1. UNCHANGED <<classLock, rowLock>> /\ tx[t].at = "idle"
      BY <2>2 DEF Begin, BeginHold, BeginConfirm, BeginEnding
    <3>2. \A u \in Tx \ {t} : tx'[u] = tx[u]
      BY <2>2 DEF Begin, BeginHold, BeginConfirm, BeginEnding, BookingInv, TypeOK
    <3>3. ~HoldsClass(t) /\ ~HoldsRow(t)
      BY <3>1 DEF HoldsClass, HoldsRow
    <3>4. \A u \in Tx \ {t} : (HoldsClass(u)' <=> HoldsClass(u)) /\ (HoldsRow(u)' <=> HoldsRow(u))
      BY <3>2 DEF HoldsClass, HoldsRow
    <3>5. QED
      BY <3>1, <3>2, <3>3, <3>4 DEF LocksAreUsed
  <2>3. ASSUME NEW t \in Tx, Rollback(t) PROVE LocksAreUsed'
    BY <2>3, ReleaseKeepsOwners DEF Rollback
  <2>4. ASSUME NEW t \in Tx, Commit(t) PROVE LocksAreUsed'
    BY <2>4, ReleaseKeepsOwners DEF Commit
  <2>5. ASSUME NEW t \in Tx, ~Rollback(t),
               \/ LockClass(t) \/ LockRow(t) \/ ChooseSeat(t)
               \/ CountDuplicates(t) \/ CountStanding(t) \/ CountHolders(t)
        PROVE  LocksAreUsed'
    <3>1. /\ \A u \in Tx \ {t} : tx'[u] = tx[u]
          /\ tx'[t].op = tx[t].op /\ tx'[t].class = tx[t].class
          /\ tx'[t].booking = tx[t].booking
      BY <2>5 DEF LockClass, LockRow, ChooseSeat, CountDuplicates, CountStanding, CountHolders,
                  Advance, BookingInv, TypeOK, Session
    <3>2. /\ \A c \in Classes, u \in Tx : classLock'[c] = u =>
               classLock[c] = u \/ (u = t /\ c = tx[t].class /\ LockClass(t))
          /\ \A b \in Bookings, u \in Tx : rowLock'[b] = u =>
               rowLock[b] = u \/ (u = t /\ b = tx[t].booking /\ LockRow(t))
      BY <2>5 DEF LockClass, LockRow, ChooseSeat, CountDuplicates, CountStanding, CountHolders,
                  BookingInv, TypeOK
    <3>3. \A u \in Tx \ {t} : (HoldsClass(u)' <=> HoldsClass(u)) /\ (HoldsRow(u)' <=> HoldsRow(u))
      BY <3>1 DEF HoldsClass, HoldsRow
    <3>4. /\ HoldsClass(t) => HoldsClass(t)'
          /\ HoldsRow(t) => HoldsRow(t)'
          /\ LockClass(t) => HoldsClass(t)'
          /\ LockRow(t) => HoldsRow(t)'
      <4>1. tx[t].at = "lockClass" => tx[t].op \in {"hold", "confirm"}
        BY RequestTypes DEF BookingInv, RequestsAreWellFormed, Operation
      <4>2. tx[t].at = "lockRow" => tx[t].op \in Operation \ {"hold"}
        BY RequestTypes DEF BookingInv, RequestsAreWellFormed
      <4>3. tx[t].at \in {"lockClass", "lockRow", "chooseSeat", "duplicates", "standing", "holders"}
        BY <2>5 DEF LockClass, LockRow, ChooseSeat, CountDuplicates, CountStanding, CountHolders
      <4>4. /\ tx[t].at = "lockClass" =>
                 tx'[t].at = IF tx[t].op = "hold" THEN "duplicates" ELSE "lockRow"
            /\ tx[t].at = "lockRow" =>
                 tx'[t].at = IF tx[t].op = "confirm" THEN "chooseSeat" ELSE "commit"
            /\ tx[t].at = "chooseSeat" => tx'[t].at = "commit"
            /\ tx[t].at = "duplicates" => tx'[t].at = "standing"
            /\ tx[t].at = "standing" => tx'[t].at = "holders"
            /\ tx[t].at = "holders" => tx'[t].at = "commit"
        BY <2>5 DEF LockClass, LockRow, ChooseSeat, CountDuplicates, CountStanding, CountHolders,
                    Advance, BookingInv, TypeOK, Session
      <4>5. /\ LockClass(t) => tx[t].at = "lockClass"
            /\ LockRow(t) => tx[t].at = "lockRow"
        BY DEF LockClass, LockRow
      <4>6. QED
        BY <3>1, <4>1, <4>2, <4>3, <4>4, <4>5 DEF HoldsClass, HoldsRow, Operation
    <3>5. QED
      BY <3>1, <3>2, <3>3, <3>4 DEF LocksAreUsed
  <2>6. CASE Tick \/ UNCHANGED vars
    BY <2>1, <2>6 DEF Tick, vars
  <2>7. QED
    BY <2>2, <2>3, <2>4, <2>5, <2>6 DEF Next, Statement, Abort
<1>3. QED
  BY <1>1, <1>2, Invariance, PTL DEF Spec

(* No sessions ever wait for one another in a ring: whoever holds a        *)
(* booking waits for nobody, and whoever holds a class waits for a booking *)
(* at most.                                                                *)
THEOREM NoDeadlock == Spec => []NoWaitCycle
<1>1. BookingInv /\ LocksAreUsed => NoWaitCycle
  <2> SUFFICES ASSUME BookingInv, LocksAreUsed, NEW waiting \in SUBSET Tx, waiting # {},
                      \A t \in waiting : \E u \in waiting : WaitsFor(t, u)
               PROVE  FALSE
    BY DEF NoWaitCycle
  <2>1. ASSUME NEW t \in waiting, NEW u \in waiting, WaitsFor(t, u), tx[t].at = "lockRow"
        PROVE  FALSE
    <3>1. rowLock[tx[t].booking] = u /\ tx[t].booking \in Bookings
      BY <2>1, RequestTypes DEF WaitsFor
    <3>2. tx[u].at \in {"chooseSeat", "commit"}
      BY <3>1 DEF LocksAreUsed, HoldsRow
    <3>3. QED
      BY <3>2 DEF WaitsFor
  <2>2. ASSUME NEW t \in waiting, NEW u \in waiting, WaitsFor(t, u), tx[t].at = "lockClass"
        PROVE  FALSE
    <3>1. classLock[tx[t].class] = u /\ tx[t].class \in Classes
      <4>1. tx[t].op \in {"hold", "confirm"}
        BY <2>2, RequestTypes DEF BookingInv, RequestsAreWellFormed, Operation
      <4>2. QED
        BY <2>2, <4>1, RequestTypes DEF WaitsFor
    <3>2. tx[u].at # "lockClass"
      BY <3>1 DEF LocksAreUsed, HoldsClass
    <3>3. tx[u].at = "lockRow"
      BY <3>2 DEF WaitsFor
    <3>4. QED
      BY <2>1, <3>3
  <2>3. QED
    BY <2>1, <2>2 DEF WaitsFor
<1>2. QED
  BY <1>1, Invariance, LocksAreUsedInvariance, PTL
-----------------------------------------------------------------------------
(* The caps.                                                               *)

(* A set of bookings that loses some keeps under any limit it was under.   *)
LEMMA FewerBookings ==
  ASSUME NEW A, NEW B, A \subseteq B, B \subseteq Bookings
  PROVE  /\ IsFiniteSet(A) /\ IsFiniteSet(B)
         /\ Cardinality(A) \in Nat /\ Cardinality(B) \in Nat
         /\ Cardinality(A) <= Cardinality(B)
BY BookingsAssumption, FS_Subset, FS_CardinalityType

(* One booking more adds at most one.                                      *)
LEMMA OneMoreBooking ==
  ASSUME NEW A, NEW B, NEW b \in Bookings, A \subseteq B \union {b}, B \subseteq Bookings
  PROVE  Cardinality(A) <= Cardinality(B) + 1
<1>1. IsFiniteSet(B) /\ Cardinality(B) \in Nat
  BY FewerBookings
<1>2. Cardinality(B \union {b}) <= Cardinality(B) + 1
  <2>1. Cardinality(B \union {b}) = IF b \in B THEN Cardinality(B) ELSE Cardinality(B) + 1
    BY <1>1, FS_AddElement
  <2>2. QED
    BY <1>1, <2>1
<1>3. Cardinality(A) <= Cardinality(B \union {b}) /\ Cardinality(B \union {b}) \in Nat /\ Cardinality(A) \in Nat
  BY FewerBookings
<1>4. QED
  BY ONLY <1>1, <1>2, <1>3

(* No step adds a standing hold to a class but the commit of a hold there. *)
LEMMA HoldsAdded ==
  ASSUME BookingInv, [Next]_vars, NEW p, NEW c, NEW now \in Nat
  PROVE  \/ HoldsIn(p, c, now)' \subseteq HoldsIn(p, c, now)
         \/ \E t \in Tx :
              /\ Commit(t) /\ tx[t].op = "hold" /\ tx[t].class = c
              /\ ParentOf[tx[t].student] = p
<1>1. CASE UNCHANGED row
  BY <1>1 DEF HoldsIn, StandingOf, Standing
<1>2. ASSUME NEW t \in Tx, Commit(t)
      PROVE  \/ HoldsIn(p, c, now)' \subseteq HoldsIn(p, c, now)
             \/ /\ tx[t].op = "hold" /\ tx[t].class = c
                /\ ParentOf[tx[t].student] = p
  <2> DEFINE b == tx[t].booking
  <2>1. /\ b \in Bookings
        /\ \A x \in Bookings \ {b} : row'[x] = row[x]
        /\ row'[b].status = tx[t].to
        /\ \/ /\ tx[t].op = "hold"
              /\ row'[b].student = tx[t].student
              /\ row'[b].class = tx[t].class
           \/ tx[t].to \in {"confirmed", "refund_required", "payment_failed", "expired", "cancelled"}
    BY <1>2, CommitWrites
  <2> HIDE DEF b
  <2>2. \A x \in HoldsIn(p, c, now)' : x # b => x \in HoldsIn(p, c, now)
    BY <2>1 DEF HoldsIn, StandingOf, Standing
  <2>3. b \in HoldsIn(p, c, now)' =>
          tx[t].op = "hold" /\ tx[t].class = c /\ ParentOf[tx[t].student] = p
    BY <2>1 DEF HoldsIn, StandingOf, Standing
  <2>4. QED
    BY <2>2, <2>3 DEF b
<1>3. QED
  BY <1>1, <1>2, RowsChangeByCommit

(* No step adds a holder to a class but the commit of a hold or of a       *)
(* confirmation there, under the class lock.                               *)
LEMMA HoldersAdded ==
  ASSUME BookingInv, [Next]_vars, NEW c, NEW now \in Nat
  PROVE  \/ HoldersOf(c, now)' \subseteq HoldersOf(c, now)
         \/ \E t \in Tx :
              /\ Commit(t) /\ tx[t].op \in {"hold", "confirm"} /\ tx[t].class = c
              /\ classLock[c] = t
<1>1. CASE UNCHANGED row
  BY <1>1 DEF HoldersOf, Standing
<1>2. ASSUME NEW t \in Tx, Commit(t)
      PROVE  \/ HoldersOf(c, now)' \subseteq HoldersOf(c, now)
             \/ /\ tx[t].op \in {"hold", "confirm"} /\ tx[t].class = c
                /\ classLock[c] = t
  <2> DEFINE b == tx[t].booking
  <2>1. /\ b \in Bookings
        /\ \A x \in Bookings \ {b} : row'[x] = row[x]
        /\ row'[b].status = tx[t].to
        /\ \/ /\ tx[t].op = "hold"
              /\ row'[b].class = tx[t].class
           \/ /\ tx[t].to \in {"confirmed", "refund_required", "payment_failed", "expired", "cancelled"}
              /\ row'[b].class = row[b].class
              /\ tx[t].to = "confirmed" => tx[t].op = "confirm" /\ tx[t].class = row[b].class
    BY <1>2, CommitWrites
  <2> HIDE DEF b
  <2>2. \A x \in HoldersOf(c, now)' : x # b => x \in HoldersOf(c, now)
    BY <2>1 DEF HoldersOf, Standing
  <2>3. b \in HoldersOf(c, now)' => tx[t].op \in {"hold", "confirm"} /\ tx[t].class = c
    BY <2>1 DEF HoldersOf, Standing
  <2>4. tx[t].op \in {"hold", "confirm"} => classLock[tx[t].class] = t
    BY <1>2 DEF Commit, BookingInv, LocksAreHeld, HoldsClass
  <2>5. QED
    BY <2>2, <2>3, <2>4
<1>3. QED
  BY <1>1, <1>2, RowsChangeByCommit

(* How a hold comes to have made its counts: it made one now, and found    *)
(* room, or it has not moved.                                              *)
LEMMA CountedBySteps ==
  ASSUME BookingInv, [Next]_vars, NEW u \in Tx, tx'[u].op = "hold", tx'[u].at \in {"holders", "commit"}
  PROVE  \/ tx'[u] = tx[u]
         \/ /\ UNCHANGED <<clock, row>>
            /\ tx'[u].student = tx[u].student /\ tx'[u].class = tx[u].class
            /\ tx'[u].now = tx[u].now /\ tx'[u].op = tx[u].op
            /\ \/ /\ tx[u].at = "standing" /\ tx'[u].at = "holders"
                  /\ ~(Cardinality(StandingOf(ParentOf[tx[u].student], tx[u].now)) >= MaxHoldsPerParent)
               \/ /\ tx[u].at = "holders" /\ tx'[u].at = "commit"
                  /\ ~(Cardinality(HoldersOf(tx[u].class, tx[u].now))
                         >= MaxHolders(Capacity[tx[u].class], HoldAllowance[tx[u].class]))
<1> USE DEF BookingInv
<1>1. CASE Tick \/ UNCHANGED vars
  BY <1>1 DEF Tick, vars
<1>2. ASSUME NEW t \in Tx, t # u,
             Begin(t) \/ LockClass(t) \/ LockRow(t) \/ Statement(t) \/ Abort(t)
      PROVE  tx'[u] = tx[u]
  BY <1>2 DEF TypeOK, Begin, BeginHold, BeginConfirm, BeginEnding, LockClass, LockRow, Statement,
              CountDuplicates, CountStanding, CountHolders, ChooseSeat, Commit, Abort, Rollback, Advance
<1>3. ASSUME Rollback(u) \/ Commit(u) \/ Begin(u) PROVE FALSE
  <2>1. CASE Rollback(u) \/ Commit(u)
    BY <2>1 DEF TypeOK, Rollback, Commit, Idle
  <2>2. CASE Begin(u)
    <3>1. PICK b \in Bookings :
            \/ \E s \in Students, c \in Classes : BeginHold(u, b, s, c)
            \/ BeginConfirm(u, b)
            \/ \E op \in {"cancel", "fail", "expire"} : BeginEnding(u, b, op)
      BY <2>2 DEF Begin
    <3>2. ASSUME NEW s \in Students, NEW c \in Classes, BeginHold(u, b, s, c)
          PROVE  tx'[u].at = "lockClass"
      BY <3>2 DEF BeginHold, TypeOK, Idle
    <3>3. BeginConfirm(u, b) => tx'[u].at = "lockClass"
      BY DEF BeginConfirm, TypeOK, Idle
    <3>4. ASSUME NEW op, BeginEnding(u, b, op) PROVE tx'[u].at = "lockRow"
      BY <3>4 DEF BeginEnding, TypeOK, Idle
    <3>5. QED
      BY <3>1, <3>2, <3>3, <3>4
  <2>3. QED
    BY <1>3, <2>1, <2>2
<1>4. ASSUME LockClass(u) \/ LockRow(u) \/ ChooseSeat(u) \/ CountDuplicates(u), ~Rollback(u)
      PROVE  FALSE
  <2>1. tx[u].at # "idle" /\ tx'[u].op = tx[u].op
    BY <1>4 DEF LockClass, LockRow, ChooseSeat, CountDuplicates, Advance, TypeOK, Session
  <2>2. tx[u].at \in {"lockClass", "duplicates"}
    BY <1>4, <2>1 DEF LockClass, LockRow, ChooseSeat, CountDuplicates, RequestsAreWellFormed
  <2>3. tx'[u].at \in {"standing", "duplicates"}
    BY <1>4, <2>1, <2>2 DEF LockClass, LockRow, ChooseSeat, CountDuplicates, Advance, TypeOK, Session
  <2>4. QED
    BY <2>3
<1>5. CASE CountStanding(u) /\ ~Rollback(u)
  <2>1. /\ tx[u].at = "standing" /\ tx' = [tx EXCEPT ![u].at = "holders"] /\ UNCHANGED <<clock, row>>
        /\ ~(Cardinality(StandingOf(ParentOf[tx[u].student], tx[u].now)) >= MaxHoldsPerParent)
    BY <1>5 DEF CountStanding, Advance
  <2>2. /\ tx'[u].student = tx[u].student /\ tx'[u].class = tx[u].class
        /\ tx'[u].now = tx[u].now /\ tx'[u].op = tx[u].op /\ tx'[u].at = "holders"
    BY <2>1 DEF TypeOK, Session
  <2>3. QED
    BY <2>1, <2>2
<1>6. CASE CountHolders(u) /\ ~Rollback(u)
  <2>1. /\ tx[u].at = "holders" /\ tx' = [tx EXCEPT ![u].at = "commit"] /\ UNCHANGED <<clock, row>>
        /\ ~(Cardinality(HoldersOf(tx[u].class, tx[u].now))
               >= MaxHolders(Capacity[tx[u].class], HoldAllowance[tx[u].class]))
    BY <1>6 DEF CountHolders, Advance
  <2>2. /\ tx'[u].student = tx[u].student /\ tx'[u].class = tx[u].class
        /\ tx'[u].now = tx[u].now /\ tx'[u].op = tx[u].op /\ tx'[u].at = "commit"
    BY <2>1 DEF TypeOK, Session
  <2>3. QED
    BY <2>1, <2>2
<1>7. QED
  BY <1>1, <1>2, <1>3, <1>4, <1>5, <1>6 DEF Next, Statement, Abort

(* What a hold counted stays under the limits until it commits.            *)
LEMMA CountsStandStep == BookingInv /\ CountsStand /\ [Next]_vars => CountsStand'
<1> SUFFICES ASSUME BookingInv, CountsStand, [Next]_vars,
                    NEW u \in Tx, NEW p \in Parents, NEW c \in Classes, NEW now \in 0 .. clock',
                    Asks(u, p, c, now)'
             PROVE  /\ tx'[u].at \in {"holders", "commit"} =>
                         Cardinality(HoldsIn(p, c, now)') < MaxHoldsPerParent
                    /\ tx'[u].at = "commit" =>
                         Cardinality(HoldersOf(c, now)') < MaxHolders(Capacity[c], HoldAllowance[c])
  BY DEF CountsStand
<1> SUFFICES ASSUME tx'[u].at \in {"holders", "commit"}
             PROVE  /\ Cardinality(HoldsIn(p, c, now)') < MaxHoldsPerParent
                    /\ tx'[u].at = "commit" =>
                         Cardinality(HoldersOf(c, now)') < MaxHolders(Capacity[c], HoldAllowance[c])
  OBVIOUS
<1>0. /\ clock \in Nat /\ clock' \in Nat /\ now \in Nat
      /\ MaxHolders(Capacity[c], HoldAllowance[c]) \in Nat
  BY NextInv DEF BookingInv, TypeOK, MaxHolders
<1>1. /\ tx'[u].op = "hold" /\ ParentOf[tx'[u].student] = p /\ tx'[u].class = c /\ tx'[u].now = now
  BY DEF Asks
<1>2. /\ \A x \in HoldsIn(p, c, now) : x \in Bookings /\ x \in StandingOf(p, now)
      /\ HoldsIn(p, c, now) \subseteq StandingOf(p, now)
      /\ StandingOf(p, now) \subseteq Bookings /\ HoldsIn(p, c, now)' \subseteq Bookings
      /\ HoldersOf(c, now) \subseteq Bookings /\ HoldersOf(c, now)' \subseteq Bookings
  BY DEF HoldsIn, StandingOf, HoldersOf
<1>3. /\ Cardinality(HoldsIn(p, c, now)) \in Nat /\ Cardinality(StandingOf(p, now)) \in Nat
      /\ Cardinality(HoldsIn(p, c, now)) <= Cardinality(StandingOf(p, now))
      /\ Cardinality(HoldersOf(c, now)) \in Nat
      /\ Cardinality(HoldsIn(p, c, now)') \in Nat /\ Cardinality(HoldersOf(c, now)') \in Nat
  BY <1>2, FewerBookings
<1>4. CASE tx'[u] = tx[u]
  <2>1. Asks(u, p, c, now) /\ now \in 0 .. clock
    <3>1. tx[u].now <= clock /\ Asks(u, p, c, now)
      BY <1>1, <1>4 DEF BookingInv, RequestsAreWellFormed, Asks
    <3>2. QED
      BY <1>0, <3>1 DEF Asks
  <2>2. /\ Cardinality(HoldsIn(p, c, now)) < MaxHoldsPerParent
        /\ tx[u].at = "commit" =>
             Cardinality(HoldersOf(c, now)) < MaxHolders(Capacity[c], HoldAllowance[c])
    BY <2>1, <1>4 DEF CountsStand
  <2>3. classLock[c] = u
    BY <1>1, <1>4 DEF BookingInv, LocksAreHeld, HoldsClass
  <2>4. ASSUME NEW t \in Tx, Commit(t), tx[t].op \in {"hold", "confirm"}, tx[t].class = c PROVE FALSE
    <3>1. t = u
      BY <2>3, <2>4 DEF Commit, BookingInv, LocksAreHeld, HoldsClass
    <3>2. tx'[u].op = "none"
      BY <2>4, <3>1 DEF Commit, Idle, BookingInv, TypeOK
    <3>3. QED
      BY <1>1, <3>2
  <2>5. /\ HoldsIn(p, c, now)' \subseteq HoldsIn(p, c, now)
        /\ HoldersOf(c, now)' \subseteq HoldersOf(c, now)
    BY <1>0, <2>4, HoldsAdded, HoldersAdded
  <2>6. /\ Cardinality(HoldsIn(p, c, now)') <= Cardinality(HoldsIn(p, c, now))
        /\ Cardinality(HoldersOf(c, now)') <= Cardinality(HoldersOf(c, now))
    BY <1>2, <2>5, FewerBookings
  <2>7. QED
    BY <1>0, <1>3, <1>4, <2>2, <2>6
<1>5. CASE tx'[u] # tx[u]
  <2>1. /\ UNCHANGED <<clock, row>>
        /\ tx[u].student = tx'[u].student /\ tx[u].class = c
        /\ tx[u].now = now /\ tx[u].op = "hold"
        /\ \/ /\ tx[u].at = "standing" /\ tx'[u].at = "holders"
              /\ ~(Cardinality(StandingOf(p, now)) >= MaxHoldsPerParent)
           \/ /\ tx[u].at = "holders" /\ tx'[u].at = "commit"
              /\ ~(Cardinality(HoldersOf(c, now)) >= MaxHolders(Capacity[c], HoldAllowance[c]))
    BY <1>1, <1>5, CountedBySteps
  <2>2. /\ HoldsIn(p, c, now)' = HoldsIn(p, c, now)
        /\ HoldersOf(c, now)' = HoldersOf(c, now)
    BY <2>1 DEF HoldsIn, StandingOf, HoldersOf, Standing
  <2>3. CASE tx[u].at = "standing"
    BY <1>0, <1>3, <2>1, <2>2, <2>3
  <2>4. CASE tx[u].at = "holders"
    <3>1. Asks(u, p, c, now) /\ now \in 0 .. clock
      BY <1>1, <2>1 DEF Asks
    <3>2. Cardinality(HoldsIn(p, c, now)) < MaxHoldsPerParent
      BY <2>4, <3>1 DEF CountsStand
    <3>3. QED
      BY <1>0, <1>3, <2>1, <2>2, <2>4, <3>2
  <2>5. QED
    BY <2>1, <2>3, <2>4
<1>6. QED
  BY <1>4, <1>5

(* Nothing stands at the start.                                            *)
LEMMA NothingStandsAtFirst == Init => CountsStand /\ HoldCapWithinAClass /\ StandingHoldsFitTheClass
<1> SUFFICES ASSUME Init PROVE CountsStand /\ HoldCapWithinAClass /\ StandingHoldsFitTheClass
  OBVIOUS
<1>1. \A b \in Bookings : ~Standing(b, clock)
  BY DEF Init, Standing, NoRow, Absent
<1>2. CountsStand
  BY DEF Init, CountsStand, Asks, Idle
<1>3. \A c \in Classes : MaxHolders(Capacity[c], HoldAllowance[c]) \in Nat
  BY DEF MaxHolders
<1>4. HoldCapWithinAClass
  <2> SUFFICES ASSUME NEW p \in Parents, NEW c \in Classes
               PROVE  Cardinality({b \in StandingOf(p, clock) : row[b].class = c}) <= MaxHoldsPerParent
    BY DEF HoldCapWithinAClass
  <2>1. {b \in StandingOf(p, clock) : row[b].class = c} = {}
    BY <1>1 DEF StandingOf
  <2>2. Cardinality({b \in StandingOf(p, clock) : row[b].class = c}) = 0
    BY <2>1, FS_EmptySet, Zenon
  <2>3. QED
    BY <2>2
<1>5. StandingHoldsFitTheClass
  <2> SUFFICES ASSUME NEW c \in Classes
               PROVE  Cardinality({b \in Bookings : row[b].class = c /\ Standing(b, clock)})
                        <= MaxHolders(Capacity[c], HoldAllowance[c])
    BY DEF StandingHoldsFitTheClass
  <2>1. {b \in Bookings : row[b].class = c /\ Standing(b, clock)} = {}
    BY <1>1
  <2>2. QED
    BY <1>3, <2>1, FS_EmptySet
<1>6. QED
  BY <1>2, <1>4, <1>5

(* Time does not run backwards.                                            *)
LEMMA ClockOnlyAdvances ==
  ASSUME BookingInv, [Next]_vars
  PROVE  clock \in Nat /\ clock' \in Nat /\ clock <= clock'
<1> USE DEF BookingInv, TypeOK
<1>1. ASSUME NEW t \in Tx, Begin(t) PROVE UNCHANGED clock
  BY <1>1 DEF Begin, BeginHold, BeginConfirm, BeginEnding
<1>2. ASSUME NEW t \in Tx, LockClass(t) \/ LockRow(t) \/ Statement(t) \/ Abort(t) PROVE UNCHANGED clock
  BY <1>2 DEF LockClass, LockRow, Statement, CountDuplicates, CountStanding, CountHolders, ChooseSeat,
              Commit, Abort, Rollback
<1>3. CASE Tick \/ UNCHANGED vars
  BY <1>3 DEF Tick, vars
<1>4. QED
  BY <1>1, <1>2, <1>3 DEF Next

(* A parent's holds in one class never exceed the cap: the hold that       *)
(* commits counted them under the class lock.                              *)
LEMMA HoldCapStep == BookingInv /\ CountsStand /\ HoldCapWithinAClass /\ [Next]_vars => HoldCapWithinAClass'
<1> SUFFICES ASSUME BookingInv, CountsStand, HoldCapWithinAClass, [Next]_vars,
                    NEW p \in Parents, NEW c \in Classes
             PROVE  Cardinality({b \in StandingOf(p, clock) : row[b].class = c}') <= MaxHoldsPerParent
  BY DEF HoldCapWithinAClass
<1> DEFINE after == {b \in StandingOf(p, clock) : row[b].class = c}'
<1>1. clock \in Nat /\ clock' \in Nat /\ clock <= clock'
  BY ClockOnlyAdvances
<1>2. ASSUME NEW now \in Nat, now <= clock
      PROVE  after \subseteq HoldsIn(p, c, now)'
  <2>1. BookingInv'
    BY NextInv
  <2>2. \A b \in Bookings : row'[b].deadline \in Nat
    BY <2>1 DEF BookingInv, TypeOK, Row
  <2>3. QED
    BY <1>1, <1>2, <2>2 DEF HoldsIn, StandingOf, Standing, HoldIsLive
<1>3. /\ HoldsIn(p, c, clock) = {b \in StandingOf(p, clock) : row[b].class = c}
      /\ after \subseteq Bookings
      /\ \A now \in Nat : HoldsIn(p, c, now) \subseteq Bookings
  BY DEF HoldsIn, StandingOf
<1>4. Cardinality(HoldsIn(p, c, clock)) <= MaxHoldsPerParent
  BY <1>3 DEF HoldCapWithinAClass
<1> HIDE DEF after
<1>5. ASSUME NEW now \in Nat, now = clock, HoldsIn(p, c, now)' \subseteq HoldsIn(p, c, now)
      PROVE  Cardinality(after) <= MaxHoldsPerParent
  <2>1. after \subseteq HoldsIn(p, c, clock)
    BY <1>1, <1>2, <1>5
  <2>2. Cardinality(after) <= Cardinality(HoldsIn(p, c, clock))
        /\ Cardinality(after) \in Nat /\ Cardinality(HoldsIn(p, c, clock)) \in Nat
    BY <1>1, <1>3, <2>1, FewerBookings
  <2>3. QED
    BY <1>4, <2>2
<1>6. ASSUME NEW t \in Tx, Commit(t), tx[t].op = "hold", tx[t].class = c, ParentOf[tx[t].student] = p
      PROVE  Cardinality(after) <= MaxHoldsPerParent
  <2>1. PICK now \in Nat : now = tx[t].now
    BY DEF BookingInv, TypeOK, Session
  <2>2. now <= clock /\ now \in 0 .. clock /\ tx[t].booking \in Bookings
    BY <1>1, <1>6, <2>1 DEF BookingInv, RequestsAreWellFormed, Commit
  <2>3. Cardinality(HoldsIn(p, c, now)) < MaxHoldsPerParent
    BY <1>6, <2>1, <2>2 DEF CountsStand, Asks, Commit
  <2>4. after \subseteq HoldsIn(p, c, now)'
    BY <1>2, <2>2
  <2>5. HoldsIn(p, c, now)' \subseteq HoldsIn(p, c, now) \union {tx[t].booking}
    <3>1. PICK b : b = tx[t].booking
      OBVIOUS
    <3>2. \A x \in Bookings \ {b} : row'[x] = row[x]
      BY <1>6, <3>1, CommitWrites
    <3>3. QED
      BY <3>1, <3>2 DEF HoldsIn, StandingOf, Standing
  <2>6. Cardinality(after) <= Cardinality(HoldsIn(p, c, now)) + 1
    BY <1>3, <2>2, <2>4, <2>5, OneMoreBooking
  <2>7. Cardinality(after) \in Nat /\ Cardinality(HoldsIn(p, c, now)) \in Nat
    BY <1>3, FewerBookings
  <2>8. QED
    BY <2>3, <2>6, <2>7
<1>7. QED
  <2>1. Cardinality(after) <= MaxHoldsPerParent
    BY <1>1, <1>5, <1>6, HoldsAdded
  <2>2. QED
    BY <2>1 DEF after

(* Nor do the holds of a class exceed its seats and its allowance.         *)
LEMMA ClassFitsStep ==
  BookingInv /\ CountsStand /\ StandingHoldsFitTheClass /\ [Next]_vars => StandingHoldsFitTheClass'
<1> SUFFICES ASSUME BookingInv, CountsStand, StandingHoldsFitTheClass, [Next]_vars, NEW c \in Classes
             PROVE  Cardinality({b \in Bookings : row[b].class = c /\ Standing(b, clock)}')
                      <= MaxHolders(Capacity[c], HoldAllowance[c])
  BY DEF StandingHoldsFitTheClass
<1> DEFINE before == {b \in Bookings : row[b].class = c /\ Standing(b, clock)}
           after == {b \in Bookings : row[b].class = c /\ Standing(b, clock)}'
           limit == MaxHolders(Capacity[c], HoldAllowance[c])
<1>1. clock \in Nat /\ clock' \in Nat /\ clock <= clock' /\ limit \in Nat
  BY ClockOnlyAdvances DEF MaxHolders
<1>2. BookingInv'
  BY NextInv
<1>3. \A b \in Bookings : row[b].deadline \in Nat /\ row'[b].deadline \in Nat
  BY <1>2 DEF BookingInv, TypeOK, Row
<1>4. Cardinality(before) <= limit
  BY DEF StandingHoldsFitTheClass
<1>5. ASSUME \A x \in Bookings : Standing(x, clock)' => row'[x] = row[x]
      PROVE  Cardinality(after) <= limit
  <2>1. after \subseteq before /\ before \subseteq Bookings
    BY <1>1, <1>3, <1>5 DEF Standing, HoldIsLive
  <2> HIDE DEF before, after, limit
  <2>2. Cardinality(after) <= Cardinality(before) /\ Cardinality(after) \in Nat /\ Cardinality(before) \in Nat
    BY <2>1, FewerBookings
  <2>3. QED
    BY <1>1, <1>4, <2>2
<1>6. ASSUME NEW t \in Tx, Commit(t), tx[t].op # "hold" \/ tx[t].class # c
      PROVE  Cardinality(after) <= limit
  <2>1. PICK b : b = tx[t].booking
    OBVIOUS
  <2>2. /\ b \in Bookings
        /\ \A x \in Bookings \ {b} : row'[x] = row[x]
        /\ row'[b].status = tx[t].to
        /\ \/ tx[t].op = "hold" /\ row'[b].class = tx[t].class
           \/ tx[t].to \in {"confirmed", "refund_required", "payment_failed", "expired", "cancelled"}
    BY <1>6, <2>1, CommitWrites
  <2>3. after \subseteq before /\ before \subseteq Bookings
    BY <1>1, <1>3, <1>6, <2>2 DEF Standing, HoldIsLive
  <2> HIDE DEF before, after, limit
  <2>4. Cardinality(after) <= Cardinality(before) /\ Cardinality(after) \in Nat /\ Cardinality(before) \in Nat
    BY <2>3, FewerBookings
  <2>5. QED
    BY <1>1, <1>4, <2>4
<1>7. ASSUME NEW t \in Tx, Commit(t), tx[t].op = "hold", tx[t].class = c
      PROVE  Cardinality(after) <= limit
  <2>1. PICK now \in Nat, b \in Bookings : now = tx[t].now /\ b = tx[t].booking
    BY <1>7, RequestTypes DEF BookingInv, TypeOK, Session, Commit
  <2>2. now <= clock /\ now \in 0 .. clock /\ tx[t].student \in Students
    BY <1>1, <1>7, <2>1 DEF BookingInv, RequestsAreWellFormed, Commit
  <2>3. Cardinality(HoldersOf(c, now)) < limit
    BY <1>7, <2>1, <2>2 DEF CountsStand, Asks, Commit
  <2>4. \A x \in Bookings \ {b} : row'[x] = row[x]
    BY <1>7, <2>1, CommitWrites
  <2>5. after \subseteq HoldersOf(c, now) \union {b} /\ HoldersOf(c, now) \subseteq Bookings /\ after \subseteq Bookings
    BY <1>1, <1>3, <2>2, <2>4 DEF HoldersOf, Standing, HoldIsLive
  <2> HIDE DEF before, after, limit
  <2>6. Cardinality(after) <= Cardinality(HoldersOf(c, now)) + 1
    BY <2>5, OneMoreBooking
  <2>7. Cardinality(after) \in Nat /\ Cardinality(HoldersOf(c, now)) \in Nat
    BY <2>5, FewerBookings
  <2>8. QED
    BY <1>1, <2>3, <2>6, <2>7
<1>8. UNCHANGED row => \A x \in Bookings : Standing(x, clock)' => row'[x] = row[x]
  OBVIOUS
<1>9. Cardinality(after) <= limit
  BY <1>5, <1>6, <1>7, <1>8, RowsChangeByCommit
<1>10. QED
  BY <1>9

(* The counts and the two limits they guard, for good.                     *)
LEMMA CapsInvariance == Spec => [](CountsStand /\ HoldCapWithinAClass /\ StandingHoldsFitTheClass)
BY NothingStandsAtFirst, CountsStandStep, HoldCapStep, ClassFitsStep, Invariance, PTL DEF Spec

(* One parent's standing holds in a class stay within the cap, however     *)
(* many sessions hold for the parent at once: the count is made and kept   *)
(* under the class lock.                                                   *)
THEOREM HoldCapKept == Spec => []HoldCapWithinAClass
BY CapsInvariance, PTL

(* No more holds stand in a class at once than it has seats and allowance. *)
THEOREM HoldsFitTheClass == Spec => []StandingHoldsFitTheClass
BY CapsInvariance, PTL
-----------------------------------------------------------------------------
(* The in-memory repository: what its rules, an instance of the same ones, *)
(* say of the committed rows.                                              *)
LEMMA MemoryRules ==
  /\ \A from, to : Memory!CanTransition(from, to) <=> CanTransition(from, to)
  /\ \A deadline, now : Memory!HoldIsLive(deadline, now) <=> HoldIsLive(deadline, now)
  /\ \A status : Memory!IsLive(status) <=> IsLive(status)
  /\ \A a, b : Memory!MaxHolders(a, b) = MaxHolders(a, b)
  /\ \A capacity, taken : Memory!LowestFreeSeat(capacity, taken) = LowestFreeSeat(capacity, taken)
  /\ Memory!NoSeat = NoSeat /\ Memory!NoDeadline = NoDeadline
BY DEF Memory!CanTransition, CanTransition, Memory!Status, Status, Memory!allowedTransitions,
       allowedTransitions, Memory!HoldIsLive, HoldIsLive, Memory!IsLive, IsLive, Memory!MaxHolders,
       MaxHolders, Memory!LowestFreeSeat, LowestFreeSeat, Memory!FreeSeats, FreeSeats,
       Memory!NoSeat, NoSeat, Memory!NoDeadline, NoDeadline

(* A set has as many members there as here.                                *)
LEMMA MemoryCounts == \A S : Memory!Cardinality(S) = Cardinality(S)
BY DEF Memory!Cardinality, Cardinality

(* A row is its five fields.                                               *)
LEMMA RowIsItsFields ==
  ASSUME NEW r \in Row, NEW q \in Row, r.status = q.status, r.student = q.student,
         r.class = q.class, r.seat = q.seat, r.deadline = q.deadline
  PROVE  r = q
BY DEF Row

(* A commit that writes what the map would write stores what it would.     *)
LEMMA SameRowSameStore ==
  ASSUME BookingInv, NEW t \in Tx, Commit(t), NEW changed,
         changed = row'[tx[t].booking], tx[t].from = row[tx[t].booking].status
  PROVE  [rows |-> row', events |-> trail'] = Memory!record(Committed, tx[t].booking, changed)
<1> DEFINE b == tx[t].booking
<1>1. row' = [row EXCEPT ![b] = changed]
  BY CommitWrites DEF Commit, BookingInv, TypeOK
<1>2. changed.status = tx[t].to
  BY CommitWrites
<1>3. trail' = [trail EXCEPT ![b] = Append(@, [from |-> row[b].status, to |-> changed.status])]
  BY <1>2 DEF Commit
<1>4. QED
  BY <1>1, <1>3 DEF Memory!record, Committed

(* What the map makes of the request of a hold.                            *)
LEMMA HoldAgrees ==
  ASSUME BookingInv, CountsStand, NEW t \in Tx, Commit(t), tx[t].op = "hold"
  PROVE  [rows |-> row', events |-> trail'] = InOnePiece(tx[t]).store \/ HeldElsewhere(tx[t])
<1> DEFINE b == tx[t].booking
           s == tx[t].student
           c == tx[t].class
           now == tx[t].now
           p == ParentOf[s]
           answer == Memory!Hold(Committed, b, s, c, now, HoldDeadline(now, HoldTTL))
           inserted == [status |-> "pending_payment", student |-> s, class |-> c,
                        seat |-> Memory!NoSeat, deadline |-> HoldDeadline(now, HoldTTL)]
<1>1. /\ tx[t].at = "commit" /\ s \in Students /\ c \in Classes /\ p \in Parents
      /\ now \in Nat /\ now <= clock /\ clock \in Nat /\ now \in 0 .. clock
      /\ tx[t].from = Absent /\ row[b] = NoRow /\ b \in Bookings
  <2>1. tx[t].at = "commit"
    BY DEF Commit
  <2>2. /\ s \in Students /\ c \in Classes /\ tx[t].from = Absent
        /\ now <= clock /\ now \in Nat /\ clock \in Nat
    BY <2>1 DEF BookingInv, TypeOK, Session, RequestsAreWellFormed
  <2>3. row[b] = NoRow /\ b \in Bookings
    BY CommitWrites DEF HoldsRow
  <2>4. QED
    BY <2>1, <2>2, <2>3
<1>2. InOnePiece(tx[t]) = answer
  BY DEF InOnePiece
<1>3. ~Memory!hasLiveBooking(row, s, c)
  <2>1. LiveOf(s, c) = {}
    BY <1>1 DEF BookingInv, ReadsStayTrue, ReadsOf
  <2>2. QED
    BY <2>1, MemoryRules DEF Memory!hasLiveBooking, Memory!LiveBooking, LiveOf
<1>4. Memory!liveHoldsForParent(row, p, now) = Cardinality(StandingOf(p, now))
  <2>1. StandingOf(p, now) = {x \in Bookings : Memory!IsStanding(row[x], now) /\ ParentOf[row[x].student] = p}
    BY MemoryRules DEF StandingOf, Standing, Memory!IsStanding
  <2>2. QED
    BY <2>1, MemoryCounts DEF Memory!liveHoldsForParent
<1>5. Memory!holders(row, c, now) = Cardinality(HoldersOf(c, now))
  <2>1. HoldersOf(c, now) = {x \in Bookings : row[x].class = c /\
                               (row[x].status = "confirmed" \/ Memory!IsStanding(row[x], now))}
    BY MemoryRules DEF HoldersOf, Standing, Memory!IsStanding
  <2>2. QED
    BY <2>1, MemoryCounts DEF Memory!holders
<1>6. /\ Cardinality(HoldsIn(p, c, now)) < MaxHoldsPerParent
      /\ Cardinality(HoldersOf(c, now)) < MaxHolders(Capacity[c], HoldAllowance[c])
  BY <1>1 DEF CountsStand, Asks
<1>7. /\ HoldsIn(p, c, now) \subseteq StandingOf(p, now)
      /\ StandingOf(p, now) \subseteq Bookings /\ HoldersOf(c, now) \subseteq Bookings
  BY DEF HoldsIn, StandingOf, HoldersOf
<1>8. /\ Cardinality(HoldsIn(p, c, now)) \in Nat /\ Cardinality(StandingOf(p, now)) \in Nat
      /\ Cardinality(HoldersOf(c, now)) \in Nat
      /\ MaxHolders(Capacity[c], HoldAllowance[c]) \in Nat
  BY <1>1, <1>7, FewerBookings DEF MaxHolders
<1>9. CASE Cardinality(StandingOf(p, now)) >= MaxHoldsPerParent
  <2>1. HoldsIn(p, c, now) # StandingOf(p, now)
    BY <1>6, <1>8, <1>9
  <2>2. \E x \in StandingOf(p, now) : row[x].class # c
    BY <2>1 DEF HoldsIn
  <2>3. answer.answer = "ErrTooManyHolds"
    BY <1>3, <1>4, <1>9 DEF Memory!Hold, Memory!Refused, Committed
  <2>4. QED
    BY <1>2, <2>2, <2>3 DEF HeldElsewhere
<1>10. CASE ~(Cardinality(StandingOf(p, now)) >= MaxHoldsPerParent)
  <2>1. ~(Memory!holders(row, c, now) >= Memory!MaxHolders(Capacity[c], HoldAllowance[c]))
    BY <1>5, <1>6, <1>8, MemoryRules
  <2>2. answer = Memory!Granted(Committed, b, inserted)
    BY <1>3, <1>4, <1>10, <2>1 DEF Memory!Hold, Committed
  <2>3. inserted = row'[b]
    <3>1. row' = [row EXCEPT ![b] = Written(tx[t])]
      BY DEF Commit
    <3>2. row'[b] = Written(tx[t])
      BY <1>1, <3>1 DEF BookingInv, TypeOK
    <3>3. QED
      BY <3>2, MemoryRules DEF Written
  <2>4. [rows |-> row', events |-> trail'] = Memory!record(Committed, b, inserted)
    BY <1>1, <2>3, SameRowSameStore DEF NoRow
  <2>5. QED
    BY <1>2, <2>2, <2>4 DEF Memory!Granted
<1>11. QED
  BY <1>9, <1>10

(* Cancel, Fail and Expire: the row lock has kept what they read in place, *)
(* so the map would still let them pass, and write the same.               *)
LEMMA EndingAgrees ==
  ASSUME BookingInv, NEW t \in Tx, Commit(t), tx[t].op \in {"cancel", "fail", "expire"}
  PROVE  [rows |-> row', events |-> trail'] = InOnePiece(tx[t]).store
<1> DEFINE b == tx[t].booking
           stored == row[b]
           moved == Memory!Moved(stored, tx[t].to)
           changed == IF tx[t].op = "cancel" THEN [moved EXCEPT !.seat = Memory!NoSeat] ELSE moved
<1>1. /\ tx[t].at = "commit" /\ b \in Bookings /\ stored \in Row /\ tx[t].now \in Nat /\ tx[t].now <= clock
      /\ clock \in Nat /\ stored.status # Absent /\ row'[b] \in Row
  <2>1. tx[t].at = "commit"
    BY DEF Commit
  <2>2. b \in Bookings /\ row'[b] \in Row
    BY CommitWrites
  <2>3. /\ stored \in Row /\ tx[t].now \in Nat /\ tx[t].now <= clock /\ clock \in Nat
        /\ stored.status # Absent
    BY <2>1, <2>2 DEF BookingInv, TypeOK, Session, RequestsAreWellFormed, RequestsMeetTheirRows, Operation
  <2>4. QED
    BY <2>1, <2>2, <2>3
<1>2. HoldsRow(t)
  BY <1>1 DEF HoldsRow, Operation
<1>3. /\ tx[t].from = stored.status
      /\ tx[t].op # "cancel" => stored.status = "pending_payment"
      /\ tx[t].op = "cancel" => CanTransition(stored.status, "cancelled")
      /\ tx[t].to = EndStatus[tx[t].op]
  BY <1>1, <1>2 DEF BookingInv, ReadsStayTrue, ReadsOf
<1>4. /\ tx[t].op = "cancel" => tx[t].to = "cancelled"
      /\ tx[t].op = "fail" => tx[t].to = "payment_failed"
      /\ tx[t].op = "expire" => tx[t].to = "expired"
  BY <1>3, Arrows
<1>5. tx[t].op = "expire" => ~HoldIsLive(stored.deadline, tx[t].now)
  <2>1. tx[t].op = "expire" => stored.deadline <= tx[t].now
    BY <1>2 DEF BookingInv, ReadsStayTrue, ReadsOf
  <2>2. stored.deadline \in Nat
    BY <1>1 DEF Row
  <2>3. QED
    BY <1>1, <2>1, <2>2 DEF HoldIsLive
<1>6. /\ row'[b].status = tx[t].to /\ row'[b].deadline = NoDeadline /\ row'[b].seat = NoSeat
      /\ row'[b].student = stored.student /\ row'[b].class = stored.class
      /\ tx[t].to \in Status
  BY <1>1, <1>4, CommitWrites DEF NoRow
<1>7. /\ changed.status = tx[t].to /\ changed.deadline = NoDeadline
      /\ changed.student = stored.student /\ changed.class = stored.class
      /\ changed.seat = IF tx[t].op = "cancel" THEN NoSeat ELSE stored.seat
      /\ changed \in Row
  <2>1. /\ moved \in Row /\ moved.status = tx[t].to /\ moved.deadline = NoDeadline /\ moved.seat = stored.seat
        /\ moved.student = stored.student /\ moved.class = stored.class
    BY <1>1, <1>6, MemoryRules DEF Memory!Moved, Row, NoDeadline
  <2> HIDE DEF moved
  <2>2. CASE tx[t].op = "cancel"
    BY <2>1, <2>2, MemoryRules DEF Row, NoSeat
  <2>3. CASE tx[t].op # "cancel"
    BY <2>1, <2>3
  <2>4. QED
    BY <2>2, <2>3
<1>8. tx[t].op # "cancel" => stored.seat = NoSeat
  BY <1>1, <1>3 DEF BookingInv, SeatAndDeadlineFollowStatus
<1> HIDE DEF changed
<1>9. changed = row'[b]
  BY <1>1, <1>6, <1>7, <1>8, RowIsItsFields
<1>10. [rows |-> row', events |-> trail'] = Memory!record(Committed, b, changed)
  BY <1>3, <1>9, SameRowSameStore
<1>11. Memory!Found(Committed, b) /\ Committed.rows[b] = stored
  BY <1>1 DEF Memory!Found, Committed, Absent
<1>12. InOnePiece(tx[t]).store = Memory!record(Committed, b, changed)
  <2>1. CASE tx[t].op = "cancel"
    <3>1. InOnePiece(tx[t]) = Memory!Cancel(Committed, b)
      BY <2>1 DEF InOnePiece
    <3>2. Memory!CanTransition(stored.status, "cancelled")
      BY <1>3, <2>1, MemoryRules
    <3>3. QED
      BY <1>4, <1>11, <2>1, <3>1, <3>2 DEF Memory!Cancel, Memory!Granted, changed
  <2>2. CASE tx[t].op = "fail"
    <3>1. InOnePiece(tx[t]) = Memory!Fail(Committed, b)
      BY <2>2 DEF InOnePiece
    <3>2. QED
      BY <1>3, <1>4, <1>11, <2>2, <3>1 DEF Memory!Fail, Memory!Granted, changed
  <2>3. CASE tx[t].op = "expire"
    <3>1. InOnePiece(tx[t]) = Memory!Expire(Committed, b, tx[t].now)
      BY <2>3 DEF InOnePiece
    <3>2. ~Memory!HoldIsLive(stored.deadline, tx[t].now)
      BY <1>5, <2>3, MemoryRules
    <3>3. QED
      BY <1>3, <1>4, <1>11, <2>3, <3>1, <3>2 DEF Memory!Expire, Memory!Granted, changed
  <2>4. QED
    BY <2>1, <2>2, <2>3
<1>13. QED
  BY <1>10, <1>12

(* The seats the two stores look for a free one among.                     *)
LEMMA SeatsTakenAgree == \A c : Memory!seatsTaken(row, c) = TakenSeats(c)
BY MemoryRules DEF Memory!seatsTaken, TakenSeats

(* Confirm, at the query that decides it.                                  *)
LEMMA ConfirmAgrees ==
  ASSUME BookingInv, NEW t \in Tx, ChooseSeat(t)
  PROVE  /\ tx'[t].to = InOnePiece(tx[t]).answer
         /\ tx'[t].seat = InOnePiece(tx[t]).store.rows[tx[t].booking].seat
<1> DEFINE b == tx[t].booking
           stored == row[b]
           c == stored.class
           seat == LowestFreeSeat(Capacity[c], TakenSeats(c))
           found == Memory!LowestFreeSeat(Capacity[c], Memory!seatsTaken(row, c))
           lost == Memory!Moved(stored, "refund_required")
           given == [Memory!Moved(stored, "confirmed") EXCEPT !.seat = found]
<1>1. tx[t].at = "chooseSeat" /\ tx[t].op = "confirm" /\ b \in Bookings /\ tx[t] \in Session
      /\ stored \in Row /\ HoldsRow(t)
  BY RequestTypes DEF ChooseSeat, BookingInv, TypeOK, RequestsAreWellFormed, Operation, HoldsRow
<1>2. stored.status = "pending_payment" /\ tx[t].class = c
  BY <1>1 DEF BookingInv, ReadsStayTrue, ReadsOf, RequestsMeetTheirRows
<1>3. stored.seat = NoSeat
  BY <1>1, <1>2 DEF BookingInv, SeatAndDeadlineFollowStatus
<1>4. tx'[t].seat = seat /\ tx'[t].to = IF seat = NoSeat THEN "refund_required" ELSE "confirmed"
  BY <1>1, <1>2 DEF ChooseSeat, BookingInv, TypeOK, Session
<1>5. found = seat
  BY SeatsTakenAgree, MemoryRules
<1> HIDE DEF seat, found
<1>6. /\ lost.status = "refund_required" /\ lost.seat = NoSeat
      /\ given.status = "confirmed" /\ given.seat = found
  BY <1>1, <1>3 DEF Memory!Moved, Row
<1>7. InOnePiece(tx[t]) = IF found = Memory!NoSeat THEN Memory!Granted(Committed, b, lost)
                                                  ELSE Memory!Granted(Committed, b, given)
  <2>1. InOnePiece(tx[t]) = Memory!Confirm(Committed, b)
    BY <1>1 DEF InOnePiece
  <2>2. Memory!Found(Committed, b) /\ Committed.rows = row
    BY <1>2 DEF Memory!Found, Committed
  <2>3. QED
    BY <1>2, <2>1, <2>2 DEF Memory!Confirm, found
<1>8. ASSUME NEW changed PROVE Memory!Granted(Committed, b, changed).store.rows[b] = changed
                            /\ Memory!Granted(Committed, b, changed).answer = changed.status
  BY <1>1 DEF Memory!Granted, Memory!record, Committed, BookingInv, TypeOK
<1>9. CASE seat = NoSeat
  <2>1. InOnePiece(tx[t]) = Memory!Granted(Committed, b, lost)
    BY <1>5, <1>7, <1>9, MemoryRules
  <2>2. InOnePiece(tx[t]).answer = "refund_required" /\ InOnePiece(tx[t]).store.rows[b] = lost
    BY <1>6, <1>8, <2>1
  <2>3. QED
    BY <1>4, <1>6, <1>9, <2>2
<1>10. CASE seat # NoSeat
  <2>1. InOnePiece(tx[t]) = Memory!Granted(Committed, b, given)
    BY <1>5, <1>7, <1>10, MemoryRules
  <2>2. InOnePiece(tx[t]).answer = "confirmed" /\ InOnePiece(tx[t]).store.rows[b] = given
    BY <1>6, <1>8, <2>1
  <2>3. QED
    BY <1>4, <1>5, <1>6, <1>10, <2>2
<1>11. QED
  BY <1>9, <1>10

(* As many seats are taken as there are bookings carrying one, when no two *)
(* carry the same, so what is left to show is what is left to give.        *)
LEMMA SeatsAreCounted ==
  ASSUME NEW carriers, carriers \subseteq Bookings,
         NEW seatOf \in [carriers -> Nat], NEW capacity \in Nat,
         \A b \in carriers : seatOf[b] \in 1 .. capacity,
         \A b, other \in carriers : seatOf[b] = seatOf[other] => b = other
  PROVE  LET taken == {seatOf[b] : b \in carriers}
         IN  /\ Cardinality(carriers) \in Nat
             /\ Cardinality(carriers) <= capacity
             /\ Cardinality(FreeSeats(capacity, taken)) = capacity - Cardinality(carriers)
<1> DEFINE taken == {seatOf[b] : b \in carriers}
<1>1. IsFiniteSet(carriers) /\ Cardinality(carriers) \in Nat
  BY BookingsAssumption, FS_Subset, FS_CardinalityType
<1>2. seatOf \in Bijection(carriers, taken)
  <2>1. seatOf \in [carriers -> taken]
    OBVIOUS
  <2>2. \A seat \in taken : \E b \in carriers : seatOf[b] = seat
    OBVIOUS
  <2> HIDE DEF taken
  <2>3. seatOf \in Injection(carriers, taken)
    BY <2>1 DEF Injection, IsInjective
  <2>4. seatOf \in Surjection(carriers, taken)
    BY <2>1, <2>2 DEF Surjection
  <2>5. QED
    BY <2>3, <2>4 DEF Bijection
<1>3. IsFiniteSet(taken) /\ Cardinality(taken) = Cardinality(carriers)
  BY <1>1, <1>2, FS_Bijection DEF ExistsBijection
<1>4. IsFiniteSet(1 .. capacity) /\ Cardinality(1 .. capacity) = capacity
  <2>1. IsFiniteSet(1 .. capacity) /\ Cardinality(1 .. capacity) = IF 1 > capacity THEN 0 ELSE capacity - 1 + 1
    BY FS_Interval
  <2>2. QED
    BY <2>1
<1>5. (1 .. capacity) \intersect taken = taken
  OBVIOUS
<1>6. /\ Cardinality((1 .. capacity) \ taken) = capacity - Cardinality(taken)
      /\ Cardinality(taken) <= capacity
  <2>1. Cardinality((1 .. capacity) \ taken) = Cardinality(1 .. capacity) - Cardinality((1 .. capacity) \intersect taken)
    BY <1>4, FS_Difference
  <2>2. Cardinality(taken) <= Cardinality(1 .. capacity)
    BY <1>4, <1>5, FS_Subset
  <2>3. QED
    BY <1>4, <1>5, <2>1, <2>2
<1>7. QED
  BY <1>1, <1>3, <1>6 DEF FreeSeats

(* What a reader is told of the committed rows, by either store.           *)
ReadersAgree ==
  \A s \in Students, c \in Classes :
    /\ Cardinality(LiveBooking(s, c)) <= 1
    /\ LiveBooking(s, c) = Memory!LiveBooking(row, s, c)
    /\ SeatsRemaining(c) = Cardinality(FreeSeats(Capacity[c], Memory!seatsTaken(row, c)))

LEMMA ReadersAgreeAlways == BookingInv => ReadersAgree
<1> SUFFICES ASSUME BookingInv, NEW s \in Students, NEW c \in Classes
             PROVE  /\ Cardinality(LiveBooking(s, c)) <= 1
                    /\ LiveBooking(s, c) = Memory!LiveBooking(row, s, c)
                    /\ SeatsRemaining(c) = Cardinality(FreeSeats(Capacity[c], Memory!seatsTaken(row, c)))
  BY DEF ReadersAgree
<1>1. LiveBooking(s, c) = Memory!LiveBooking(row, s, c)
  BY MemoryRules DEF LiveBooking, Memory!LiveBooking, IsLive
<1>2. Cardinality(LiveBooking(s, c)) <= 1
  <2>1. CASE LiveBooking(s, c) = {}
    BY <2>1, FS_EmptySet
  <2>2. CASE LiveBooking(s, c) # {}
    <3>1. PICK b : b \in LiveBooking(s, c)
      BY <2>2
    <3>2. LiveBooking(s, c) = {b}
      BY <3>1 DEF LiveBooking, BookingInv, LiveBookingsDiffer, IsLive
    <3>3. QED
      BY <3>2, FS_Singleton
  <2>3. QED
    BY <2>1, <2>2
<1>3. SeatsRemaining(c) = Cardinality(FreeSeats(Capacity[c], Memory!seatsTaken(row, c)))
  <2> DEFINE carriers == {b \in Bookings : row[b].class = c /\ row[b].seat # NoSeat}
             seatOf == [b \in carriers |-> row[b].seat]
             taken == {seatOf[b] : b \in carriers}
             capacity == Capacity[c]
  <2>1. seatOf \in [carriers -> Nat] /\ capacity \in Nat /\ carriers \subseteq Bookings
    BY DEF BookingInv, TypeOK, Row
  <2>2. /\ \A b \in carriers : seatOf[b] \in 1 .. capacity
        /\ \A b, other \in carriers : seatOf[b] = seatOf[other] => b = other
    BY DEF BookingInv, SeatsAreExclusive
  <2>3. Memory!seatsTaken(row, c) = taken
    BY MemoryRules DEF Memory!seatsTaken
  <2>4. SeatsRemaining(c) = IF Cardinality(carriers) > capacity THEN 0 ELSE capacity - Cardinality(carriers)
    BY DEF SeatsRemaining
  <2> HIDE DEF carriers, seatOf, capacity
  <2>5. /\ Cardinality(carriers) \in Nat /\ Cardinality(carriers) <= capacity
        /\ Cardinality(FreeSeats(capacity, taken)) = capacity - Cardinality(carriers)
    BY <2>1, <2>2, SeatsAreCounted
  <2>6. SeatsRemaining(c) = capacity - Cardinality(carriers)
    BY <2>1, <2>4, <2>5
  <2>7. QED
    BY <2>3, <2>5, <2>6 DEF capacity
<1>4. QED
  BY <1>1, <1>2, <1>3

(* Which step ends a transaction with a new audit line, and which decides  *)
(* a confirmation.                                                         *)
LEMMA DecidingSteps ==
  ASSUME BookingInv, [Next]_vars, NEW t \in Tx
  PROVE  /\ trail' # trail /\ tx[t].at = "commit" /\ tx'[t].at = "idle" => Commit(t)
         /\ tx[t].at = "chooseSeat" /\ tx'[t].at = "commit" => ChooseSeat(t)
<1> USE DEF BookingInv
<1>1. CASE Tick \/ UNCHANGED vars
  BY <1>1 DEF Tick, vars
<1>2. ASSUME NEW u \in Tx, u # t,
             Begin(u) \/ LockClass(u) \/ LockRow(u) \/ Statement(u) \/ Abort(u)
      PROVE  tx'[t] = tx[t]
  BY <1>2 DEF TypeOK, Begin, BeginHold, BeginConfirm, BeginEnding, LockClass, LockRow, Statement,
              CountDuplicates, CountStanding, CountHolders, ChooseSeat, Commit, Abort, Rollback, Advance
<1>3. CASE Rollback(t)
  BY <1>3 DEF TypeOK, Rollback, Idle
<1>4. CASE Begin(t)
  BY <1>4 DEF Begin, BeginHold, BeginConfirm, BeginEnding
<1>5. CASE LockClass(t) \/ LockRow(t) \/ CountDuplicates(t) \/ CountStanding(t) \/ CountHolders(t)
  BY <1>3, <1>5 DEF LockClass, LockRow, CountDuplicates, CountStanding, CountHolders
<1>6. CASE ChooseSeat(t)
  BY <1>6 DEF ChooseSeat
<1>7. CASE Commit(t)
  BY <1>7 DEF Commit
<1>8. QED
  BY <1>1, <1>2, <1>3, <1>4, <1>5, <1>6, <1>7 DEF Next, Statement, Abort

(* The statement-by-statement transactions, in any interleaving, commit    *)
(* what the in-memory repository would have stored in one piece, but for a *)
(* hold of a parent with holds in another class; and readers are told the  *)
(* same by both.                                                           *)
THEOREM StoresAgree == Spec => AgreesWithMemory
<1> DEFINE Agree(t) ==
             /\ tx[t].op # "confirm" /\ trail' # trail /\ tx[t].at = "commit" /\ tx'[t].at = "idle"
                  => \/ [rows |-> row', events |-> trail'] = InOnePiece(tx[t]).store
                     \/ HeldElsewhere(tx[t])
             /\ tx[t].at = "chooseSeat" /\ tx'[t].at = "commit"
                  => /\ tx'[t].to = InOnePiece(tx[t]).answer
                     /\ tx'[t].seat = InOnePiece(tx[t]).store.rows[tx[t].booking].seat
<1>1. BookingInv /\ CountsStand /\ [Next]_vars => \A t \in Tx : Agree(t)
  <2> SUFFICES ASSUME BookingInv, CountsStand, [Next]_vars, NEW t \in Tx PROVE Agree(t)
    OBVIOUS
  <2>1. ASSUME Commit(t), tx[t].op # "confirm"
        PROVE  [rows |-> row', events |-> trail'] = InOnePiece(tx[t]).store \/ HeldElsewhere(tx[t])
    <3>1. tx[t].op \in {"hold", "cancel", "fail", "expire"}
      BY <2>1, RequestTypes DEF Commit, Operation
    <3>2. QED
      BY <2>1, <3>1, HoldAgrees, EndingAgrees
  <2>2. QED
    BY <2>1, DecidingSteps, ConfirmAgrees
<1>2. BookingInv /\ [Next]_vars => ReadersAgree'
  BY NextInv, ReadersAgreeAlways, PTL
<1>3. BookingInv /\ CountsStand /\ [Next]_vars =>
        [/\ \A t \in Tx : Agree(t)
         /\ \A s \in Students, c \in Classes :
              /\ Cardinality(LiveBooking(s, c)') <= 1
              /\ LiveBooking(s, c)' = Memory!LiveBooking(row', s, c)
              /\ SeatsRemaining(c)' = Cardinality(FreeSeats(Capacity[c], Memory!seatsTaken(row', c)))]_vars
  <2> SUFFICES ASSUME BookingInv, CountsStand, [Next]_vars
               PROVE  /\ \A t \in Tx : Agree(t)
                      /\ \A s \in Students, c \in Classes :
                           /\ Cardinality(LiveBooking(s, c)') <= 1
                           /\ LiveBooking(s, c)' = Memory!LiveBooking(row', s, c)
                           /\ SeatsRemaining(c)' = Cardinality(FreeSeats(Capacity[c], Memory!seatsTaken(row', c)))
    OBVIOUS
  <2>1. \A t \in Tx : Agree(t)
    BY <1>1
  <2>2. ReadersAgree'
    BY <1>2
  <2>3. QED
    BY <2>1, <2>2 DEF ReadersAgree
<1>4. QED
  BY <1>3, Invariance, CapsInvariance, PTL DEF Spec, AgreesWithMemory
-----------------------------------------------------------------------------
(***************************************************************************)
(* The repository implements the seat ledger, step by step.                *)
(***************************************************************************)

(* What the sessions are to the ledger.                                    *)
Held == [c \in Classes |-> HeldIn(c)]
Owners == [c \in Classes |-> [seat \in 1 .. Capacity[c] |-> OwnersOf(c, seat)]]

(* Only a confirmation refuses a seat, with its booking's row locked.      *)
LEMMA RefusingConfirms ==
  ASSUME BookingInv, NEW t \in Tx, Refusing(t)
  PROVE  /\ tx[t].op = "confirm" /\ HoldsRow(t) /\ tx[t].booking \in Bookings
         /\ row[tx[t].booking].status = "pending_payment"
         /\ rowLock[tx[t].booking] = t
<1>1. tx[t].op \in {"hold", "confirm", "cancel", "fail", "expire"} /\ tx[t].booking \in Bookings
  BY RequestTypes DEF Refusing, Operation
<1>2. tx[t].op = "confirm"
  BY <1>1, Arrows DEF Refusing, BookingInv, RequestsAreWellFormed, ReadsStayTrue, ReadsOf
<1>3. HoldsRow(t)
  BY <1>2 DEF HoldsRow, Refusing, Operation
<1>4. QED
  BY <1>1, <1>2, <1>3 DEF BookingInv, LocksAreHeld, ReadsStayTrue, ReadsOf

(* One session at most has a booking's row locked, so a booking whose row  *)
(* session t has locked is refused by t or by nobody.                      *)
LEMMA OneRefuser ==
  ASSUME BookingInv, NEW t \in Tx, HoldsRow(t)
  PROVE  /\ tx[t].booking \in Refused <=> Refusing(t)
         /\ \A u \in Tx \ {t} : Refusing(u) => tx[u].booking # tx[t].booking
<1>1. rowLock[tx[t].booking] = t /\ tx[t].booking \in Bookings
  BY LockTypes DEF BookingInv, LocksAreHeld
<1>2. \A u \in Tx : Refusing(u) /\ tx[u].booking = tx[t].booking => u = t
  BY <1>1, RefusingConfirms
<1>3. QED
  BY <1>1, <1>2 DEF Refused

(* Steps that change no row and nobody's refusal are invisible.            *)
LEMMA Invisible ==
  ASSUME UNCHANGED row, Refused' = Refused
  PROVE  UNCHANGED Ledger!ledger
BY DEF Ledger!ledger, Seen, HeldIn, OwnersOf, With

(* Sessions that stay as they are, or refuse neither before nor after.     *)
LEMMA RefusedUnchanged ==
  ASSUME NEW t \in Tx, \A u \in Tx \ {t} : tx'[u] = tx[u], ~Refusing(t), ~Refusing(t)'
  PROVE  Refused' = Refused
BY DEF Refused, Refusing

(* A session that stops refusing its booking.                              *)
LEMMA RefusedLess ==
  ASSUME BookingInv, NEW t \in Tx, \A u \in Tx \ {t} : tx'[u] = tx[u], Refusing(t), ~Refusing(t)'
  PROVE  tx[t].booking \in Refused /\ Refused' = Refused \ {tx[t].booking}
<1>1. \A u \in Tx \ {t} : Refusing(u) => tx[u].booking # tx[t].booking
  BY RefusingConfirms, OneRefuser
<1>2. \A u \in Tx \ {t} : (Refusing(u)' <=> Refusing(u)) /\ tx'[u].booking = tx[u].booking
  BY DEF Refusing
<1>3. tx[t].booking \in Bookings
  BY RefusingConfirms
<1>4. QED
  BY <1>1, <1>2, <1>3 DEF Refused

(* A rolled-back session forgets its refusal, if it had made one.          *)
LEMMA RollbackRefines ==
  ASSUME BookingInv, NEW t \in Tx, Rollback(t)
  PROVE  [Ledger!Next]_(Ledger!ledger)
<1>1. UNCHANGED row /\ (\A u \in Tx \ {t} : tx'[u] = tx[u]) /\ tx'[t] = Idle
  BY DEF Rollback, BookingInv, TypeOK
<1>2. ~Refusing(t)'
  BY <1>1 DEF Refusing, Idle
<1>3. CASE ~Refusing(t)
  BY <1>1, <1>2, <1>3, RefusedUnchanged, Invisible
<1>4. CASE Refusing(t)
  <2>1. tx[t].booking \in Refused /\ Refused' = Refused \ {tx[t].booking}
    BY <1>1, <1>2, <1>4, RefusedLess
  <2>2. UNCHANGED <<Seen, [c \in Classes |-> HeldIn(c)],
                    [c \in Classes |-> [seat \in 1 .. Capacity[c] |-> OwnersOf(c, seat)]],
                    With("refund_required")>>
    BY <1>1 DEF Seen, HeldIn, OwnersOf, With
  <2>3. Ledger!Forget(tx[t].booking)
    BY <2>1, <2>2 DEF Ledger!Forget
  <2>4. tx[t].booking \in Bookings
    BY <1>4, RefusingConfirms
  <2>5. QED
    BY <2>3, <2>4 DEF Ledger!Next
<1>5. QED
  BY <1>3, <1>4

(* The search for a seat: it is refused only when every seat has an owner. *)
LEMMA ChooseSeatRefines ==
  ASSUME BookingInv, NEW t \in Tx, ChooseSeat(t)
  PROVE  [Ledger!Next]_(Ledger!ledger)
<1> DEFINE b == tx[t].booking
           c == tx[t].class
           seat == LowestFreeSeat(Capacity[c], TakenSeats(c))
<1>1. /\ tx[t].at = "chooseSeat" /\ tx[t].op = "confirm" /\ b \in Bookings /\ c \in Classes
      /\ UNCHANGED row /\ (\A u \in Tx \ {t} : tx'[u] = tx[u])
      /\ tx'[t].at = "commit" /\ tx'[t].booking = b /\ HoldsRow(t) /\ HoldsRow(t)'
      /\ tx'[t].to = IF seat = NoSeat THEN "refund_required" ELSE "confirmed"
  BY RequestTypes DEF ChooseSeat, BookingInv, TypeOK, Session, RequestsAreWellFormed, Operation, HoldsRow
<1>2. ~Refusing(t)
  BY <1>1 DEF Refusing
<1>3. CASE seat # NoSeat
  <2>1. ~Refusing(t)'
    BY <1>1, <1>3 DEF Refusing
  <2>2. QED
    BY <1>1, <1>2, <2>1, RefusedUnchanged, Invisible
<1>4. CASE seat = NoSeat
  <2>1. Refusing(t)'
    BY <1>1, <1>4 DEF Refusing
  <2>2. b \notin Refused /\ row[b].status = "pending_payment" /\ row[b].class = c
    BY <1>1, <1>2, OneRefuser DEF BookingInv, ReadsStayTrue, ReadsOf, RequestsMeetTheirRows
  <2>3. Refused' = Refused \union {b}
    <3>1. \A u \in Tx \ {t} : (Refusing(u)' <=> Refusing(u)) /\ tx'[u].booking = tx[u].booking
      BY <1>1 DEF Refusing
    <3>2. QED
      BY <1>1, <1>2, <2>1, <3>1 DEF Refused
  <2>4. FreeSeats(Capacity[c], TakenSeats(c)) = {}
    <3>1. Capacity[c] \in Nat
      BY <1>1
    <3>2. QED
      BY <1>4, <3>1, LowestFreeSeatIsLowest DEF NoSeat
  <2>5. \A s \in 1 .. Capacity[c] : OwnersOf(c, s) # {}
    BY <2>4 DEF FreeSeats, TakenSeats, OwnersOf
  <2>6. b \in Held[c] \ Refused /\ \A s \in 1 .. Capacity[c] : Owners[c][s] # {}
    BY <1>1, <2>2, <2>5 DEF Held, Owners, HeldIn, With
  <2>7. UNCHANGED <<Seen, Held, Owners, With("refund_required")>>
    BY <1>1 DEF Seen, Held, Owners, HeldIn, OwnersOf, With
  <2>8. Ledger!Refuse(b, c)
    BY <2>3, <2>6, <2>7 DEF Ledger!Refuse, Held, Owners
  <2>9. QED
    BY <1>1, <2>8 DEF Ledger!Next
<1>5. QED
  BY <1>3, <1>4

(* How the ledger's two tables change with the sets they are made of.      *)
LEMMA HeldChanges ==
  /\ (\A k \in Classes : HeldIn(k)' = HeldIn(k)) => Held' = Held
  /\ \A c \in Classes : \A S :
       HeldIn(c)' = S /\ (\A k \in Classes \ {c} : HeldIn(k)' = HeldIn(k))
         => Held' = [Held EXCEPT ![c] = S]
BY DEF Held

LEMMA OwnersStay ==
  (\A k \in Classes : \A n \in 1 .. Capacity[k] : OwnersOf(k, n)' = OwnersOf(k, n)) => Owners' = Owners
BY DEF Owners

LEMMA OneSeatChanges ==
  ASSUME NEW c \in Classes, NEW seat \in 1 .. Capacity[c], NEW S, OwnersOf(c, seat)' = S,
         \A k \in Classes : \A n \in 1 .. Capacity[k] :
           k # c \/ n # seat => OwnersOf(k, n)' = OwnersOf(k, n)
  PROVE  Owners' = [Owners EXCEPT ![c][seat] = S]
<1>1. /\ \A k \in Classes : Owners[k] = [n \in 1 .. Capacity[k] |-> OwnersOf(k, n)]
      /\ \A k \in Classes : Owners'[k] = [n \in 1 .. Capacity[k] |-> OwnersOf(k, n)']
      /\ Owners = [k \in Classes |-> Owners[k]] /\ Owners' = [k \in Classes |-> Owners'[k]]
  BY DEF Owners
<1>2. ASSUME NEW k \in Classes \ {c} PROVE Owners'[k] = Owners[k]
  <2>1. \A n \in 1 .. Capacity[k] : OwnersOf(k, n)' = OwnersOf(k, n)
    OBVIOUS
  <2>2. Owners'[k] = [n \in 1 .. Capacity[k] |-> OwnersOf(k, n)'] /\ Owners[k] = [n \in 1 .. Capacity[k] |-> OwnersOf(k, n)]
    BY <1>1
  <2>3. QED
    BY <2>1, <2>2
<1>3. Owners'[c] = [Owners[c] EXCEPT ![seat] = S]
  <2>1. \A n \in 1 .. Capacity[c] : OwnersOf(c, n)' = IF n = seat THEN S ELSE OwnersOf(c, n)
    OBVIOUS
  <2>2. Owners'[c] = [n \in 1 .. Capacity[c] |-> OwnersOf(c, n)'] /\ Owners[c] = [n \in 1 .. Capacity[c] |-> OwnersOf(c, n)]
    BY <1>1
  <2>3. QED
    BY <2>1, <2>2
<1>4. QED
  BY <1>1, <1>2, <1>3

(* Only a cancellation starts from anything but a hold.                    *)
LEMMA ArrowsBack ==
  \A from, to : CanTransition(from, to) /\ to \in Status /\ to # "cancelled" => from = "pending_payment"
BY DEF CanTransition, Status, allowedTransitions

(* The commit of a hold admits its booking.                                *)
LEMMA HoldRefines ==
  ASSUME BookingInv, NEW t \in Tx, Commit(t), tx[t].op = "hold"
  PROVE  Ledger!Next
<1>1. PICK b, c : b = tx[t].booking /\ c = tx[t].class
  OBVIOUS
<1>2. /\ b \in Bookings /\ c \in Classes
      /\ \A x \in Bookings \ {b} : row'[x] = row[x]
      /\ row[b].status = Absent /\ row[b].seat = NoSeat
      /\ row'[b].status = "pending_payment" /\ row'[b].seat = NoSeat /\ row'[b].class = c
      /\ tx[t].to = "pending_payment"
  BY <1>1, CommitWrites DEF HoldsRow, NoRow
<1>3. b \notin Seen /\ Seen' = Seen \union {b}
  BY <1>2 DEF Seen, Absent
<1>4. Held' = [Held EXCEPT ![c] = @ \union {b}]
  <2>1. HeldIn(c)' = HeldIn(c) \union {b}
    BY <1>2 DEF HeldIn, With, Absent
  <2>2. \A k \in Classes \ {c} : HeldIn(k)' = HeldIn(k)
    BY <1>2 DEF HeldIn, With, Absent
  <2>3. Held[c] = HeldIn(c)
    BY <1>2 DEF Held
  <2>4. QED
    BY <1>2, <2>1, <2>2, <2>3, HeldChanges
<1>5. Owners' = Owners
  <2>1. \A k \in Classes : \A n \in 1 .. Capacity[k] : OwnersOf(k, n)' = OwnersOf(k, n)
    BY <1>2 DEF OwnersOf, NoSeat
  <2>2. QED
    BY <2>1, OwnersStay
<1>6. With("refund_required")' = With("refund_required")
  BY <1>2 DEF With, Absent
<1>7. Refused' = Refused
  <2>1. tx'[t] = Idle /\ \A u \in Tx \ {t} : tx'[u] = tx[u]
    BY DEF Commit, BookingInv, TypeOK
  <2>2. ~Refusing(t) /\ ~Refusing(t)'
    BY <1>2, <2>1 DEF Refusing, Idle
  <2>3. QED
    BY <2>1, <2>2, RefusedUnchanged
<1>8. Ledger!Admit(b, c)
  BY <1>3, <1>4, <1>5, <1>6, <1>7 DEF Ledger!Admit, Held, Owners
<1>9. QED
  BY <1>2, <1>8 DEF Ledger!Next

(* The commit of any other operation: a holder is given a seat, is owed a  *)
(* refund or leaves, an owner vacates a seat, or a debt is closed.         *)
LEMMA EndingRefines ==
  ASSUME BookingInv, NEW t \in Tx, Commit(t), tx[t].op # "hold"
  PROVE  Ledger!Next
<1>1. PICK b, c, to : b = tx[t].booking /\ c = row[b].class /\ to = tx[t].to
  OBVIOUS
<1>2. /\ b \in Bookings /\ c \in Classes /\ HoldsRow(t) /\ to \in Status
      /\ \A x \in Bookings \ {b} : row'[x] = row[x]
      /\ row[b].status \in Status /\ row'[b].status = to
      /\ row'[b].class = c /\ row'[b].seat = IF to = "confirmed" THEN tx[t].seat ELSE NoSeat
      /\ to \in {"confirmed", "refund_required", "payment_failed", "expired", "cancelled"}
      /\ CanTransition(row[b].status, to)
      /\ to = "confirmed" =>
           /\ tx[t].class = c /\ tx[t].seat \in 1 .. Capacity[c] /\ tx[t].seat \notin TakenSeats(c)
  BY <1>1, CommitWrites
<1>3. row[b].status \in {"pending_payment", "confirmed", "refund_required"} /\ row[b].seat \in Nat
      /\ (to # "cancelled" => row[b].status = "pending_payment")
  BY <1>2, Arrows, ArrowsBack DEF BookingInv, TypeOK, Row
<1>4. row[b].seat # NoSeat <=> row[b].status = "confirmed"
  BY <1>2 DEF BookingInv, SeatAndDeadlineFollowStatus
<1>5. /\ tx'[t] = Idle /\ \A u \in Tx \ {t} : tx'[u] = tx[u]
      /\ ~Refusing(t)' /\ (Refusing(t) <=> to = "refund_required")
      /\ (b \in Refused <=> to = "refund_required")
  <2>1. tx'[t] = Idle /\ (\A u \in Tx \ {t} : tx'[u] = tx[u]) /\ tx[t].at = "commit"
    BY DEF Commit, BookingInv, TypeOK
  <2>2. ~Refusing(t)' /\ (Refusing(t) <=> to = "refund_required")
    BY <1>1, <2>1 DEF Refusing, Idle
  <2>3. QED
    BY <1>1, <1>2, <2>1, <2>2, OneRefuser
<1>6. Seen' = Seen
  BY <1>2, StatusSet DEF Seen
<1>7. to # "refund_required" => Refused' = Refused
  BY <1>5, RefusedUnchanged
<1>8. /\ \A k \in Classes \ {c} : HeldIn(k)' = HeldIn(k)
      /\ row[b].status = "pending_payment" => b \in HeldIn(c) /\ HeldIn(c)' = HeldIn(c) \ {b}
      /\ row[b].status # "pending_payment" => HeldIn(c)' = HeldIn(c)
  <2>1. \A x \in Bookings : x # b => row'[x] = row[x]
    BY <1>2
  <2>2. row'[b].status # "pending_payment"
    BY <1>2
  <2>3. \A k : HeldIn(k)' = HeldIn(k) \ {b}
    BY <2>1, <2>2 DEF HeldIn, With
  <2>4. /\ \A k \in Classes \ {c} : b \notin HeldIn(k)
        /\ b \in HeldIn(c) <=> row[b].status = "pending_payment"
    BY <1>1, <1>2 DEF HeldIn, With
  <2>5. QED
    BY <2>3, <2>4
<1>9. /\ row[b].status = "pending_payment" => b \in Held[c] /\ Held' = [Held EXCEPT ![c] = @ \ {b}]
      /\ row[b].status # "pending_payment" => Held' = Held
  <2>1. Held[c] = HeldIn(c)
    BY <1>2 DEF Held
  <2>2. CASE row[b].status = "pending_payment"
    BY <1>2, <1>8, <2>1, <2>2, HeldChanges
  <2>3. CASE row[b].status # "pending_payment"
    BY <1>8, <2>3, HeldChanges
  <2>4. QED
    BY <2>2, <2>3
<1>10. to # "confirmed" /\ row[b].status # "confirmed" => Owners' = Owners
  <2>1. to # "confirmed" /\ row[b].status # "confirmed" =>
          \A k \in Classes : \A n \in 1 .. Capacity[k] : OwnersOf(k, n)' = OwnersOf(k, n)
    BY <1>2, <1>4 DEF OwnersOf, NoSeat
  <2>2. QED
    BY <2>1, OwnersStay
<1>11. to # "refund_required" /\ row[b].status # "refund_required" =>
         With("refund_required")' = With("refund_required")
  BY <1>2 DEF With
<1>12. CASE to = "confirmed"
  <2>1. PICK seat \in 1 .. Capacity[c] : seat = tx[t].seat /\ seat \notin TakenSeats(c)
    BY <1>2, <1>12
  <2>2. row'[b].seat = seat
    BY <1>2, <1>12, <2>1
  <2>3. OwnersOf(c, seat) = {}
    BY <1>2, <2>1 DEF OwnersOf, TakenSeats, NoSeat
  <2>4. OwnersOf(c, seat)' = {b}
    BY <1>2, <2>2, <2>3 DEF OwnersOf
  <2>5. \A k \in Classes : \A n \in 1 .. Capacity[k] :
          k # c \/ n # seat => OwnersOf(k, n)' = OwnersOf(k, n)
    BY <1>2, <1>3, <1>4, <1>12, <2>2 DEF OwnersOf, NoSeat
  <2>6. Owners' = [Owners EXCEPT ![c][seat] = {b}]
    BY <1>2, <2>4, <2>5, OneSeatChanges
  <2>7. Owners[c][seat] = {}
    BY <1>2, <2>3 DEF Owners
  <2>8. Ledger!Assign(b, c, seat)
    BY <1>3, <1>5, <1>6, <1>7, <1>9, <1>11, <1>12, <2>6, <2>7 DEF Ledger!Assign, Held, Owners
  <2>9. QED
    BY <1>2, <2>8 DEF Ledger!Next
<1>13. CASE to = "refund_required"
  <2>1. b \in Refused /\ Refused' = Refused \ {b}
    BY <1>1, <1>5, <1>13, RefusedLess
  <2>2. With("refund_required")' = With("refund_required") \union {b}
    BY <1>2, <1>13 DEF With
  <2>3. Ledger!Owe(b, c)
    BY <1>3, <1>6, <1>9, <1>10, <1>13, <2>1, <2>2 DEF Ledger!Owe, Held, Owners
  <2>4. QED
    BY <1>2, <2>3 DEF Ledger!Next
<1>14. CASE to \in {"payment_failed", "expired", "cancelled"} /\ row[b].status = "pending_payment"
  <2>1. Ledger!Leave(b, c)
    BY <1>5, <1>6, <1>7, <1>9, <1>10, <1>11, <1>14 DEF Ledger!Leave, Held, Owners
  <2>2. QED
    BY <1>2, <2>1 DEF Ledger!Next
<1>15. CASE to = "cancelled" /\ row[b].status = "confirmed"
  <2>1. PICK seat \in 1 .. Capacity[c] : seat = row[b].seat
    BY <1>1, <1>2, <1>4, <1>15 DEF BookingInv, SeatsAreExclusive
  <2>2. OwnersOf(c, seat) = {b}
    BY <1>1, <1>2, <1>4, <1>15, <2>1 DEF OwnersOf, BookingInv, SeatsAreExclusive
  <2>3. OwnersOf(c, seat)' = {}
    BY <1>2, <1>15, <2>1, <2>2 DEF OwnersOf, NoSeat
  <2>4. \A k \in Classes : \A n \in 1 .. Capacity[k] :
          k # c \/ n # seat => OwnersOf(k, n)' = OwnersOf(k, n)
    BY <1>1, <1>2, <1>15, <2>1 DEF OwnersOf, NoSeat
  <2>5. Owners' = [Owners EXCEPT ![c][seat] = {}]
    BY <1>2, <2>3, <2>4, OneSeatChanges
  <2>6. Owners[c][seat] = {b}
    BY <1>2, <2>2 DEF Owners
  <2>7. Ledger!Vacate(b, c, seat)
    BY <1>6, <1>7, <1>9, <1>11, <1>15, <2>5, <2>6 DEF Ledger!Vacate, Held, Owners
  <2>8. QED
    BY <1>2, <2>7 DEF Ledger!Next
<1>16. CASE to = "cancelled" /\ row[b].status = "refund_required"
  <2>1. b \in With("refund_required") /\ With("refund_required")' = With("refund_required") \ {b}
    BY <1>2, <1>16 DEF With
  <2>2. Ledger!Close(b)
    BY <1>6, <1>7, <1>9, <1>10, <1>16, <2>1 DEF Ledger!Close, Held, Owners
  <2>3. QED
    BY <1>2, <2>2 DEF Ledger!Next
<1>17. QED
  BY <1>2, <1>3, <1>12, <1>13, <1>14, <1>15, <1>16

(* Every step of the sessions is a step of the ledger, or invisible to it. *)
LEMMA StepRefines ==
  ASSUME BookingInv, [Next]_vars
  PROVE  [Ledger!Next]_(Ledger!ledger)
<1> USE DEF BookingInv
<1>1. CASE Tick \/ UNCHANGED vars
  <2>1. UNCHANGED <<row, tx>>
    BY <1>1 DEF Tick, vars
  <2>2. Refused' = Refused
    BY <2>1 DEF Refused, Refusing
  <2>3. QED
    BY <2>1, <2>2, Invisible
<1>2. ASSUME NEW t \in Tx, Begin(t) PROVE [Ledger!Next]_(Ledger!ledger)
  <2>1. PICK b \in Bookings :
          \/ \E s \in Students, c \in Classes : BeginHold(t, b, s, c)
          \/ BeginConfirm(t, b)
          \/ \E op \in {"cancel", "fail", "expire"} : BeginEnding(t, b, op)
    BY <1>2 DEF Begin
  <2>2. /\ UNCHANGED row /\ tx[t].at = "idle" /\ \A u \in Tx \ {t} : tx'[u] = tx[u]
    BY <2>1 DEF BeginHold, BeginConfirm, BeginEnding, TypeOK
  <2>3. ASSUME NEW s \in Students, NEW c \in Classes, BeginHold(t, b, s, c)
        PROVE  tx'[t].at = "lockClass"
    BY <2>3 DEF BeginHold, TypeOK, Idle
  <2>4. BeginConfirm(t, b) => tx'[t].at = "lockClass"
    BY DEF BeginConfirm, TypeOK, Idle
  <2>5. ASSUME NEW op, BeginEnding(t, b, op) PROVE tx'[t].at = "lockRow"
    BY <2>5 DEF BeginEnding, TypeOK, Idle
  <2>6. ~Refusing(t) /\ ~Refusing(t)'
    BY <2>1, <2>2, <2>3, <2>4, <2>5 DEF Refusing
  <2>7. QED
    BY <2>2, <2>6, RefusedUnchanged, Invisible
<1>3. ASSUME NEW t \in Tx, ~Rollback(t),
             LockClass(t) \/ LockRow(t) \/ CountDuplicates(t) \/ CountStanding(t) \/ CountHolders(t)
      PROVE  [Ledger!Next]_(Ledger!ledger)
  <2>1. /\ UNCHANGED row /\ \A u \in Tx \ {t} : tx'[u] = tx[u]
        /\ tx[t].at \in {"lockClass", "lockRow", "duplicates", "standing", "holders"}
    BY <1>3 DEF LockClass, LockRow, CountDuplicates, CountStanding, CountHolders, Advance, TypeOK
  <2>2. CASE LockRow(t)
    <3>1. /\ tx[t].op \in {"confirm", "cancel", "fail", "expire"}
          /\ tx[t] \in Session
      BY <2>2, RequestTypes DEF LockRow, TypeOK, RequestsAreWellFormed, Operation
    <3>2. tx'[t].to = IF tx[t].op = "confirm" THEN Absent ELSE EndStatus[tx[t].op]
      BY <1>3, <2>2, <3>1 DEF LockRow, TypeOK, Session
    <3>3. tx'[t].to # "refund_required"
      BY <3>1, <3>2, Arrows DEF Absent
    <3>4. QED
      BY <2>1, <3>3, RefusedUnchanged, Invisible DEF Refusing
  <2>3. CASE ~LockRow(t)
    <3>1. tx'[t].to = tx[t].to /\ (tx'[t].at = "commit" => tx[t].at = "holders")
      BY <1>3, <2>1, <2>3 DEF LockClass, CountDuplicates, CountStanding, CountHolders, Advance, TypeOK, Session
    <3>2. tx[t].at = "holders" => tx[t].to # "refund_required"
      BY RequestTypes DEF RequestsAreWellFormed, Operation
    <3>3. QED
      BY <2>1, <3>1, <3>2, RefusedUnchanged, Invisible DEF Refusing
  <2>4. QED
    BY <2>2, <2>3
<1>4. ASSUME NEW t \in Tx, Rollback(t) \/ ChooseSeat(t) \/ Commit(t)
      PROVE  [Ledger!Next]_(Ledger!ledger)
  BY <1>4, RollbackRefines, ChooseSeatRefines, HoldRefines, EndingRefines
<1>5. QED
  BY <1>1, <1>2, <1>3, <1>4 DEF Next, Statement, Abort

(* The statement-by-statement transactions, in any interleaving and with   *)
(* any aborts, do nothing the seat ledger does not allow.                  *)
THEOREM RefinesLedger == Spec => ImplementsLedger
<1>1. Init => Ledger!Init
  <2> SUFFICES ASSUME Init PROVE Ledger!Init
    OBVIOUS
  <2>1. /\ Seen = {} /\ With("refund_required") = {}
        /\ \A c \in Classes : HeldIn(c) = {}
    BY DEF Init, Seen, With, HeldIn, NoRow, Absent
  <2>2. \A c \in Classes : \A seat \in 1 .. Capacity[c] : OwnersOf(c, seat) = {}
    BY DEF Init, OwnersOf, NoRow, NoSeat
  <2>3. Refused = {}
    BY DEF Init, Refused, Refusing, Idle
  <2>4. QED
    BY <2>1, <2>2, <2>3 DEF Ledger!Init
<1>2. BookingInv /\ [Next]_vars => [Ledger!Next]_(Ledger!ledger)
  BY StepRefines
<1>3. QED
  BY <1>1, <1>2, Invariance, PTL DEF Spec, ImplementsLedger, Ledger!Spec
=============================================================================
