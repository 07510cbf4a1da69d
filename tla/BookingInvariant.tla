-------------------------- MODULE BookingInvariant --------------------------
(***************************************************************************)
(* Why the booking transactions are correct: what every session may count  *)
(* on at each place of its transaction, as an inductive invariant.  The    *)
(* safety properties of BookingTransactions are about the committed rows   *)
(* only; they are not inductive, because a session carries what it read    *)
(* from one statement to the next.                                         *)
(***************************************************************************)
EXTENDS BookingTransactions

HoldsClass(t) ==
  \/ tx[t].op = "hold" /\ tx[t].at \in {"duplicates", "standing", "holders", "commit"}
  \/ tx[t].op = "confirm" /\ tx[t].at \in {"lockRow", "chooseSeat", "commit"}

HoldsRow(t) ==
  tx[t].op \in Operation \ {"hold"} /\ tx[t].at \in {"chooseSeat", "commit"}

(* A lock is recorded for whoever relies on it.                            *)
LocksAreHeld ==
  \A t \in Tx :
    /\ HoldsClass(t) => classLock[tx[t].class] = t
    /\ HoldsRow(t) => rowLock[tx[t].booking] = t

(* Which operation may stand where, and what its request names.            *)
RequestsAreWellFormed ==
  \A t \in Tx :
    /\ tx[t].at = "idle" => tx[t] = Idle
    /\ tx[t].at # "idle" => /\ tx[t].op \in Operation
                            /\ tx[t].booking \in Bookings
                            /\ tx[t].now <= clock
    /\ tx[t].op = "hold" => /\ tx[t].at \in {"lockClass", "duplicates", "standing", "holders", "commit"}
                            /\ tx[t].student \in Students
                            /\ tx[t].class \in Classes
                            /\ tx[t].from = Absent
                            /\ tx[t].to = "pending_payment"
    /\ tx[t].op = "confirm" => tx[t].at \in {"lockClass", "lockRow", "chooseSeat", "commit"}
    /\ tx[t].op \in {"cancel", "fail", "expire"} => tx[t].at \in {"lockRow", "commit"}

(* The row a hold is about to insert exists nowhere else; the row any      *)
(* other operation works on exists, in the class Confirm read.             *)
RequestsMeetTheirRows ==
  \A t \in Tx :
    /\ tx[t].op = "hold" => /\ row[tx[t].booking].status = Absent
                            /\ \A u \in Tx \ {t} : tx[u].booking # tx[t].booking
    /\ tx[t].op \in Operation \ {"hold"} => row[tx[t].booking].status # Absent
    /\ tx[t].op = "confirm" => tx[t].class = row[tx[t].booking].class

(* What a session read is still true when it commits.                      *)
ReadsOf(t) ==
  /\ HoldsRow(t) => /\ tx[t].from = row[tx[t].booking].status
                    /\ tx[t].op # "cancel" => tx[t].from = "pending_payment"
                    /\ tx[t].op = "cancel" => CanTransition(tx[t].from, "cancelled")
                    /\ tx[t].op = "expire" => row[tx[t].booking].deadline <= tx[t].now
  /\ tx[t].op \in {"cancel", "fail", "expire"} /\ tx[t].at = "commit" =>
       tx[t].to = EndStatus[tx[t].op]
  /\ tx[t].op = "confirm" /\ tx[t].at = "commit" =>
       \/ tx[t].to = "refund_required"
       \/ /\ tx[t].to = "confirmed"
          /\ tx[t].seat \in 1 .. Capacity[tx[t].class]
          /\ tx[t].seat \notin TakenSeats(tx[t].class)
  /\ tx[t].op = "hold" /\ tx[t].at \in {"standing", "holders", "commit"} =>
       LiveOf(tx[t].student, tx[t].class) = {}

ReadsStayTrue == \A t \in Tx : ReadsOf(t)

(* A row is either untouched or names a child and a class.                 *)
RowsAreWellFormed ==
  \A b \in Bookings :
    \/ row[b] = NoRow
    \/ row[b].status \in Status /\ row[b].student \in Students /\ row[b].class \in Classes

(* OneLiveBookingPerChild, said of pairs of bookings.                      *)
LiveBookingsDiffer ==
  \A b, other \in Bookings :
    /\ IsLive(row[b].status) /\ IsLive(row[other].status)
    /\ row[b].student = row[other].student
    /\ row[b].class = row[other].class
    => b = other

(* The inductive invariant.                                                *)
BookingInv ==
  /\ TypeOK
  /\ LocksAreHeld
  /\ RequestsAreWellFormed
  /\ RequestsMeetTheirRows
  /\ ReadsStayTrue
  /\ RowsAreWellFormed
  /\ SeatAndDeadlineFollowStatus
  /\ SeatsAreExclusive
  /\ LiveBookingsDiffer

(* A hold request of parent p in class c, made at the instant now.         *)
Asks(t, p, c, now) ==
  /\ tx[t].op = "hold"
  /\ ParentOf[tx[t].student] = p
  /\ tx[t].class = c
  /\ tx[t].now = now

HoldsIn(p, c, now) == {b \in StandingOf(p, now) : row[b].class = c}

(* What Hold counted in its own class is still under the limit when it     *)
(* commits: the class lock keeps every other hold and confirmation of the  *)
(* class out, and whatever else commits only takes holds away.  Nothing of *)
(* the kind is true of the parent's holds in other classes.                *)
CountsStand ==
  \A t \in Tx, p \in Parents, c \in Classes, now \in 0 .. clock : Asks(t, p, c, now) =>
    /\ tx[t].at \in {"holders", "commit"} => Cardinality(HoldsIn(p, c, now)) < MaxHoldsPerParent
    /\ tx[t].at = "commit" =>
         Cardinality(HoldersOf(c, now)) < MaxHolders(Capacity[c], HoldAllowance[c])

(* A lock is only ever recorded for a session that is using it: no lock    *)
(* outlives its transaction.  With BookingInv this excludes wait cycles.   *)
LocksAreUsed ==
  \A t \in Tx :
    /\ \A c \in Classes : classLock[c] = t => HoldsClass(t) /\ tx[t].class = c
    /\ \A b \in Bookings : rowLock[b] = t => HoldsRow(t) /\ tx[t].booking = b
=============================================================================
