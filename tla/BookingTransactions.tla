------------------------- MODULE BookingTransactions -------------------------
(***************************************************************************)
(* The five booking transactions of the Postgres repository - Hold,        *)
(* Confirm, Cancel, Fail and Expire - statement by statement, run by       *)
(* concurrent database sessions at READ COMMITTED.  A session waits for a  *)
(* row lock, reads what is committed at that moment, keeps its one write   *)
(* to itself and publishes it, with its audit line, when it commits.  It   *)
(* may be rolled back at any point before that.                            *)
(*                                                                         *)
(* The two partial unique indexes are not part of the model: the           *)
(* invariants below say that the locks alone leave them nothing to refuse. *)
(***************************************************************************)
EXTENDS BookingRules, Sequences

CONSTANTS
  Tx,                 (* Database sessions.                                *)
  Bookings,           (* Booking identifiers, each minted for one hold.    *)
  Students, Parents, Classes,
  ParentOf,           (* [Students -> Parents]                             *)
  Capacity,           (* [Classes -> Nat \ {0}]                            *)
  HoldAllowance,      (* [Classes -> Nat]                                  *)
  HoldTTL,            (* How long a hold lasts, in ticks of the clock.     *)
  MaxHoldsPerParent,
  MaxTime,            (* Bound: the clock stops here.                      *)
  None                (* Sql null, and the answer "nobody".                *)

ASSUME ConstantsAssumption ==
  /\ ParentOf \in [Students -> Parents]
  /\ Capacity \in [Classes -> Nat \ {0}]
  /\ HoldAllowance \in [Classes -> Nat]
  /\ HoldTTL \in Nat \ {0}
  /\ MaxHoldsPerParent \in Nat \ {0}
  /\ MaxTime \in Nat
  /\ None \notin Tx \union Bookings \union Students \union Classes

(* A table has finitely many rows: identifiers are 128-bit UUIDs.          *)
ASSUME BookingsAssumption == IsFiniteSet(Bookings)

VARIABLES
  clock,       (* The wall clock every process reads.                      *)
  row,         (* The bookings table as committed.                         *)
  trail,       (* booking_events as committed, per booking, oldest first.  *)
  classLock,   (* Who holds each class row FOR UPDATE.                     *)
  rowLock,     (* Who holds each booking row FOR UPDATE.                   *)
  tx           (* What each session is doing.                              *)

vars == <<clock, row, trail, classLock, rowLock, tx>>

Absent == "absent"

NoRow == [status |-> Absent, student |-> None, class |-> None,
          seat |-> NoSeat, deadline |-> NoDeadline]

Row == [status : Status \union {Absent}, student : Students \union {None},
        class : Classes \union {None}, seat : Nat, deadline : Nat]

Operation == {"hold", "confirm", "cancel", "fail", "expire"}

(* Where a session stands: waiting for a lock, about to run a query, or    *)
(* about to write and commit.                                              *)
Place == {"idle", "lockClass", "duplicates", "standing", "holders",
          "lockRow", "chooseSeat", "commit"}

Idle == [op |-> "none", at |-> "idle", booking |-> None, student |-> None,
         class |-> None, now |-> 0, from |-> Absent, to |-> Absent,
         seat |-> NoSeat]

Session == [op : Operation \union {"none"}, at : Place,
            booking : Bookings \union {None}, student : Students \union {None},
            class : Classes \union {None}, now : Nat,
            from : Status \union {Absent}, to : Status \union {Absent},
            seat : Nat]

Event == [from : Status \union {Absent}, to : Status]

TypeOK ==
  /\ clock \in Nat
  /\ row \in [Bookings -> Row]
  /\ trail \in [Bookings -> Seq(Event)]
  /\ classLock \in [Classes -> Tx \union {None}]
  /\ rowLock \in [Bookings -> Tx \union {None}]
  /\ tx \in [Tx -> Session]

Init ==
  /\ clock = 0
  /\ row = [b \in Bookings |-> NoRow]
  /\ trail = [b \in Bookings |-> <<>>]
  /\ classLock = [c \in Classes |-> None]
  /\ rowLock = [b \in Bookings |-> None]
  /\ tx = [t \in Tx |-> Idle]
-----------------------------------------------------------------------------
(* What the queries of the hold transaction select.                        *)

LiveOf(s, c) ==
  {b \in Bookings : row[b].student = s /\ row[b].class = c /\ IsLive(row[b].status)}

Standing(b, now) ==
  row[b].status = "pending_payment" /\ HoldIsLive(row[b].deadline, now)

StandingOf(p, now) ==
  {b \in Bookings : Standing(b, now) /\ ParentOf[row[b].student] = p}

HoldersOf(c, now) ==
  {b \in Bookings : row[b].class = c /\ (row[b].status = "confirmed" \/ Standing(b, now))}

(* The seats the confirm query finds carried by a booking of the class.    *)
TakenSeats(c) ==
  {row[b].seat : b \in {x \in Bookings : row[x].class = c}} \ {NoSeat}
-----------------------------------------------------------------------------
(* A session that ends gives back every lock it holds.                     *)

ReleaseLocks(t) ==
  /\ classLock' = [c \in Classes |-> IF classLock[c] = t THEN None ELSE classLock[c]]
  /\ rowLock' = [b \in Bookings |-> IF rowLock[b] = t THEN None ELSE rowLock[b]]

(* Mutation: the refused transaction is left open, its locks with it.      *)
RollbackLeftOpen(t) ==
  /\ tx' = [tx EXCEPT ![t] = Idle]
  /\ UNCHANGED <<clock, row, trail, classLock, rowLock>>

Rollback(t) ==
  /\ tx' = [tx EXCEPT ![t] = Idle]
  /\ ReleaseLocks(t)
  /\ UNCHANGED <<clock, row, trail>>

Advance(t, place) == tx' = [tx EXCEPT ![t].at = place]
-----------------------------------------------------------------------------
(* A request arrives.  The service reads the clock and mints the booking   *)
(* identifier before the transaction opens.                                *)

BeginHold(t, b, s, c) ==
  /\ tx[t].at = "idle"
  /\ row[b].status = Absent
  /\ \A u \in Tx : tx[u].booking # b
  /\ tx' = [tx EXCEPT ![t] = [Idle EXCEPT !.op = "hold", !.at = "lockClass",
              !.booking = b, !.student = s, !.class = c, !.now = clock,
              !.to = "pending_payment"]]
  /\ UNCHANGED <<clock, row, trail, classLock, rowLock>>

(* Confirm first reads the class of its booking, without a lock: a booking *)
(* never changes class.                                                    *)
BeginConfirm(t, b) ==
  /\ tx[t].at = "idle"
  /\ row[b].status # Absent
  /\ tx' = [tx EXCEPT ![t] = [Idle EXCEPT !.op = "confirm", !.at = "lockClass",
              !.booking = b, !.class = row[b].class, !.now = clock]]
  /\ UNCHANGED <<clock, row, trail, classLock, rowLock>>

(* Cancel, Fail and Expire lock nothing but the booking itself.            *)
BeginEnding(t, b, op) ==
  /\ tx[t].at = "idle"
  /\ row[b].status # Absent
  /\ tx' = [tx EXCEPT ![t] = [Idle EXCEPT !.op = op, !.at = "lockRow",
              !.booking = b, !.now = clock]]
  /\ UNCHANGED <<clock, row, trail, classLock, rowLock>>
-----------------------------------------------------------------------------
(* Mutation: the class is read without FOR UPDATE.                         *)
ReadClass(t) ==
  /\ tx[t].at = "lockClass"
  /\ Advance(t, IF tx[t].op = "hold" THEN "duplicates" ELSE "lockRow")
  /\ UNCHANGED <<clock, row, trail, classLock, rowLock>>

(* The class row, FOR UPDATE: the first lock of Hold and of Confirm.       *)
LockClass(t) ==
  LET c == tx[t].class IN
  /\ tx[t].at = "lockClass"
  /\ classLock[c] = None
  /\ classLock' = [classLock EXCEPT ![c] = t]
  /\ Advance(t, IF tx[t].op = "hold" THEN "duplicates" ELSE "lockRow")
  /\ UNCHANGED <<clock, row, trail, rowLock>>

(* Hold's three counts are three statements, each reading what is          *)
(* committed when it runs.                                                 *)
(* Mutation: a lapsed hold no longer counts as a duplicate.                *)
CountStandingDuplicates(t) ==
  /\ tx[t].at = "duplicates"
  /\ IF LiveOf(tx[t].student, tx[t].class) \intersect HoldersOf(tx[t].class, tx[t].now) # {}
     THEN Rollback(t)
     ELSE /\ Advance(t, "standing")
          /\ UNCHANGED <<clock, row, trail, classLock, rowLock>>

CountDuplicates(t) ==
  /\ tx[t].at = "duplicates"
  /\ IF LiveOf(tx[t].student, tx[t].class) # {}
     THEN Rollback(t)                                     (* ErrAlreadyBooked *)
     ELSE /\ Advance(t, "standing")
          /\ UNCHANGED <<clock, row, trail, classLock, rowLock>>

(* Mutation: off by one, the cap is passed before it refuses.              *)
CountStandingPastCap(t) ==
  /\ tx[t].at = "standing"
  /\ IF Cardinality(StandingOf(ParentOf[tx[t].student], tx[t].now)) > MaxHoldsPerParent
     THEN Rollback(t)
     ELSE /\ Advance(t, "holders")
          /\ UNCHANGED <<clock, row, trail, classLock, rowLock>>

CountStanding(t) ==
  /\ tx[t].at = "standing"
  /\ IF Cardinality(StandingOf(ParentOf[tx[t].student], tx[t].now)) >= MaxHoldsPerParent
     THEN Rollback(t)                                     (* ErrTooManyHolds *)
     ELSE /\ Advance(t, "holders")
          /\ UNCHANGED <<clock, row, trail, classLock, rowLock>>

(* Mutation: off by one, one holder too many is let in.                    *)
CountHoldersPastLimit(t) ==
  LET c == tx[t].class IN
  /\ tx[t].at = "holders"
  /\ IF Cardinality(HoldersOf(c, tx[t].now)) > MaxHolders(Capacity[c], HoldAllowance[c])
     THEN Rollback(t)
     ELSE /\ Advance(t, "commit")
          /\ UNCHANGED <<clock, row, trail, classLock, rowLock>>

CountHolders(t) ==
  LET c == tx[t].class IN
  /\ tx[t].at = "holders"
  /\ IF Cardinality(HoldersOf(c, tx[t].now)) >= MaxHolders(Capacity[c], HoldAllowance[c])
     THEN Rollback(t)                                     (* ErrClassFull *)
     ELSE /\ Advance(t, "commit")
          /\ UNCHANGED <<clock, row, trail, classLock, rowLock>>
-----------------------------------------------------------------------------
(* Mutations: Cancel takes any booking; Expire takes a standing hold.      *)
MayProceedAnyCancel(op, stored, now) ==
  /\ op # "cancel" => stored.status = "pending_payment"
  /\ op = "expire" => ~HoldIsLive(stored.deadline, now)

MayProceedEarlyExpiry(op, stored, now) ==
  /\ op = "cancel" => CanTransition(stored.status, "cancelled")
  /\ op # "cancel" => stored.status = "pending_payment"

(* What the locked row must be for the operation to go on.  Confirm does   *)
(* not look at the deadline; Expire does.                                  *)
MayProceed(op, stored, now) ==
  /\ op = "cancel" => CanTransition(stored.status, "cancelled")
  /\ op # "cancel" => stored.status = "pending_payment"
  /\ op = "expire" => ~HoldIsLive(stored.deadline, now)

(* Where the three operations that only end a booking take it.             *)
EndStatus == [cancel |-> "cancelled", fail |-> "payment_failed", expire |-> "expired"]

(* Mutation: the booking is read without FOR UPDATE.                       *)
ReadRow(t) ==
  LET b == tx[t].booking
      op == tx[t].op
  IN
  /\ tx[t].at = "lockRow"
  /\ IF ~MayProceed(op, row[b], tx[t].now)
     THEN Rollback(t)
     ELSE /\ tx' = [tx EXCEPT ![t].from = row[b].status,
                              ![t].to = IF op = "confirm" THEN Absent ELSE EndStatus[op],
                              ![t].at = IF op = "confirm" THEN "chooseSeat" ELSE "commit"]
          /\ UNCHANGED <<clock, row, trail, classLock, rowLock>>

(* Mutation: Cancel takes the class after the booking, the other way       *)
(* round from Confirm.                                                     *)
LockRowThenClass(t) ==
  LET b == tx[t].booking
      c == row[b].class
      op == tx[t].op
  IN
  /\ tx[t].at = "lockRow"
  /\ rowLock[b] \in {None, t}
  /\ IF ~MayProceed(op, row[b], tx[t].now)
     THEN Rollback(t)
     ELSE /\ rowLock' = [rowLock EXCEPT ![b] = t]
          /\ tx' = IF op = "cancel" /\ classLock[c] # t
                   THEN [tx EXCEPT ![t].class = c, ![t].at = "lockClass"]
                   ELSE [tx EXCEPT ![t].from = row[b].status,
                              ![t].to = IF op = "confirm" THEN Absent ELSE EndStatus[op],
                              ![t].at = IF op = "confirm" THEN "chooseSeat" ELSE "commit"]
          /\ UNCHANGED <<clock, row, trail, classLock>>

(* The booking row, FOR UPDATE, and the checks on what it holds.           *)
LockRow(t) ==
  LET b == tx[t].booking
      op == tx[t].op
  IN
  /\ tx[t].at = "lockRow"
  /\ rowLock[b] = None
  /\ IF ~MayProceed(op, row[b], tx[t].now)
     THEN Rollback(t)       (* ErrNotHolding, ErrInvalidTransition, ErrHoldStillLive *)
     ELSE /\ rowLock' = [rowLock EXCEPT ![b] = t]
          /\ tx' = [tx EXCEPT ![t].from = row[b].status,
                              ![t].to = IF op = "confirm" THEN Absent ELSE EndStatus[op],
                              ![t].at = IF op = "confirm" THEN "chooseSeat" ELSE "commit"]
          /\ UNCHANGED <<clock, row, trail, classLock>>

(* Mutation: other parents' holds are counted as seats taken.              *)
ChooseSeatBehindHolds(t) ==
  LET c == tx[t].class
      others == HoldersOf(c, clock) \ {tx[t].booking}
      seat == IF Cardinality(others) >= Capacity[c] THEN NoSeat
              ELSE LowestFreeSeat(Capacity[c], TakenSeats(c))
  IN
  /\ tx[t].at = "chooseSeat"
  /\ tx' = [tx EXCEPT ![t].seat = seat, ![t].at = "commit",
                      ![t].to = IF seat = NoSeat THEN "refund_required" ELSE "confirmed"]
  /\ UNCHANGED <<clock, row, trail, classLock, rowLock>>

(* The lowest free seat under the class lock, or the seat is lost.         *)
ChooseSeat(t) ==
  LET seat == LowestFreeSeat(Capacity[tx[t].class], TakenSeats(tx[t].class)) IN
  /\ tx[t].at = "chooseSeat"
  /\ tx' = [tx EXCEPT ![t].seat = seat, ![t].at = "commit",
                      ![t].to = IF seat = NoSeat THEN "refund_required" ELSE "confirmed"]
  /\ UNCHANGED <<clock, row, trail, classLock, rowLock>>
-----------------------------------------------------------------------------
(* Mutation: a cancelled booking keeps its seat number.                    *)
WrittenKeepingSeat(session) ==
  IF session.op = "hold"
  THEN [status |-> "pending_payment", student |-> session.student, class |-> session.class,
        seat |-> NoSeat, deadline |-> HoldDeadline(session.now, HoldTTL)]
  ELSE [row[session.booking] EXCEPT
          !.status = session.to,
          !.deadline = NoDeadline,
          !.seat = IF session.to = "confirmed" THEN session.seat ELSE @]

(* What the operation writes.                                              *)
Written(session) ==
  IF session.op = "hold"
  THEN [status |-> "pending_payment", student |-> session.student, class |-> session.class,
        seat |-> NoSeat, deadline |-> HoldDeadline(session.now, HoldTTL)]
  ELSE [row[session.booking] EXCEPT
          !.status = session.to,
          !.deadline = NoDeadline,
          !.seat = IF session.to = "confirmed" THEN session.seat
                   ELSE IF session.to = "cancelled" THEN NoSeat ELSE @]

(* The write, the audit line and the release of the locks, together.       *)
Commit(t) ==
  LET b == tx[t].booking IN
  /\ tx[t].at = "commit"
  /\ row' = [row EXCEPT ![b] = Written(tx[t])]
  /\ trail' = [trail EXCEPT ![b] = Append(@, [from |-> tx[t].from, to |-> tx[t].to])]
  /\ tx' = [tx EXCEPT ![t] = Idle]
  /\ ReleaseLocks(t)
  /\ UNCHANGED clock

(* A fault, a lock or statement timeout, a dropped connection or a crash   *)
(* before the commit: the deferred rollback undoes everything.             *)
Abort(t) ==
  /\ tx[t].at # "idle"
  /\ Rollback(t)

Tick ==
  /\ clock < MaxTime
  /\ clock' = clock + 1
  /\ UNCHANGED <<row, trail, classLock, rowLock, tx>>
-----------------------------------------------------------------------------
Statement(t) ==
  \/ CountDuplicates(t)
  \/ CountStanding(t)
  \/ CountHolders(t)
  \/ ChooseSeat(t)
  \/ Commit(t)

Begin(t) ==
  \E b \in Bookings :
    \/ \E s \in Students, c \in Classes : BeginHold(t, b, s, c)
    \/ BeginConfirm(t, b)
    \/ \E op \in {"cancel", "fail", "expire"} : BeginEnding(t, b, op)

Next ==
  \/ Tick
  \/ \E t \in Tx : Begin(t) \/ LockClass(t) \/ LockRow(t) \/ Statement(t) \/ Abort(t)

Spec == Init /\ [][Next]_vars

(* The handler that opened a transaction runs its statements, and Postgres *)
(* serves the waiters of a row lock in order, so a session whose lock is   *)
(* released again and again gets it.                                       *)
Fairness ==
  \A t \in Tx : /\ WF_vars(Statement(t))
                /\ SF_vars(LockClass(t))
                /\ SF_vars(LockRow(t))

FairSpec == Spec /\ Fairness
-----------------------------------------------------------------------------
(***************************************************************************)
(* Safety.                                                                 *)
(***************************************************************************)

(* No two bookings of a class carry the same seat, and a seat number is a  *)
(* seat of the class.  The confirm query looks for a free seat without     *)
(* locking the bookings it reads, so this rests on the class lock.         *)
SeatsAreExclusive ==
  \A b \in Bookings : row[b].seat # NoSeat =>
    /\ row[b].seat \in 1 .. Capacity[row[b].class]
    /\ \A other \in Bookings \ {b} :
         row[other].class = row[b].class => row[other].seat # row[b].seat

(* A booking carries a seat exactly while it is confirmed, and a deadline  *)
(* exactly while it is pending: no ending may leave either behind.         *)
SeatAndDeadlineFollowStatus ==
  \A b \in Bookings :
    /\ row[b].seat # NoSeat <=> row[b].status = "confirmed"
    /\ row[b].deadline # NoDeadline <=> row[b].status = "pending_payment"

(* A child has one live booking in a class.  Hold counts the duplicates    *)
(* long before it inserts, so this too rests on the class lock.            *)
OneLiveBookingPerChild ==
  \A s \in Students, c \in Classes : Cardinality(LiveOf(s, c)) <= 1

(* No more holds stand in a class at once than it has seats and allowance. *)
StandingHoldsFitTheClass ==
  \A c \in Classes :
    Cardinality({b \in Bookings : row[b].class = c /\ Standing(b, clock)})
      <= MaxHolders(Capacity[c], HoldAllowance[c])

(* One parent's standing holds in one class stay within the cap.           *)
HoldCapWithinAClass ==
  \A p \in Parents, c \in Classes :
    Cardinality({b \in StandingOf(p, clock) : row[b].class = c}) <= MaxHoldsPerParent

(* Where the first i lines of an audit trail leave a booking.              *)
StatusAfter(lines, i) == IF i = 0 THEN Absent ELSE lines[i].to

(* The audit trail of a booking leads, line by line, from nothing to the   *)
(* status of its row: every line starts where the one before it ended.     *)
TrailLeadsToRow ==
  \A b \in Bookings :
    /\ \A i \in 1 .. Len(trail[b]) : trail[b][i].from = StatusAfter(trail[b], i - 1)
    /\ row[b].status = StatusAfter(trail[b], Len(trail[b]))

(* Session t waits for a lock that another session u holds.                *)
WaitsFor(t, u) ==
  /\ t # u
  /\ \/ tx[t].at = "lockClass" /\ classLock[tx[t].class] = u
     \/ tx[t].at = "lockRow" /\ rowLock[tx[t].booking] = u

(* No set of sessions waits on itself: class before booking, always.       *)
NoWaitCycle ==
  \A waiting \in SUBSET Tx : waiting # {} =>
    \E t \in waiting : \A u \in waiting : ~WaitsFor(t, u)

(* A booking's status only moves along the arrows of the status machine,   *)
(* whatever runs beside it, and its child and class never change.          *)
StatusMachine ==
  [][\A b \in Bookings : row[b].status # Absent =>
       /\ row'[b].status = row[b].status \/ CanTransition(row[b].status, row'[b].status)
       /\ row'[b].student = row[b].student
       /\ row'[b].class = row[b].class]_vars

(* A hold that is still standing is never taken away by Expire, though the *)
(* instant Expire compares with was read before it waited for the row.     *)
StandingHoldNeverExpires ==
  [][\A b \in Bookings :
       Standing(b, clock) => row'[b].status # "expired"]_vars

(* A confirmed booking keeps its seat number until it gives it up.         *)
SeatIsNeverSwapped ==
  [][\A b \in Bookings : row[b].seat # NoSeat =>
       row'[b].seat \in {row[b].seat, NoSeat}]_vars
-----------------------------------------------------------------------------
(***************************************************************************)
(* The repository implements the seat ledger.  A seat is refused when the  *)
(* confirm query finds none free, which is before the refusal is written.  *)
(***************************************************************************)
With(status) == {b \in Bookings : row[b].status = status}

Seen == {b \in Bookings : row[b].status # Absent}

HeldIn(c) == {b \in With("pending_payment") : row[b].class = c}

OwnersOf(c, seat) == {b \in Bookings : row[b].class = c /\ row[b].seat = seat}

Refusing(t) == tx[t].at = "commit" /\ tx[t].to = "refund_required"

Refused == {b \in Bookings : \E t \in Tx : tx[t].booking = b /\ Refusing(t)}

Ledger == INSTANCE SeatLedger WITH
  seen    <- Seen,
  held    <- [c \in Classes |-> HeldIn(c)],
  owners  <- [c \in Classes |-> [seat \in 1 .. Capacity[c] |-> OwnersOf(c, seat)]],
  refused <- Refused,
  owed    <- With("refund_required")

(* Every step of the sessions is a step of the ledger, or invisible to it. *)
ImplementsLedger == Ledger!Spec
-----------------------------------------------------------------------------
(***************************************************************************)
(* Liveness.                                                               *)
(***************************************************************************)

(* A transaction that opened comes to its end, without the database having *)
(* to break a deadlock for it.                                             *)
EveryTransactionEnds ==
  \A t \in Tx : tx[t].at # "idle" ~> tx[t].at = "idle"
-----------------------------------------------------------------------------
(***************************************************************************)
(* What the repository's documentation says, and the transactions do not   *)
(* keep.                                                                   *)
(***************************************************************************)

(* "MaxHoldsPerParent caps how many holds one parent may have standing at  *)
(* once, across every class": Hold counts them under one class's lock.     *)
HoldCapAcrossClasses ==
  \A p \in Parents : Cardinality(StandingOf(p, clock)) <= MaxHoldsPerParent

(* "Allowance 0 means nobody is ever charged for a seat they cannot get":  *)
(* Confirm, reached once the money moved, accepts a hold that has lapsed.  *)
NobodyPaysForALostSeat ==
  \A b \in With("refund_required") : HoldAllowance[row[b].class] > 0
=============================================================================
