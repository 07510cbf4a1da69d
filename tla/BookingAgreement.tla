-------------------------- MODULE BookingAgreement --------------------------
(***************************************************************************)
(* The two implementations of the booking repository side by side: what    *)
(* the Postgres transactions commit, statement by statement and among      *)
(* others, against what the in-memory repository of the fast tests would   *)
(* have done in one piece.                                                 *)
(***************************************************************************)
EXTENDS BookingInvariant

Memory == INSTANCE MemoryRepository

Committed == [rows |-> row, events |-> trail]

(* What the in-memory repository makes of a session's request, now.        *)
InOnePiece(session) ==
  CASE session.op = "hold"    -> Memory!Hold(Committed, session.booking, session.student, session.class,
                                             session.now, HoldDeadline(session.now, HoldTTL))
    [] session.op = "confirm" -> Memory!Confirm(Committed, session.booking)
    [] session.op = "cancel"  -> Memory!Cancel(Committed, session.booking)
    [] session.op = "fail"    -> Memory!Fail(Committed, session.booking)
    [] session.op = "expire"  -> Memory!Expire(Committed, session.booking, session.now)

(* The duplicate a refused parent is shown: any live booking of the child  *)
(* in the class, the newest first.                                         *)
LiveBooking(s, c) ==
  {b \in Bookings : row[b].student = s /\ row[b].class = c
                    /\ row[b].status \in {"pending_payment", "confirmed"}}

(* The number a class list puts on the screen.                             *)
SeatsRemaining(c) ==
  LET taken == Cardinality({b \in Bookings : row[b].class = c /\ row[b].seat # NoSeat})
  IN  IF taken > Capacity[c] THEN 0 ELSE Capacity[c] - taken

(* The one thing a hold's class lock does not cover: another class's lock  *)
(* let another hold of the parent commit since this one counted.           *)
HeldElsewhere(session) ==
  /\ session.op = "hold"
  /\ InOnePiece(session).answer = "ErrTooManyHolds"
  /\ \E b \in StandingOf(ParentOf[session.student], session.now) : row[b].class # session.class

(* Whatever commits is what the in-memory repository would have stored had *)
(* it been asked at the instant of the commit; for Confirm, whose answer   *)
(* is decided when it looks for a seat, at the instant of that query.      *)
(* Between the two a seat may be given back, and then the two differ: the  *)
(* commit hands out the seat it chose.  And a hold may commit where the    *)
(* map would say the parent has too many, but then one of those is in      *)
(* another class.  In between, the two tell a reader the same: the map,    *)
(* which is searched in no order, has no second live booking it could      *)
(* answer with, and the seats shown as left are those a confirmation could *)
(* still be given.                                                         *)
AgreesWithMemory ==
  [][/\ \A t \in Tx :
       /\ tx[t].op # "confirm" /\ trail' # trail /\ tx[t].at = "commit" /\ tx'[t].at = "idle"
            => \/ [rows |-> row', events |-> trail'] = InOnePiece(tx[t]).store
               \/ HeldElsewhere(tx[t])
       /\ tx[t].at = "chooseSeat" /\ tx'[t].at = "commit"
            => /\ tx'[t].to = InOnePiece(tx[t]).answer
               /\ tx'[t].seat = InOnePiece(tx[t]).store.rows[tx[t].booking].seat
     /\ \A s \in Students, c \in Classes :
          /\ Cardinality(LiveBooking(s, c)') <= 1
          /\ LiveBooking(s, c)' = Memory!LiveBooking(row', s, c)
          /\ SeatsRemaining(c)' = Cardinality(FreeSeats(Capacity[c], Memory!seatsTaken(row', c)))]_vars
=============================================================================
