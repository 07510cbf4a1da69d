--------------------------- MODULE PaymentAttempt ---------------------------
(***************************************************************************)
(* The client's side of a payment: the one booking store with the key of   *)
(* the attempt in force, the screens that write to it, and the answers     *)
(* that reach it in any order, also after the parent has left the screen   *)
(* or signed out.  Across the wire stands the api as Checkout and Payments *)
(* show it, one step for each call.                                        *)
(***************************************************************************)
EXTENDS Naturals, FiniteSets

CONSTANTS
  Parents, Bookings,
  MaxCalls,         (* Bound: how many calls are under way at one time.    *)
  MaxKeys,          (* Bound: how many keys the tab mints.                 *)
  MaxVisits,        (* Bound: how many screens are opened by hand.         *)
  MayEnd,           (* Bound: whether a hold ends behind the tab's back.   *)
  None

ASSUME AttemptAssumption ==
  /\ MaxCalls \in Nat /\ MaxKeys \in Nat /\ MaxVisits \in Nat /\ MayEnd \in BOOLEAN
  /\ None \notin Parents \union Bookings

VARIABLES
  status, owner,    (* The api's bookings.                                 *)
  fate,             (* What each booking's payment under each key came to. *)
  charged,          (* The pairs of booking and key money moved under.     *)
  parent,           (* Who is signed in.                                   *)
  screen, going,    (* The screen shown and the one being navigated to.    *)
  store, held,      (* The booking store and its attempt key, 0 for none.  *)
  call,             (* Calls under way.                                    *)
  minted, visits,   (* Counters the bounds speak of.                       *)
  sent, declined    (* History: who sent which key, which were declined.   *)

api == <<status, owner, fate, charged>>
tab == <<parent, screen, going, store, held, minted, visits, sent, declined>>
vars == <<api, tab, call>>

Keys == 1 .. MaxKeys
Calls == 1 .. MaxCalls

Status == {"absent", "pending_payment", "confirmed", "payment_failed", "refund_required", "ended"}

Failures == {"PaymentDeclined", "InvalidRequest", "SeatLost", "Refused", "Unavailable", "SignedOut"}

EmptyStore == [booking |-> None, shows |-> "absent", submitting |-> FALSE, failure |-> "none"]

Elsewhere == [page |-> "away", of |-> None, ended |-> FALSE]

NoCall == [kind |-> "none", who |-> None, booking |-> None, key |-> 0,
           answer |-> "none", shows |-> "absent"]

TypeOK ==
  /\ status \in [Bookings -> Status]
  /\ owner \in [Bookings -> Parents \union {None}]
  /\ fate \in [Bookings \X Keys -> {"none", "initiated", "succeeded", "failed"}]
  /\ charged \in SUBSET (Bookings \X Keys)
  /\ parent \in Parents \union {None}
  /\ screen \in [page : {"away", "book", "pay", "booking"}, of : Bookings \union {None},
                 ended : BOOLEAN]
  /\ going \in {Elsewhere} \union [page : {"pay", "booking"}, of : Bookings, ended : {FALSE}]
  /\ store \in [booking : Bookings \union {None}, shows : Status, submitting : BOOLEAN,
                failure : Failures \union {"none"}]
  /\ held \in {0} \union Keys
  /\ call \in [Calls -> [kind : {"none", "create", "pay", "load"},
                         who : Parents \union {None}, booking : Bookings \union {None},
                         key : {0} \union Keys,
                         answer : Failures \union {"none", "ok"}, shows : Status]]
  /\ minted \in 0 .. MaxKeys /\ visits \in 0 .. MaxVisits
  /\ sent \in SUBSET (Keys \X Parents)
  /\ declined \in SUBSET Keys

Init ==
  /\ status = [b \in Bookings |-> "absent"]
  /\ owner = [b \in Bookings |-> None]
  /\ fate = [p \in Bookings \X Keys |-> "none"]
  /\ charged = {}
  /\ parent = None /\ screen = Elsewhere /\ going = Elsewhere
  /\ store = EmptyStore /\ held = 0
  /\ call = [c \in Calls |-> NoCall]
  /\ minted = 0 /\ visits = 0 /\ sent = {} /\ declined = {}

(* The slot a new call takes, of those that are free the first.            *)
Free(c) == call[c].kind = "none" /\ \A d \in 1 .. (c - 1) : call[d].kind # "none"

(* A call under this key fits the bound on keys: every answer may mint.    *)
KeysLeft(key) ==
  LET used == IF key > minted THEN key ELSE minted
  IN  used + Cardinality({c \in Calls : call[c].key # 0}) + 1 <= MaxKeys

Send(c, kind, b, key) ==
  call' = [call EXCEPT ![c] =
             [NoCall EXCEPT !.kind = kind, !.who = parent, !.booking = b, !.key = key]]
-----------------------------------------------------------------------------
(* The key of the attempt.                                                 *)

(* The key in force, minted when there is none.                            *)
Current == IF held = 0 THEN minted + 1 ELSE held

EndsTheAttempt == {"PaymentDeclined", "InvalidRequest"}

(* Mutation: a decline is retried like any other failure.                  *)
SettleKept(kind) == IF kind = "InvalidRequest" THEN minted + 1 ELSE Current

(* What the key is once a failure of this kind has been told to the keeper *)
(* and the store has asked it for the key in force.                        *)
Settle(kind) == IF kind \in EndsTheAttempt THEN minted + 1 ELSE Current

Hold(key) == held' = key /\ minted' = IF key > minted THEN key ELSE minted

(* Mutation: the store is emptied and the keeper is forgotten.             *)
ResetStoreOnly == store' = EmptyStore /\ held' = held

Reset == store' = EmptyStore /\ held' = 0
-----------------------------------------------------------------------------
(* The parent.                                                             *)

SignIn(p) ==
  /\ parent = None
  /\ parent' = p
  /\ screen' = [Elsewhere EXCEPT !.page = "book"]
  /\ UNCHANGED <<api, going, store, held, call, minted, visits, sent, declined>>

(* Whoever ends the session: the calls under way are not called off.       *)
SignOut ==
  /\ parent # None
  /\ parent' = None
  /\ Reset
  /\ screen' = Elsewhere /\ going' = Elsewhere
  /\ UNCHANGED <<api, call, minted, visits, sent, declined>>

(* A parent opens one of their bookings, or its payment.                   *)
Visit(page, b) ==
  /\ parent # None /\ owner[b] = parent
  /\ visits < MaxVisits
  /\ visits' = visits + 1
  /\ going' = [page |-> page, of |-> b, ended |-> FALSE]
  /\ UNCHANGED <<api, parent, screen, store, held, call, minted, sent, declined>>

Loading == [store EXCEPT !.submitting = TRUE, !.failure = "none"]

(* The screen is mounted, and reads its booking whatever the store holds.  *)
Mount(c) ==
  /\ going # Elsewhere
  /\ Free(c)
  /\ screen' = going /\ going' = Elsewhere
  /\ store' = Loading
  /\ Send(c, "load", going.of, 0)
  /\ UNCHANGED <<api, parent, held, minted, visits, sent, declined>>

(* Asking for a place always starts an attempt.                            *)
Create(c, b) ==
  /\ screen.page = "book" /\ parent # None
  /\ ~store.submitting
  /\ Free(c) /\ KeysLeft(minted + 1)
  /\ status[b] = "absent" /\ \A d \in Calls : ~(call[d].kind = "create" /\ call[d].booking = b)
  /\ store' = Loading
  /\ Hold(minted + 1)
  /\ Send(c, "create", b, minted + 1)
  /\ sent' = sent \union {<<minted + 1, parent>>}
  /\ UNCHANGED <<api, parent, screen, going, visits, declined>>

AwaitingPayment == store.booking # None /\ store.shows = "pending_payment"

Closed == screen.ended \/ ~AwaitingPayment \/ store.failure = "SeatLost"

(* The booking that is paid for is the screen's, whatever the store shows. *)
Pay(c) ==
  /\ screen.page = "pay" /\ parent # None
  /\ ~store.submitting /\ ~Closed
  /\ Free(c) /\ KeysLeft(Current)
  /\ store' = Loading
  /\ Hold(Current)
  /\ Send(c, "pay", screen.of, Current)
  /\ sent' = sent \union {<<Current, parent>>}
  /\ UNCHANGED <<api, parent, screen, going, visits, declined>>

(* The countdown reaches zero: the control closes, and the api is asked.   *)
HoldReachedZero(c) ==
  /\ screen.page = "pay" /\ AwaitingPayment /\ ~screen.ended
  /\ Free(c)
  /\ screen' = [screen EXCEPT !.ended = TRUE]
  /\ store' = Loading
  /\ Send(c, "load", screen.of, 0)
  /\ UNCHANGED <<api, parent, going, held, minted, visits, sent, declined>>
-----------------------------------------------------------------------------
(* The api.                                                                *)

(* An answer on its way, which may turn into no answer.                    *)
Answer(c, kind, shows) ==
  \/ call' = [call EXCEPT ![c].answer = kind, ![c].shows = shows]
  \/ kind # "Unavailable" /\ call' = [call EXCEPT ![c].answer = "Unavailable"]

Unserved(c) == call[c].kind # "none" /\ call[c].answer = "none"

NotServed(c) ==
  /\ Unserved(c)
  /\ Answer(c, "Unavailable", "absent")
  /\ UNCHANGED <<api, tab>>

ServeCreate(c) ==
  LET b == call[c].booking IN
  /\ Unserved(c) /\ call[c].kind = "create"
  /\ \/ /\ status' = [status EXCEPT ![b] = "pending_payment"]
        /\ owner' = [owner EXCEPT ![b] = call[c].who]
        /\ Answer(c, "ok", "pending_payment")
     \/ /\ Answer(c, "Refused", "absent")        (* class full, already booked *)
        /\ UNCHANGED <<status, owner>>
  /\ UNCHANGED <<fate, charged, tab>>

ServeLoad(c) ==
  LET b == call[c].booking IN
  /\ Unserved(c) /\ call[c].kind = "load"
  /\ IF call[c].who = None THEN Answer(c, "SignedOut", "absent")
     ELSE IF owner[b] # call[c].who THEN Answer(c, "Refused", "absent")
     ELSE Answer(c, "ok", status[b])
  /\ UNCHANGED <<api, tab>>

(* The money has settled and the seat is decided; a booking that has moved *)
(* on is neither given a seat nor refunded.                                *)
Confirm(c) ==
  LET b == call[c].booking IN
  \/ /\ status[b] = "pending_payment"
     /\ \/ status' = [status EXCEPT ![b] = "confirmed"] /\ Answer(c, "ok", "confirmed")
        \/ status' = [status EXCEPT ![b] = "refund_required"] /\ Answer(c, "SeatLost", "absent")
        \/ Answer(c, "Unavailable", "absent") /\ UNCHANGED status
  \/ /\ status[b] # "pending_payment"
     /\ Answer(c, "InvalidRequest", "absent")
     /\ UNCHANGED status

Decline(c) ==
  LET b == call[c].booking IN
  /\ Answer(c, "PaymentDeclined", "absent")
  /\ status' = [status EXCEPT ![b] = IF @ = "pending_payment" THEN "payment_failed" ELSE @]

(* A key that was seen replays its outcome; a new one is charged.          *)
ServePay(c) ==
  LET p == <<call[c].booking, call[c].key>> IN
  /\ Unserved(c) /\ call[c].kind = "pay"
  /\ \/ /\ fate[p] = "none"
        /\ \/ fate' = [fate EXCEPT ![p] = "succeeded"] /\ charged' = charged \union {p} /\ Confirm(c)
           \/ fate' = [fate EXCEPT ![p] = "failed"] /\ UNCHANGED charged /\ Decline(c)
           \/ /\ fate' = [fate EXCEPT ![p] = "initiated"]
              /\ charged' \in {charged, charged \union {p}}
              /\ Answer(c, "Unavailable", "absent")
              /\ UNCHANGED status
     \/ /\ fate[p] # "none"
        /\ \/ fate[p] = "succeeded" /\ Confirm(c)
           \/ fate[p] = "failed" /\ Decline(c)
           \/ fate[p] = "initiated" /\ Answer(c, "Unavailable", "absent") /\ UNCHANGED status
        /\ UNCHANGED <<fate, charged>>
  /\ UNCHANGED <<owner, tab>>

(* The worker expires the hold, or it is withdrawn from another tab.       *)
End(b) ==
  /\ MayEnd
  /\ status[b] = "pending_payment"
  /\ status' = [status EXCEPT ![b] = "ended"]
  /\ UNCHANGED <<owner, fate, charged, tab, call>>
-----------------------------------------------------------------------------
(* Answers.                                                                *)

Answered(c, answers) == call[c].kind # "none" /\ call[c].answer \in answers

Shown(c) == [booking |-> call[c].booking, shows |-> call[c].shows, submitting |-> FALSE,
             failure |-> "none"]

(* Whoever is signed in by now, the answer is shown and the screen that    *)
(* asked goes where it meant to go.                                        *)
ReceiveBooking(c) ==
  LET onward == [create |-> "pay", pay |-> "booking"] IN
  /\ Answered(c, {"ok"})
  /\ store' = Shown(c)
  /\ IF call[c].kind = "load" THEN UNCHANGED going
     ELSE going' = [page |-> onward[call[c].kind], of |-> call[c].booking, ended |-> FALSE]
  /\ call' = [call EXCEPT ![c] = NoCall]
  /\ UNCHANGED <<api, parent, screen, held, minted, visits, sent, declined>>

Told(c) == [store EXCEPT !.submitting = FALSE, !.failure = call[c].answer]

ReceiveFailure(c) ==
  /\ Answered(c, Failures \ {"SignedOut"})
  /\ call[c].kind # "load"
  /\ Hold(Settle(call[c].answer))
  /\ store' = Told(c)
  /\ declined' = IF call[c].answer = "PaymentDeclined" THEN declined \union {call[c].key}
                 ELSE declined
  /\ call' = [call EXCEPT ![c] = NoCall]
  /\ UNCHANGED <<api, parent, screen, going, visits, sent>>

(* Reading is not attempting: the key is left alone.                       *)
ReceiveLoadFailure(c) ==
  /\ Answered(c, Failures \ {"SignedOut"})
  /\ call[c].kind = "load"
  /\ store' = Told(c)
  /\ call' = [call EXCEPT ![c] = NoCall]
  /\ UNCHANGED <<api, parent, screen, going, held, minted, visits, sent, declined>>

(* A read nobody was signed in for ends the session, whosever it is now.   *)
ReceiveSignedOut(c) ==
  /\ Answered(c, {"SignedOut"})
  /\ parent' = None /\ held' = 0
  /\ store' = [EmptyStore EXCEPT !.failure = "SignedOut"]
  /\ screen' = Elsewhere /\ going' = Elsewhere
  /\ call' = [call EXCEPT ![c] = NoCall]
  /\ UNCHANGED <<api, minted, visits, sent, declined>>

Receive(c) == ReceiveBooking(c) \/ ReceiveFailure(c) \/ ReceiveLoadFailure(c) \/ ReceiveSignedOut(c)

Serve(c) == ServeCreate(c) \/ ServeLoad(c) \/ ServePay(c) \/ NotServed(c)

Next ==
  \/ \E p \in Parents : SignIn(p)
  \/ SignOut
  \/ \E b \in Bookings : Visit("pay", b) \/ Visit("booking", b) \/ End(b)
  \/ \E c \in Calls :
       \/ Mount(c)
       \/ \E b \in Bookings : Create(c, b)
       \/ Pay(c) \/ HoldReachedZero(c)
       \/ Serve(c) \/ Receive(c)

Spec == Init /\ [][Next]_vars

FairSpec == Spec /\ \A c \in Calls : WF_vars(Serve(c)) /\ WF_vars(Receive(c))
-----------------------------------------------------------------------------
(* A key belongs to the parent whose attempt it covers.  Answers that come *)
(* back after a sign-out may make the keeper mint, and no two parents of   *)
(* one tab ever send the same key for all that (stores/booking.ts, reset). *)
KeysAreNotShared ==
  \A s, t \in sent : s[1] = t[1] => s = t

(* Once a decline has arrived its key is never sent again, whatever other  *)
(* answer came before or after it: it would replay the decline for as long *)
(* as the parent keeps trying (api/attempt.ts).                            *)
DeclinedKeyIsDone ==
  [][\A c \in Calls : call'[c].kind = "pay" /\ call[c].kind = "none" =>
       call'[c].key \notin declined]_vars

(* The form is not left waiting: the calls that set the one submitting     *)
(* flag all come back, and with the last of them it is down.               *)
NeverLeftWaiting == store.submitting ~> ~store.submitting

(* What idempotency.ts says of one parent's attempt, "a retry of either    *)
(* one produces the first answer instead of a second charge", and          *)
(* attempt.ts of the two failures that end it: money moves at most once    *)
(* for one booking.  The code does not keep it.                            *)
OneChargePerBooking ==
  \A p, q \in charged : p[1] = q[1] => p = q

(* What stores/booking.ts says a sign-out does, "has to leave nothing of   *)
(* the previous parent in memory".  The code does not keep it.             *)
NothingOfThePreviousParent ==
  store.booking # None => owner[store.booking] = parent
=============================================================================
