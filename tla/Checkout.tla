------------------------------ MODULE Checkout ------------------------------
(***************************************************************************)
(* Where the seat, the money and the queue meet: requests that hold, pay   *)
(* and withdraw, and workers that expire holds and send money back, each   *)
(* made of several transactions with a crash possible between any two.     *)
(*                                                                         *)
(* A booking transaction is one step here: BookingTransactions shows what  *)
(* the statements inside it amount to.  Time is what is left of it, as in  *)
(* JobQueue.                                                               *)
(***************************************************************************)
EXTENDS BookingRules

CONSTANTS
  Requests, Workers, Bookings, Keys, Jobs,
  HoldTime, ExpiryGrace, Lease, RetryBackoff, MaxJobAttempts, Overrun,
  MaxAttempts,      (* Bound: how many payments are begun.                 *)
  ProviderForgets,  (* Whether the provider's store of refund keys dies    *)
                    (* with a worker, as that of the mock does.            *)
  ParentMayCancel,  (* Bound: whether parents withdraw in this instance.   *)
  None

VARIABLES
  status,     (* [Bookings -> Status \union {"absent"}]                    *)
  left,       (* What is left of each booking's hold.                      *)
  closed,     (* The bookings a worker closed, as their audit trail says.  *)
  request,    (* What each request is doing beyond its payment.            *)
  attempt, minted, asked, charged, refunded, known, call, refund,
  job, hand, leaseLeft, finished

bookingVars == <<status, left, closed>>
payVars == <<attempt, minted, asked, charged, refunded, known, call, refund>>
queueVars == <<job, hand, leaseLeft, finished>>
vars == <<bookingVars, request, payVars, queueVars>>

Price == "price"

Kinds == {"expire_hold", "reconcile_refund"}

ASSUME CheckoutAssumption ==
  /\ {HoldTime, ExpiryGrace, MaxAttempts} \subseteq Nat
  /\ {Lease, RetryBackoff, MaxJobAttempts} \subseteq Nat \ {0}
  /\ IsFiniteSet(Jobs) /\ Overrun \subseteq Jobs
  /\ None \notin Bookings \union Keys \union {Price} \union (Kinds \X Bookings)

Payments == INSTANCE Payments WITH Calls <- Requests, Refunders <- Workers, Amounts <- {Price}

Payload(kind, b) == <<kind, b>>

Queue == INSTANCE JobQueue WITH
  Payloads <- Kinds \X Bookings, Delays <- 0 .. (HoldTime + ExpiryGrace),
  BatchSize <- 1, Concurrency <- 1

Waiting == [at |-> "idle", booking |-> None]

Request == [at : {"idle", "schedule", "paying", "confirming", "failing", "refunding"},
            booking : Bookings \union {None}]

CheckoutTypeOK ==
  /\ status \in [Bookings -> Status \union {"absent"}]
  /\ left \in [Bookings -> 0 .. HoldTime]
  /\ closed \in SUBSET Bookings
  /\ request \in [Requests -> Request]
  /\ Payments!PayTypeOK
  /\ Queue!QueueTypeOK

Init ==
  /\ status = [b \in Bookings |-> "absent"]
  /\ left = [b \in Bookings |-> 0]
  /\ closed = {}
  /\ request = [r \in Requests |-> Waiting]
  /\ Payments!PayInit
  /\ Queue!QueueInit

Go(r, place) == request' = [request EXCEPT ![r].at = place]

(* The caller gets an answer, whichever, and the request is over.          *)
Answer(r) == request' = [request EXCEPT ![r] = Waiting]

(* A booking leaves the payment screen, or the seat, for a new status.     *)
Become(b, to) ==
  /\ status' = [status EXCEPT ![b] = to]
  /\ left' = [left EXCEPT ![b] = 0]
-----------------------------------------------------------------------------
(* Holding.                                                                *)

(* The hold is granted first and its release is scheduled second.          *)
Hold(r, b) ==
  /\ request[r].at = "idle"
  /\ status[b] = "absent"
  /\ status' = [status EXCEPT ![b] = "pending_payment"]
  /\ left' = [left EXCEPT ![b] = HoldTime]
  /\ request' = [request EXCEPT ![r] = [Waiting EXCEPT !.at = "schedule", !.booking = b]]
  /\ UNCHANGED <<closed, payVars, queueVars>>

ScheduleExpiry(r) ==
  LET b == request[r].booking IN
  /\ request[r].at = "schedule"
  /\ \E j \in Jobs : Queue!Enqueue(j, Payload("expire_hold", b), left[b] + ExpiryGrace)
  /\ Answer(r)
  /\ UNCHANGED <<bookingVars, payVars>>

(* The hold stands although its release could not be scheduled.            *)
LoseExpiry(r) ==
  /\ request[r].at = "schedule"
  /\ Answer(r)
  /\ UNCHANGED <<bookingVars, payVars, queueVars>>
-----------------------------------------------------------------------------
(* Paying.                                                                 *)

(* The booking is only looked up for whose it is: its status is not read.  *)
Pay(r, b, k) ==
  /\ request[r].at = "idle"
  /\ status[b] # "absent"
  /\ Payments!OpenPay(r, b, k, Price)
  /\ request' = [request EXCEPT ![r] = [Waiting EXCEPT !.at = "paying", !.booking = b]]
  /\ UNCHANGED <<bookingVars, queueVars>>

Charging(r) ==
  /\ request[r].at = "paying"
  /\ Payments!PayStep(r)
  /\ UNCHANGED <<bookingVars, request, queueVars>>

(* Mutations: an unfinished attempt is confirmed; any failure of the       *)
(* payment ends the booking.                                               *)
ChargedOrPending(r) ==
  /\ request[r].at = "paying"
  /\ \/ call[r].answer \in {"paid", "pending"} /\ Go(r, "confirming")
     \/ call[r].answer = "declined" /\ Go(r, "failing")
     \/ call[r].answer \in {"conflict", "unavailable", "error"} /\ Answer(r)
  /\ Payments!Collect(r)
  /\ UNCHANGED <<bookingVars, queueVars>>

ChargedOrFailed(r) ==
  /\ request[r].at = "paying"
  /\ IF call[r].answer = "paid" THEN Go(r, "confirming") ELSE Go(r, "failing")
  /\ Payments!Collect(r)
  /\ UNCHANGED <<bookingVars, queueVars>>

(* The money settles first and the seat is decided second.  An answer that *)
(* says nothing about the money leaves the booking alone.                  *)
Charged(r) ==
  /\ request[r].at = "paying"
  /\ \/ call[r].answer = "paid" /\ Go(r, "confirming")
     \/ call[r].answer = "declined" /\ Go(r, "failing")
     \/ call[r].answer \in {"pending", "conflict", "unavailable", "error"} /\ Answer(r)
  /\ Payments!Collect(r)
  /\ UNCHANGED <<bookingVars, queueVars>>

(* The last seat may go to a family outside this instance, so either       *)
(* answer is possible; how they compete for it is BookingTransactions.     *)
Decide(b, r) ==
  \/ Become(b, "confirmed") /\ Answer(r)
  \/ Become(b, "refund_required") /\ Go(r, "refunding")

(* Mutation: a booking that lost its seat is decided again.                *)
ConfirmAgain(r) ==
  LET b == request[r].booking IN
  /\ request[r].at = "confirming"
  /\ \/ /\ status[b] \notin {"pending_payment", "refund_required"}
        /\ Answer(r)
        /\ UNCHANGED <<status, left>>
     \/ /\ status[b] \in {"pending_payment", "refund_required"}
        /\ Decide(b, r)
  /\ UNCHANGED <<closed, payVars, queueVars>>

(* The seat is decided for a booking that still waits for its payment.     *)
Confirm(r) ==
  LET b == request[r].booking IN
  /\ request[r].at = "confirming"
  /\ \/ /\ status[b] # "pending_payment"
        /\ Answer(r)
        /\ UNCHANGED <<status, left>>
     \/ /\ status[b] = "pending_payment"
        /\ Decide(b, r)
  /\ UNCHANGED <<closed, payVars, queueVars>>

(* The transaction is rolled back, or it commits and the answer is lost:   *)
(* either way no refund is queued.                                         *)
ConfirmBreaks(r) ==
  LET b == request[r].booking IN
  /\ request[r].at = "confirming"
  /\ Answer(r)
  /\ \/ UNCHANGED <<status, left>>
     \/ /\ status[b] = "pending_payment"
        /\ \E to \in {"confirmed", "refund_required"} : Become(b, to)
  /\ UNCHANGED <<closed, payVars, queueVars>>

QueueRefund(r) ==
  /\ request[r].at = "refunding"
  /\ \E j \in Jobs : Queue!Enqueue(j, Payload("reconcile_refund", request[r].booking), 0)
  /\ Answer(r)
  /\ UNCHANGED <<bookingVars, payVars>>

(* The row is the record, although the job could not be written.           *)
LoseRefund(r) ==
  /\ request[r].at = "refunding"
  /\ Answer(r)
  /\ UNCHANGED <<bookingVars, payVars, queueVars>>

(* A decline is reported whether or not the booking could be ended.        *)
EndOnDecline(r) ==
  LET b == request[r].booking IN
  /\ request[r].at = "failing"
  /\ Answer(r)
  /\ \/ status[b] = "pending_payment" /\ Become(b, "payment_failed")
     \/ UNCHANGED <<status, left>>
  /\ UNCHANGED <<closed, payVars, queueVars>>

(* The process dies: what the request had not written yet is never written. *)
CrashRequest(r) ==
  /\ request[r].at # "idle"
  /\ request' = [request EXCEPT ![r] = Waiting]
  /\ call' = [call EXCEPT ![r] = Payments!NoCall]
  /\ UNCHANGED <<bookingVars, attempt, minted, asked, charged, refunded, known, refund, queueVars>>

(* A parent withdraws, whatever the booking is waiting for.                *)
Cancel(b) ==
  /\ ParentMayCancel
  /\ CanTransition(status[b], "cancelled")
  /\ Become(b, "cancelled")
  /\ UNCHANGED <<closed, request, payVars, queueVars>>
-----------------------------------------------------------------------------
(* The worker's two handlers.                                              *)

Handling(w, j, kind) ==
  /\ hand[w][j] = "handling"
  /\ job[j].payload[1] = kind

Handled(j) == job[j].payload[2]

(* The runner makes the handler fail before it starts, or what it asks     *)
(* first cannot be asked.                                                  *)
FailJob(w, j) ==
  /\ refund[w].at = "idle"
  /\ Queue!HandlerReturns(w, j, FALSE)
  /\ UNCHANGED <<bookingVars, request, payVars>>

(* Mutation: whatever comes back, the job is done.                         *)
HandleExpireOnce(w, j) ==
  LET b == Handled(j) IN
  /\ Handling(w, j, "expire_hold")
  /\ Queue!HandlerReturns(w, j, TRUE)
  /\ \/ status[b] = "pending_payment" /\ left[b] = 0 /\ Become(b, "expired")
     \/ UNCHANGED <<status, left>>
  /\ UNCHANGED <<closed, request, payVars>>

(* A hold that ran out is expired.  One that moved on has nothing left to  *)
(* do, and one that is still live sends the job back.  The transaction may *)
(* commit and only its answer be lost.                                     *)
HandleExpire(w, j) ==
  LET b == Handled(j) IN
  /\ Handling(w, j, "expire_hold")
  /\ \/ /\ status[b] = "pending_payment" /\ left[b] = 0
        /\ Become(b, "expired")
        /\ \E ok \in BOOLEAN : Queue!HandlerReturns(w, j, ok)
     \/ /\ status[b] = "pending_payment" /\ left[b] > 0    (* ErrHoldStillLive *)
        /\ Queue!HandlerReturns(w, j, FALSE)
        /\ UNCHANGED <<status, left>>
     \/ /\ status[b] # "pending_payment"                   (* ErrNotHolding *)
        /\ Queue!HandlerReturns(w, j, TRUE)
        /\ UNCHANGED <<status, left>>
  /\ UNCHANGED <<closed, request, payVars>>

(* The status is read first: a booking that is owed nothing is done with.  *)
HandleRefund(w, j) ==
  LET b == Handled(j) IN
  /\ Handling(w, j, "reconcile_refund")
  /\ \/ /\ status[b] = "refund_required"
        /\ Payments!OpenRefund(w, b)
        /\ UNCHANGED queueVars
     \/ /\ status[b] # "refund_required" /\ refund[w].at = "idle"
        /\ Queue!HandlerReturns(w, j, TRUE)
        /\ UNCHANGED payVars
  /\ UNCHANGED <<bookingVars, request>>

Refunding(w) ==
  /\ Payments!RefundStep(w)
  /\ UNCHANGED <<bookingVars, request, queueVars>>

(* Mutation: the booking is closed whatever the refund answered.           *)
CloseAnyhow(w, j) ==
  LET b == Handled(j) IN
  /\ Handling(w, j, "reconcile_refund")
  /\ Payments!CollectRefund(w)
  /\ CanTransition(status[b], "cancelled")
  /\ Become(b, "cancelled")
  /\ closed' = closed \union {b}
  /\ Queue!HandlerReturns(w, j, TRUE)
  /\ UNCHANGED request

(* The money is back, so the booking is closed; anything else hands the    *)
(* job back with the booking as it was.                                    *)
CloseRefunded(w, j) ==
  LET b == Handled(j) IN
  /\ Handling(w, j, "reconcile_refund")
  /\ Payments!CollectRefund(w)
  /\ \/ /\ refund[w].answer = "refunded"
        /\ CanTransition(status[b], "cancelled")
        /\ Become(b, "cancelled")
        /\ closed' = closed \union {b}
        /\ \E ok \in BOOLEAN : Queue!HandlerReturns(w, j, ok)
     \/ /\ Queue!HandlerReturns(w, j, FALSE)
        /\ UNCHANGED bookingVars
  /\ UNCHANGED request

Runner(w) ==
  /\ \/ Queue!Claim(w)
     \/ \E j \in Jobs : Queue!Dispatch(w, j)
  /\ UNCHANGED <<bookingVars, request, payVars>>

(* The process dies, and with it the mock provider that is built into it.  *)
CrashWorker(w) ==
  /\ Queue!CrashWorker(w)
  /\ refund' = [refund EXCEPT ![w] = Payments!NoRefund]
  /\ known' = IF ProviderForgets THEN {} ELSE known
  /\ UNCHANGED <<bookingVars, request, attempt, minted, asked, charged, refunded, call>>

RestartIdleWorker ==
  /\ \A w \in Workers : hand[w] = Queue!NoHands
  /\ ProviderForgets
  /\ known' = {}
  /\ UNCHANGED <<bookingVars, request, attempt, minted, asked, charged, refunded, call, refund, queueVars>>

Tick ==
  /\ Queue!QueueTick
  /\ left' = [b \in Bookings |-> Queue!Less(left[b])]
  /\ UNCHANGED <<status, closed, request, payVars>>
-----------------------------------------------------------------------------
Serving(r) ==
  \/ ScheduleExpiry(r) \/ LoseExpiry(r)
  \/ Charging(r) \/ Charged(r) \/ Confirm(r) \/ ConfirmBreaks(r)
  \/ QueueRefund(r) \/ LoseRefund(r) \/ EndOnDecline(r)

Handle(w, j) ==
  \/ FailJob(w, j) \/ HandleExpire(w, j) \/ HandleRefund(w, j) \/ CloseRefunded(w, j)

Work(w) == Runner(w) \/ Refunding(w) \/ (\E j \in Jobs : Handle(w, j))

Next ==
  \/ \E r \in Requests, b \in Bookings : Hold(r, b) \/ (\E k \in Keys : Pay(r, b, k))
  \/ \E r \in Requests : Serving(r) \/ CrashRequest(r)
  \/ \E b \in Bookings : Cancel(b)
  \/ \E w \in Workers : Work(w) \/ CrashWorker(w)
  \/ RestartIdleWorker
  \/ Tick

Spec == Init /\ [][Next]_vars

(* Time passes and the workers keep polling and working; nothing is asked  *)
(* of the requests, which may die wherever they are.                       *)
FairSpec == Spec /\ WF_vars(Tick) /\ \A w \in Workers : WF_vars(Work(w))
-----------------------------------------------------------------------------
(***************************************************************************)
(* What the three packages are to guarantee together.                      *)
(***************************************************************************)

(* A seat, and a debt to a parent, exist only where a charge is recorded   *)
(* as settled: no crash, decline or lost answer gives a seat away unpaid   *)
(* or owes back what was never paid.                                       *)
MoneyBacksStatus ==
  \A b \in Bookings :
    status[b] \in {"confirmed", "refund_required"} => Payments!SettledAttempts(b) # {}

RefundedFor(b) == \E i \in Payments!SettledAttempts(b) : refunded[i] > 0

(* A parent never ends up with the seat and with the money back.           *)
SeatOrMoney == \A b \in Bookings : RefundedFor(b) => status[b] \in {"refund_required", "cancelled"}

(* Refund first, close second: what the worker closed has been refunded.   *)
ClosedMeansRefunded == \A b \in closed : RefundedFor(b)

(* A booking ends as payment_failed only on an attempt of its own that the *)
(* provider declined and took no money for: an answer that is late, lost   *)
(* or unreadable, whose attempt may have been charged, never ends it, under *)
(* whichever key and on whichever replay it comes (pay.go).                *)
FailedRestsOnADecline ==
  \A b \in Bookings : status[b] = "payment_failed" =>
    \E i \in Payments!Ids :
      attempt[i].booking = b /\ attempt[i].status = "failed" /\ i \notin charged

(* As long as its job is in the queue, a debt is settled or left, parked,  *)
(* for an operator; it never just stays.                                   *)
OwedIsSettled ==
  \A b \in Bookings : \A j \in Jobs :
    status[b] = "refund_required" /\ job[j].payload = Payload("reconcile_refund", b)
      ~> status[b] = "cancelled" \/ (job[j].status = "queued" /\ Queue!IsParked(j))

(* As long as its release is in the queue, a hold ends, or the release is  *)
(* parked: a parent who walked away does not keep the place for good.      *)
HeldIsReleased ==
  \A b \in Bookings : \A j \in Jobs :
    status[b] = "pending_payment" /\ job[j].payload = Payload("expire_hold", b)
      ~> status[b] # "pending_payment" \/ (job[j].status = "queued" /\ Queue!IsParked(j))
-----------------------------------------------------------------------------
(***************************************************************************)
(* What the documents say and the code does not do.                        *)
(***************************************************************************)

(* The refund job is there as soon as the parent is rejected.              *)
RefundIsQueued ==
  \A b \in Bookings : status[b] = "refund_required" =>
    \E j \in Jobs : job[j].payload = Payload("reconcile_refund", b)

(* Only a settled refund closes a booking that is owed one.                *)
OnlyRefundCloses ==
  [][\A b \in Bookings : status[b] = "refund_required" /\ status'[b] = "cancelled" =>
       RefundedFor(b)]_vars

(* A hold that ran out ran out before any payment settled.                 *)
ExpiredBeforeSettled ==
  [][\A b \in Bookings : status[b] # "expired" /\ status'[b] = "expired" =>
       Payments!SettledAttempts(b) = {}]_vars

(* A request that is never going to be honoured does not cost anybody      *)
(* money: only a booking that waits for its payment is charged for.        *)
OnlyPendingIsCharged ==
  [][\A i \in charged' \ charged : status[attempt[i].booking] = "pending_payment"]_vars

(* payment_failed means that no money moved: the code says so of the       *)
(* attempt that was declined, and no more.  Another key may be charged for *)
(* before or after.                                                        *)
FailedMeansNoMoney ==
  \A b \in Bookings : status[b] = "payment_failed" =>
    \A i \in charged : attempt[i].booking # b

(* A declined payment leaves the parent a booking they can pay again.      *)
DeclineLeavesItPayable ==
  [][\A r \in Requests :
       request[r].at = "failing" /\ request'[r].at = "idle" =>
         status'[request[r].booking] = status[request[r].booking]]_vars

(* However often the refund job is run, the money moves back once.         *)
RefundedOnce == Payments!RefundedOnce
=============================================================================
