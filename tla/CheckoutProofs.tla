--------------------------- MODULE CheckoutProofs ---------------------------
(***************************************************************************)
(* Where the seat, the money and the queue meet, for any number of         *)
(* requests, workers, bookings, keys and jobs, and a crash anywhere.  What *)
(* PaymentProofs and QueueProofs show of the two packages is carried over  *)
(* step by step; what is new here is how a status, a debt and a job follow *)
(* from a settled charge.                                                  *)
(***************************************************************************)
EXTENDS Checkout, FiniteSetTheorems, TLAPS

Ids == Payments!Ids

(* A provider that forgets its refund keys moves money back again, and is  *)
(* otherwise a provider that remembers: to the calls and the rows it is    *)
(* the same whether money moved back once or more often.                   *)
Money == INSTANCE PaymentProofs WITH
  Calls <- Requests, Refunders <- Workers, Amounts <- {Price},
  refunded <- [i \in Ids |-> IF refunded[i] > 0 THEN 1 ELSE 0],
  known <- {i \in Ids : refunded[i] > 0}

Lines == INSTANCE QueueProofs WITH
  Payloads <- Kinds \X Bookings, Delays <- 0 .. (HoldTime + ExpiryGrace),
  BatchSize <- 1, Concurrency <- 1

LEMMA Settings ==
  /\ Money!PaymentAssumption
  /\ Lines!QueueAssumption /\ Lines!AgreementAssumption
  /\ HoldTime \in Nat /\ ExpiryGrace \in Nat /\ IsFiniteSet(Jobs)
<1>1. Money!PaymentAssumption
  BY CheckoutAssumption DEF Money!PaymentAssumption
<1>2. 0 .. (HoldTime + ExpiryGrace) \subseteq Nat
  BY CheckoutAssumption
<1>3. Lines!QueueAssumption
  BY <1>2, CheckoutAssumption DEF Lines!QueueAssumption
<1>4. Lines!AgreementAssumption
  BY CheckoutAssumption DEF Lines!AgreementAssumption, IsFiniteSet, Lines!IsFiniteSet
<1>5. QED
  BY <1>1, <1>3, <1>4, CheckoutAssumption

LEMMA IdsAreIds == Payments!Ids = Money!Ids /\ Ids = Money!Ids /\ Ids \subseteq Nat
BY DEF Ids, Payments!Ids, Money!Ids
-----------------------------------------------------------------------------
(* What the steps of the composition are to the queue.                     *)

LEMMA OneCount ==
  \A S : Queue!Cardinality(S) = Cardinality(S) /\ Lines!Cardinality(S) = Cardinality(S)
BY DEF Cardinality, Queue!Cardinality, Lines!Cardinality

LEMMA QueueStepsAreSteps ==
  /\ \A w \in Workers : Queue!Claim(w) => Lines!Claim(w)
  /\ \A w \in Workers, j \in Jobs : Queue!Dispatch(w, j) => Lines!Dispatch(w, j)
  /\ \A w \in Workers : Queue!CrashWorker(w) => Lines!CrashWorker(w)
  /\ \A w \in Workers, j \in Jobs : \A ok \in BOOLEAN :
       Queue!HandlerReturns(w, j, ok) => Lines!HandlerReturns(w, j, ok)
  /\ \A j \in Jobs : \A payload, delay :
       Queue!Enqueue(j, payload, delay) => Lines!Enqueue(j, payload, delay)
  /\ Queue!QueueTick => Lines!QueueTick
<1>1. \A w \in Workers : Queue!Claim(w) => Lines!Claim(w)
  BY OneCount DEF Queue!Claim, Lines!Claim, Queue!Claimable, Lines!Claimable, Queue!IsParked, Lines!IsParked,
         Queue!NoHands, Lines!NoHands, Queue!Leased, Lines!Leased
<1>2. \A w \in Workers, j \in Jobs : Queue!Dispatch(w, j) => Lines!Dispatch(w, j)
  <2>1. \A w \in Workers, j \in Jobs : Queue!Start(w, j) => Lines!Start(w, j)
    BY OneCount DEF Queue!Start, Lines!Start, Queue!Working, Lines!Working
  <2>2. \A w \in Workers, j \in Jobs : Queue!Complete(w, j) => Lines!Complete(w, j)
    BY DEF Queue!Complete, Lines!Complete, Queue!LetGo, Lines!LetGo, Queue!Removed, Lines!Removed
  <2>3. \A w \in Workers, j \in Jobs : Queue!HandBack(w, j) => Lines!HandBack(w, j)
    BY DEF Queue!HandBack, Lines!HandBack, Queue!LetGo, Lines!LetGo
  <2>4. \A w \in Workers, j \in Jobs : Queue!LoseJob(w, j) => Lines!LoseJob(w, j)
    BY DEF Queue!LoseJob, Lines!LoseJob, Queue!LetGo, Lines!LetGo
  <2>5. QED
    BY <2>1, <2>2, <2>3, <2>4 DEF Queue!Dispatch, Lines!Dispatch
<1>3. \A w \in Workers : Queue!CrashWorker(w) => Lines!CrashWorker(w)
  BY DEF Queue!CrashWorker, Lines!CrashWorker, Queue!NoHands, Lines!NoHands
<1>4. \A w \in Workers, j \in Jobs : \A ok \in BOOLEAN :
        Queue!HandlerReturns(w, j, ok) => Lines!HandlerReturns(w, j, ok)
  BY DEF Queue!HandlerReturns, Lines!HandlerReturns
<1>5. \A j \in Jobs : \A payload, delay :
        Queue!Enqueue(j, payload, delay) => Lines!Enqueue(j, payload, delay)
  BY DEF Queue!Enqueue, Lines!Enqueue, Queue!NoJob, Lines!NoJob
<1>6. Queue!QueueTick => Lines!QueueTick
  BY DEF Queue!QueueTick, Lines!QueueTick, Queue!Less, Lines!Less
<1>7. QED
  BY <1>1, <1>2, <1>3, <1>4, <1>5, <1>6
-----------------------------------------------------------------------------
(* What the steps of the composition are to the payments.                  *)

RefundsCounted ==
  /\ refunded \in [Ids -> Nat] /\ known \in SUBSET Ids
  /\ \A i \in known : refunded[i] > 0

(* A step that leaves the counts alone leaves them alone in any reading.   *)
LEMMA CountsRest ==
  ASSUME UNCHANGED refunded
  PROVE  /\ UNCHANGED [i \in Ids |-> IF refunded[i] > 0 THEN 1 ELSE 0]
         /\ UNCHANGED {i \in Ids : refunded[i] > 0}
BY DEF Ids, Payments!Ids

LEMMA CallStepsAreSteps ==
  ASSUME NEW r \in Requests
  PROVE  /\ \A b \in Bookings, k \in Keys :
              Payments!OpenPay(r, b, k, Price) => Money!OpenPay(r, b, k, Price)
         /\ Payments!PayStep(r) => Money!PayStep(r)
<1>1. ASSUME NEW b \in Bookings, NEW k \in Keys, Payments!OpenPay(r, b, k, Price)
      PROVE  Money!OpenPay(r, b, k, Price)
  BY <1>1, CountsRest DEF Payments!OpenPay, Money!OpenPay
<1>2. Payments!LookUp(r) => Money!LookUp(r)
  BY CountsRest DEF Payments!LookUp, Money!LookUp, Payments!Keyed, Money!Keyed, Payments!Answer,
     Money!Answer, Payments!ReplayOf, Money!ReplayOf, Payments!Ids, Money!Ids, Payments!Absent,
     Money!Absent
<1>3. Payments!Insert(r) => Money!Insert(r)
  BY CountsRest DEF Payments!Insert, Money!Insert, Payments!Keyed, Money!Keyed, Payments!Opened,
     Money!Opened, Payments!Ids, Money!Ids, Payments!Absent, Money!Absent
<1>4. Payments!Charge(r) => Money!Charge(r)
  BY CountsRest DEF Payments!Charge, Money!Charge, Payments!Answer, Money!Answer
<1>5. Payments!Settle(r) => Money!Settle(r)
  BY CountsRest DEF Payments!Settle, Money!Settle, Payments!Answer, Money!Answer, Payments!Closed,
     Money!Closed
<1>6. Payments!Break(r) => Money!Break(r)
  BY CountsRest DEF Payments!Break, Money!Break, Payments!Answer, Money!Answer, Payments!Closed,
     Money!Closed, Payments!Opened, Money!Opened, Payments!Keyed, Money!Keyed, Payments!Ids,
     Money!Ids, Payments!Absent, Money!Absent
<1>7. QED
  BY <1>1, <1>2, <1>3, <1>4, <1>5, <1>6 DEF Payments!PayStep, Money!PayStep

(* Money that moves back once more is, counted once, money that was back.  *)
LEMMA RefundStepsAreSteps ==
  ASSUME RefundsCounted, Money!PayInv, NEW w \in Workers
  PROVE  /\ \A b \in Bookings : Payments!OpenRefund(w, b) => Money!OpenRefund(w, b)
         /\ Payments!RefundStep(w) => Money!RefundStep(w) /\ RefundsCounted'
<1>1. ASSUME NEW b \in Bookings, Payments!OpenRefund(w, b) PROVE Money!OpenRefund(w, b)
  BY <1>1, CountsRest DEF Payments!OpenRefund, Money!OpenRefund, Payments!NoRefund, Money!NoRefund
<1>2. ASSUME Payments!FindSettled(w) PROVE Money!FindSettled(w) /\ RefundsCounted'
  <2>1. UNCHANGED <<refunded, known>>
    BY <1>2 DEF Payments!FindSettled
  <2>2. RefundsCounted'
    BY <2>1 DEF RefundsCounted, Ids, Payments!Ids
  <2>3. Money!FindSettled(w)
    BY <1>2, CountsRest DEF Payments!FindSettled, Money!FindSettled, Payments!SettledAttempts,
       Money!SettledAttempts, Payments!AnswerRefund, Money!AnswerRefund, Payments!Ids, Money!Ids
  <2>4. QED
    BY <2>2, <2>3
<1>3. ASSUME Payments!SendBack(w) PROVE Money!SendBack(w) /\ RefundsCounted'
  <2>1. PICK i : i = refund[w].id
    OBVIOUS
  <2>2. /\ i \in Ids /\ refund[w].at = "send"
        /\ UNCHANGED <<attempt, minted, asked, charged, call>>
    BY <1>3, <2>1, IdsAreIds DEF Payments!SendBack, Money!PayInv, Money!RefundMeetsItsRow
  <2>3. CASE /\ UNCHANGED <<refunded, known>>
             /\ i \in known
             /\ \E answer \in {"refunded", "unavailable"} : Payments!AnswerRefund(w, answer)
    <3>1. i \in {k \in Ids : refunded[k] > 0}
      BY <2>2, <2>3 DEF RefundsCounted
    <3>2. Money!SendBack(w)
      BY <2>1, <2>2, <2>3, <3>1, CountsRest DEF Money!SendBack, Payments!AnswerRefund,
         Money!AnswerRefund
    <3>3. QED
      BY <2>3, <3>2 DEF RefundsCounted, Ids, Payments!Ids
  <2>4. CASE /\ UNCHANGED <<refunded, known>>
             /\ Payments!AnswerRefund(w, "unavailable")
    <3>1. Money!SendBack(w)
      BY <2>1, <2>2, <2>4, CountsRest DEF Money!SendBack, Payments!AnswerRefund,
         Money!AnswerRefund
    <3>2. QED
      BY <2>4, <3>1 DEF RefundsCounted, Ids, Payments!Ids
  <2>5. CASE /\ i \notin known
             /\ refunded' = [refunded EXCEPT ![i] = @ + 1]
             /\ known' = known \union {i}
             /\ \E answer \in {"refunded", "unavailable"} : Payments!AnswerRefund(w, answer)
    <3>1. /\ refunded' \in [Ids -> Nat] /\ refunded'[i] = refunded[i] + 1
          /\ refunded[i] \in Nat
          /\ \A k \in Ids : k # i => refunded'[k] = refunded[k]
      BY <2>2, <2>5 DEF RefundsCounted
    <3>2. RefundsCounted'
      BY <2>2, <2>5, <3>1 DEF RefundsCounted, Ids, Payments!Ids
    <3> DEFINE told == [k \in Ids |-> IF refunded[k] > 0 THEN 1 ELSE 0]
               heard == {k \in Ids : refunded[k] > 0}
    <3>3. CASE refunded[i] > 0
      <4>1. i \in heard /\ UNCHANGED <<told, heard>>
        BY <2>2, <3>1, <3>3 DEF Ids, Payments!Ids
      <4>2. QED
        BY <2>1, <2>2, <2>5, <3>2, <4>1 DEF Money!SendBack, Payments!AnswerRefund, Money!AnswerRefund
    <3>4. CASE ~(refunded[i] > 0)
      <4>1. refunded[i] = 0 /\ refunded'[i] = 1 /\ i \notin heard
        BY <3>1, <3>4
      <4>2. told' = [told EXCEPT ![i] = @ + 1]
        <5>1. told' = [k \in Ids |-> IF refunded'[k] > 0 THEN 1 ELSE 0]
          BY DEF Ids, Payments!Ids
        <5>2. \A k \in Ids : refunded'[k] > 0 <=> (k = i \/ refunded[k] > 0)
          BY <3>1, <4>1
        <5>3. [told EXCEPT ![i] = @ + 1] = [k \in Ids |-> IF k = i \/ refunded[k] > 0 THEN 1 ELSE 0]
          <6>1. told[i] + 1 = 1
            BY <2>2, <4>1
          <6>2. [told EXCEPT ![i] = 1] = [k \in Ids |-> IF k = i \/ refunded[k] > 0 THEN 1 ELSE 0]
            OBVIOUS
          <6>3. QED
            BY <6>1, <6>2, Zenon
        <5>4. QED
          BY <5>1, <5>2, <5>3
      <4>3. heard' = heard \union {i}
        BY <2>2, <3>1, <4>1 DEF Ids, Payments!Ids
      <4>4. QED
        BY <2>1, <2>2, <2>5, <3>2, <4>1, <4>2, <4>3 DEF Money!SendBack, Payments!AnswerRefund,
           Money!AnswerRefund
    <3>5. QED
      BY <3>3, <3>4
  <2>6. QED
    BY <1>3, <2>1, <2>3, <2>4, <2>5 DEF Payments!SendBack
<1>4. ASSUME Payments!BreakRefund(w) PROVE Money!BreakRefund(w) /\ RefundsCounted'
  <2>1. UNCHANGED <<refunded, known>>
    BY <1>4 DEF Payments!BreakRefund
  <2>2. RefundsCounted'
    BY <2>1 DEF RefundsCounted, Ids, Payments!Ids
  <2>3. QED
    BY <1>4, <2>2, CountsRest DEF Payments!BreakRefund, Money!BreakRefund, Payments!AnswerRefund,
       Money!AnswerRefund
<1>5. QED
  BY <1>1, <1>2, <1>3, <1>4 DEF Payments!RefundStep, Money!RefundStep
-----------------------------------------------------------------------------
(* The bookings, the requests and the jobs: whom a request and a job serve *)
(* is a booking there is.                                                  *)

BookingTypes ==
  /\ status \in [Bookings -> Status \union {"absent"}]
  /\ left \in [Bookings -> 0 .. HoldTime]
  /\ closed \in SUBSET Bookings
  /\ request \in [Requests -> Request]
  /\ \A r \in Requests : request[r].at # "idle" => request[r].booking \in Bookings

(* A job that is there carries a handler's payload, and is the only kind a *)
(* worker has.                                                             *)
JobsAreServable ==
  /\ \A j \in Jobs : job[j].status # "absent" => job[j].payload \in Kinds \X Bookings
  /\ \A w \in Workers, j \in Jobs : hand[w][j] # "none" => job[j].status # "absent"

WellFormed == BookingTypes /\ Lines!QueueTypeOK /\ JobsAreServable

LEMMA StatusSet ==
  Status = {"pending_payment", "confirmed", "refund_required", "payment_failed", "expired", "cancelled"}
BY DEF Status, allowedTransitions

LEMMA Cancelling ==
  \A from : CanTransition(from, "cancelled") <=> from \in {"pending_payment", "confirmed", "refund_required"}
<1>1. /\ allowedTransitions["pending_payment"] = {"confirmed", "payment_failed", "refund_required",
                                                  "expired", "cancelled"}
      /\ allowedTransitions["confirmed"] = {"cancelled"}
      /\ allowedTransitions["refund_required"] = {"cancelled"}
      /\ allowedTransitions["payment_failed"] = {}
      /\ allowedTransitions["expired"] = {}
      /\ allowedTransitions["cancelled"] = {}
  BY DEF allowedTransitions
<1>2. QED
  BY <1>1, StatusSet DEF CanTransition

(* The ways a request and a booking move.                                  *)
LEMMA Going ==
  ASSUME BookingTypes, NEW r \in Requests, request[r].at # "idle",
         NEW place \in {"confirming", "failing", "refunding"}, Go(r, place)
  PROVE  /\ request' \in [Requests -> Request]
         /\ \A q \in Requests : q # r => request'[q] = request[q]
         /\ request'[r].at = place /\ request'[r].booking = request[r].booking
BY DEF BookingTypes, Go, Request

LEMMA Over ==
  ASSUME BookingTypes, NEW r \in Requests, request' = [request EXCEPT ![r] = Waiting]
  PROVE  /\ request' \in [Requests -> Request]
         /\ \A q \in Requests : q # r => request'[q] = request[q]
         /\ request'[r].at = "idle"
BY DEF BookingTypes, Request, Waiting

LEMMA Becoming ==
  ASSUME BookingTypes, NEW b \in Bookings, NEW to \in Status, Become(b, to)
  PROVE  /\ status' \in [Bookings -> Status \union {"absent"}]
         /\ left' \in [Bookings -> 0 .. HoldTime]
         /\ status'[b] = to
         /\ \A a \in Bookings : a # b => status'[a] = status[a]
BY Settings DEF BookingTypes, Become

(* Every step of the composition is a step of the queue, or leaves it be.  *)
LEMMA QueueSteps ==
  ASSUME WellFormed, [Next]_vars
  PROVE  [Lines!QueueNext]_(Lines!queueVars)
<1> USE QueueStepsAreSteps
<1>0. UNCHANGED queueVars => UNCHANGED Lines!queueVars
  BY DEF queueVars, Lines!queueVars
<1>1. ASSUME NEW r \in Requests, ScheduleExpiry(r) PROVE Lines!QueueNext
  <2>1. /\ request[r].booking \in Bookings
        /\ left[request[r].booking] + ExpiryGrace \in 0 .. (HoldTime + ExpiryGrace)
    BY <1>1, Settings DEF ScheduleExpiry, WellFormed, BookingTypes
  <2>2. Payload("expire_hold", request[r].booking) \in Kinds \X Bookings
    BY <2>1 DEF Payload, Kinds
  <2>3. QED
    BY <1>1, <2>1, <2>2 DEF ScheduleExpiry, Lines!QueueNext
<1>2. ASSUME NEW r \in Requests, QueueRefund(r) PROVE Lines!QueueNext
  <2>1. request[r].booking \in Bookings
    BY <1>2 DEF QueueRefund, WellFormed, BookingTypes
  <2>2. Payload("reconcile_refund", request[r].booking) \in Kinds \X Bookings
    BY <2>1 DEF Payload, Kinds
  <2>3. 0 \in 0 .. (HoldTime + ExpiryGrace)
    BY Settings
  <2>4. QED
    BY <1>2, <2>2, <2>3 DEF QueueRefund, Lines!QueueNext
<1>3. ASSUME NEW w \in Workers, NEW j \in Jobs, Handle(w, j)
      PROVE  UNCHANGED queueVars \/ \E ok \in BOOLEAN : Queue!HandlerReturns(w, j, ok)
  BY <1>3 DEF Handle, FailJob, HandleExpire, HandleRefund, CloseRefunded
<1>4. ASSUME NEW w \in Workers, Runner(w) PROVE Lines!QueueNext
  BY <1>4 DEF Runner, Lines!QueueNext
<1>5. ASSUME NEW w \in Workers, CrashWorker(w) PROVE Lines!QueueNext
  BY <1>5 DEF CrashWorker, Lines!QueueNext
<1>6. CASE Tick
  BY <1>6 DEF Tick, Lines!QueueNext
<1>7. ASSUME NEW r \in Requests, Serving(r), ~ScheduleExpiry(r), ~QueueRefund(r)
      PROVE  UNCHANGED queueVars
  BY <1>7 DEF Serving, LoseExpiry, Charging, Charged, Confirm, ConfirmBreaks, LoseRefund, EndOnDecline
<1>8. ASSUME NEW w \in Workers, NEW j \in Jobs, Handle(w, j) PROVE [Lines!QueueNext]_(Lines!queueVars)
  BY <1>0, <1>3, <1>8 DEF Lines!QueueNext
<1>9. QED
  BY <1>0, <1>1, <1>2, <1>4, <1>5, <1>6, <1>7, <1>8
     DEF Next, vars, Hold, Pay, CrashRequest, Cancel, Work, Refunding, RestartIdleWorker

LEMMA BookingTypesStep ==
  ASSUME WellFormed, [Next]_vars
  PROVE  BookingTypes'
<1> USE DEF BookingTypes, WellFormed
<1>0. /\ {"pending_payment", "confirmed", "refund_required", "payment_failed", "expired",
           "cancelled"} \subseteq Status
      /\ HoldTime \in 0 .. HoldTime
  BY StatusSet, Settings
<1>1. ASSUME NEW r \in Requests, NEW b \in Bookings, Hold(r, b) PROVE BookingTypes'
  BY <1>0, <1>1 DEF Hold, Request, Waiting
<1>2. ASSUME NEW r \in Requests, NEW b \in Bookings, NEW k \in Keys, Pay(r, b, k)
      PROVE  BookingTypes'
  BY <1>2 DEF Pay, bookingVars, Request, Waiting
<1>3. ASSUME NEW r \in Requests, Serving(r) PROVE BookingTypes'
  <2>1. CASE Charging(r)
    BY <2>1 DEF Charging, bookingVars
  <2>2. CASE Answer(r) /\ UNCHANGED bookingVars
    BY <2>2, Over DEF Answer, bookingVars
  <2>3. CASE \E place \in {"confirming", "failing", "refunding"} :
               request[r].at # "idle" /\ Go(r, place) /\ UNCHANGED bookingVars
    BY <2>3, Going DEF bookingVars
  <2>4. ASSUME NEW b \in Bookings, b = request[r].booking, request[r].at # "idle",
               NEW to \in {"confirmed", "refund_required", "payment_failed"}, Become(b, to),
               Answer(r) \/ Go(r, "refunding"), UNCHANGED closed
        PROVE  BookingTypes'
    BY <1>0, <2>4, Becoming, Over, Going DEF Answer
  <2>5. request[r].at # "idle" =>
          /\ request[r].booking \in Bookings
          /\ \A to \in {"confirmed", "refund_required", "payment_failed"} :
               Become(request[r].booking, to) /\ (Answer(r) \/ Go(r, "refunding")) /\ UNCHANGED closed
               => BookingTypes'
    BY <2>4
  <2>6. QED
    BY <1>3, <2>1, <2>2, <2>3, <2>5
       DEF Serving, ScheduleExpiry, LoseExpiry, Charged, Confirm, Decide, ConfirmBreaks, QueueRefund,
           LoseRefund, EndOnDecline, bookingVars
<1>4. ASSUME NEW r \in Requests, CrashRequest(r) PROVE BookingTypes'
  BY <1>4, Over DEF CrashRequest, bookingVars
<1>5. ASSUME NEW b \in Bookings, Cancel(b) PROVE BookingTypes'
  BY <1>0, <1>5, Becoming DEF Cancel
<1>6. ASSUME NEW w \in Workers, NEW j \in Jobs, Handle(w, j) PROVE BookingTypes'
  <2>1. CASE UNCHANGED <<bookingVars, request>>
    BY <2>1 DEF bookingVars
  <2>2. ASSUME hand[w][j] = "handling" PROVE Handled(j) \in Bookings
    BY <2>2 DEF JobsAreServable, Handled
  <2>3. ASSUME hand[w][j] = "handling", NEW to \in {"expired", "cancelled"}, Become(Handled(j), to),
               closed' \in {closed, closed \union {Handled(j)}}, UNCHANGED request
        PROVE  BookingTypes'
    BY <1>0, <2>2, <2>3, Becoming
  <2>4. QED
    BY <1>6, <2>1, <2>3
       DEF Handle, Handling, FailJob, HandleExpire, HandleRefund, CloseRefunded, bookingVars
<1>7. ASSUME NEW w \in Workers, Runner(w) \/ Refunding(w) \/ CrashWorker(w) PROVE BookingTypes'
  BY <1>7 DEF Runner, Refunding, CrashWorker, bookingVars
<1>8. CASE RestartIdleWorker \/ UNCHANGED vars
  BY <1>8 DEF RestartIdleWorker, vars, bookingVars
<1>9. CASE Tick
  BY <1>9, Settings DEF Tick, Queue!Less
<1>10. QED
  BY <1>1, <1>2, <1>3, <1>4, <1>5, <1>6, <1>7, <1>8, <1>9 DEF Next, Work

(* A job comes into the table with a payload, keeps it, and comes into a   *)
(* worker's hands by being there.                                          *)
LEMMA PayloadsStay ==
  ASSUME Lines!QueueTypeOK, [Lines!QueueNext]_(Lines!queueVars), NEW j \in Jobs,
         job[j].status # "absent"
  PROVE  job'[j].payload = job[j].payload /\ job'[j].status # "absent"
<1> USE DEF Lines!QueueTypeOK
<1>0. job[j] \in Lines!Job
  OBVIOUS
<1>1. ASSUME NEW stored \in Lines!Job
      PROVE  /\ Lines!Leased(stored).payload = stored.payload
             /\ Lines!Removed(stored).payload = stored.payload
             /\ [stored EXCEPT !.lease = 0, !.wait = RetryBackoff].payload = stored.payload
             /\ [stored EXCEPT !.wait = Lines!Less(@), !.lease = Lines!Less(@)].payload = stored.payload
  BY DEF Lines!Leased, Lines!Removed, Lines!Job
<1>2. \/ job'[j] = job[j] \/ job'[j] = Lines!Leased(job[j]) \/ job'[j] = Lines!Removed(job[j])
      \/ job'[j] = [job[j] EXCEPT !.lease = 0, !.wait = RetryBackoff]
      \/ job'[j] = [job[j] EXCEPT !.wait = Lines!Less(@), !.lease = Lines!Less(@)]
  <2>1. ASSUME NEW w \in Workers, NEW k \in Jobs, Lines!HandBack(w, k)
        PROVE  job'[j] = job[j] \/ job'[j] = [job[j] EXCEPT !.lease = 0, !.wait = RetryBackoff]
    BY <2>1 DEF Lines!HandBack
  <2>2. ASSUME NEW w \in Workers, NEW k \in Jobs, Lines!Complete(w, k)
        PROVE  job'[j] = job[j] \/ job'[j] = Lines!Removed(job[j])
    BY <2>2 DEF Lines!Complete
  <2>3. QED
    BY <2>1, <2>2 DEF Lines!QueueNext, Lines!queueVars, Lines!Enqueue, Lines!Claim, Lines!Dispatch,
       Lines!Start, Lines!LoseJob, Lines!HandlerReturns, Lines!CrashWorker, Lines!QueueTick
<1>3. job'[j].payload = job[j].payload
  BY <1>0, <1>1, <1>2, Zenon
<1>4. job'[j].status # "absent"
  BY Settings, Lines!RowChanges
<1>5. QED
  BY <1>3, <1>4

LEMMA JobsStayServable ==
  ASSUME WellFormed, [Next]_vars
  PROVE  JobsAreServable'
<1>1. Lines!QueueTypeOK /\ [Lines!QueueNext]_(Lines!queueVars)
  BY QueueSteps DEF WellFormed
<1>2. ASSUME NEW j \in Jobs, job'[j].status # "absent" PROVE job'[j].payload \in Kinds \X Bookings
  <2>1. CASE job[j].status # "absent"
    BY <1>1, <2>1, PayloadsStay DEF WellFormed, JobsAreServable
  <2>2. CASE job[j].status = "absent"
    <3>1. PICK payload \in Kinds \X Bookings, delay \in 0 .. (HoldTime + ExpiryGrace) :
            Lines!Enqueue(j, payload, delay)
      BY <1>1, <1>2, <2>2, Settings, Lines!AbsentUntilEnqueued
    <3>2. job'[j].payload = payload
      BY <1>1, <3>1 DEF Lines!Enqueue, Lines!NoJob, Lines!QueueTypeOK
    <3>3. QED
      BY <3>2
  <2>3. QED
    BY <2>1, <2>2
<1>3. ASSUME NEW w \in Workers, NEW j \in Jobs, hand'[w][j] # "none" PROVE job'[j].status # "absent"
  <2>1. job[j].status # "absent"
    <3>1. CASE hand[w][j] # "none"
      BY <3>1 DEF WellFormed, JobsAreServable
    <3>2. CASE hand[w][j] = "none"
      <4>1. ASSUME NEW v \in Workers, Lines!Claim(v) PROVE job[j].status = "queued"
        <5>1. PICK batch \in SUBSET Lines!Claimable :
                hand' = [hand EXCEPT ![v] = [k \in Jobs |-> IF k \in batch THEN "leased" ELSE "none"]]
          BY <4>1 DEF Lines!Claim
        <5>2. j \in batch
          BY <1>1, <1>3, <3>2, <5>1 DEF Lines!QueueTypeOK
        <5>3. QED
          BY <5>2 DEF Lines!Claimable
      <4>2. ASSUME NEW v \in Workers, NEW k \in Jobs, Lines!Dispatch(v, k) PROVE hand'[w][j] = "none"
        BY <1>1, <3>2, <4>2 DEF Lines!QueueTypeOK, Lines!Dispatch, Lines!Start, Lines!Complete,
           Lines!HandBack, Lines!LoseJob, Lines!LetGo
      <4>3. ASSUME NEW v \in Workers, NEW k \in Jobs, NEW ok \in BOOLEAN, Lines!HandlerReturns(v, k, ok)
            PROVE  hand'[w][j] = "none"
        BY <1>1, <3>2, <4>3 DEF Lines!QueueTypeOK, Lines!HandlerReturns
      <4>4. ASSUME NEW v \in Workers, Lines!CrashWorker(v) PROVE hand'[w][j] = "none"
        BY <1>1, <3>2, <4>4 DEF Lines!QueueTypeOK, Lines!CrashWorker, Lines!NoHands
      <4>5. (UNCHANGED hand) => hand'[w][j] = "none"
        BY <3>2
      <4>6. QED
        BY <1>1, <1>3, <4>1, <4>2, <4>3, <4>4, <4>5
           DEF Lines!QueueNext, Lines!queueVars, Lines!Enqueue, Lines!QueueTick
    <3>3. QED
      BY <3>1, <3>2
  <2>2. QED
    BY <1>1, <2>1, PayloadsStay
<1>4. QED
  BY <1>2, <1>3 DEF JobsAreServable

LEMMA WellFormedStep == WellFormed /\ [Next]_vars => WellFormed'
<1> SUFFICES ASSUME WellFormed, [Next]_vars PROVE WellFormed'
  OBVIOUS
<1>1. Lines!QueueTypeOK'
  BY QueueSteps, Settings, Lines!QueueStepTypeOK DEF WellFormed
<1>2. QED
  BY <1>1, BookingTypesStep, JobsStayServable DEF WellFormed
-----------------------------------------------------------------------------
(* What the payments promise holds here as well, crashes included, and     *)
(* what is settled or sent back stays so.                                  *)

MoneyInv == Money!PayInv /\ RefundsCounted

MoneyStays ==
  \A i \in Ids :
    /\ attempt[i].status \in {"succeeded", "failed"} => attempt'[i] = attempt[i]
    /\ refunded[i] > 0 => refunded'[i] > 0

LEMMA MoneyRests ==
  ASSUME MoneyInv, UNCHANGED payVars
  PROVE  MoneyInv' /\ MoneyStays
<1>1. UNCHANGED Money!payVars /\ RefundsCounted' /\ MoneyStays
  BY CountsRest DEF MoneyInv, payVars, Money!payVars, RefundsCounted, MoneyStays, Ids, Payments!Ids
<1>2. QED
  BY <1>1, Settings, Money!NextInv DEF MoneyInv

(* A step of the payments that sends nothing back.                         *)
LEMMA PaymentSteps ==
  ASSUME MoneyInv, [Money!PayNext]_(Money!payVars), UNCHANGED refunded, UNCHANGED known
  PROVE  MoneyInv' /\ MoneyStays
<1>1. Money!PayInv'
  BY Settings, Money!NextInv DEF MoneyInv
<1>2. RefundsCounted'
  BY DEF MoneyInv, RefundsCounted, Ids, Payments!Ids
<1>3. \A i \in Ids : attempt[i].status \in {"succeeded", "failed"} => attempt'[i] = attempt[i]
  BY Settings, IdsAreIds, Money!SettledStays DEF MoneyInv, Money!Settled
<1>4. QED
  BY <1>1, <1>2, <1>3 DEF MoneyInv, MoneyStays

LEMMA SendingBack ==
  ASSUME MoneyInv, NEW w \in Workers, Payments!RefundStep(w)
  PROVE  MoneyInv' /\ MoneyStays
<1>1. Money!RefundStep(w) /\ RefundsCounted' /\ UNCHANGED attempt
  BY RefundStepsAreSteps DEF MoneyInv, Payments!RefundStep, Payments!FindSettled, Payments!SendBack,
     Payments!BreakRefund
<1>2. Money!PayInv'
  BY <1>1, Settings, Money!NextInv DEF MoneyInv, Money!PayNext
<1>3. \A i \in Ids : refunded[i] > 0 => refunded'[i] > 0
  BY DEF MoneyInv, RefundsCounted, Payments!RefundStep, Payments!FindSettled, Payments!SendBack,
     Payments!BreakRefund
<1>4. QED
  BY <1>1, <1>2, <1>3 DEF MoneyInv, MoneyStays

(* A call, or a refund, that is over: answered and collected, or dead.     *)
LEMMA CallOver ==
  ASSUME MoneyInv, NEW r \in Requests, call' = [call EXCEPT ![r] = Payments!NoCall],
         UNCHANGED <<attempt, minted, asked, charged, refunded, known, refund>>
  PROVE  MoneyInv' /\ MoneyStays
<1>1. Money!PayInv'
  BY Settings, CountsRest, Money!CallEndsInv DEF MoneyInv, Payments!NoCall, Money!NoCall
<1>2. QED
  BY <1>1 DEF MoneyInv, MoneyStays, RefundsCounted, Ids, Payments!Ids

LEMMA RefundOver ==
  ASSUME MoneyInv, NEW w \in Workers, refund' = [refund EXCEPT ![w] = Payments!NoRefund],
         known' \in {known, {}}, UNCHANGED <<attempt, minted, asked, charged, refunded, call>>
  PROVE  MoneyInv' /\ MoneyStays
<1>1. Money!PayInv'
  BY Settings, CountsRest, Money!RefundEndsInv DEF MoneyInv, Payments!NoRefund, Money!NoRefund
<1>2. QED
  BY <1>1 DEF MoneyInv, MoneyStays, RefundsCounted, Ids, Payments!Ids

LEMMA Forgetting ==
  ASSUME MoneyInv, known' = {}, UNCHANGED <<attempt, minted, asked, charged, refunded, call, refund>>
  PROVE  MoneyInv' /\ MoneyStays
<1>1. UNCHANGED Money!payVars
  BY CountsRest DEF Money!payVars
<1>2. Money!PayInv'
  BY <1>1, Settings, Money!NextInv DEF MoneyInv
<1>3. QED
  BY <1>2 DEF MoneyInv, MoneyStays, RefundsCounted, Ids, Payments!Ids

LEMMA MoneyStep ==
  ASSUME WellFormed, MoneyInv, [Next]_vars
  PROVE  MoneyInv' /\ MoneyStays
<1>1. CASE UNCHANGED payVars
  BY <1>1, MoneyRests
<1>2. ASSUME NEW r \in Requests, NEW b \in Bookings, NEW k \in Keys, Pay(r, b, k)
      PROVE  MoneyInv' /\ MoneyStays
  <2>1. Money!OpenPay(r, b, k, Price) /\ UNCHANGED <<refunded, known>>
    BY <1>2, CallStepsAreSteps DEF Pay, Payments!OpenPay
  <2>2. QED
    BY <2>1, PaymentSteps DEF Money!PayNext
<1>3. ASSUME NEW r \in Requests, Charging(r) PROVE MoneyInv' /\ MoneyStays
  <2>1. Money!PayStep(r) /\ UNCHANGED <<refunded, known>>
    BY <1>3, CallStepsAreSteps DEF Charging, Payments!PayStep, Payments!LookUp, Payments!Insert,
       Payments!Charge, Payments!Settle, Payments!Break
  <2>2. QED
    BY <2>1, PaymentSteps DEF Money!PayNext
<1>4. ASSUME NEW r \in Requests, Charged(r) \/ CrashRequest(r) PROVE MoneyInv' /\ MoneyStays
  BY <1>4, CallOver DEF Charged, CrashRequest, Payments!Collect
<1>5. ASSUME NEW r \in Requests, Serving(r), ~Charging(r), ~Charged(r) PROVE UNCHANGED payVars
  BY <1>5 DEF Serving, ScheduleExpiry, LoseExpiry, Confirm, ConfirmBreaks, QueueRefund, LoseRefund,
     EndOnDecline
<1>6. ASSUME NEW w \in Workers, NEW j \in Jobs, HandleRefund(w, j) PROVE MoneyInv' /\ MoneyStays
  <2>1. Handled(j) \in Bookings
    BY <1>6 DEF HandleRefund, Handling, WellFormed, JobsAreServable, Handled
  <2>2. CASE Payments!OpenRefund(w, Handled(j))
    <3>1. Money!OpenRefund(w, Handled(j)) /\ UNCHANGED <<refunded, known>>
      BY <2>1, <2>2, RefundStepsAreSteps DEF MoneyInv, Payments!OpenRefund
    <3>2. QED
      BY <2>1, <3>1, PaymentSteps DEF Money!PayNext
  <2>3. QED
    BY <1>1, <1>6, <2>2 DEF HandleRefund
<1>7. ASSUME NEW w \in Workers, NEW j \in Jobs, CloseRefunded(w, j) PROVE MoneyInv' /\ MoneyStays
  BY <1>7, RefundOver DEF CloseRefunded, Payments!CollectRefund
<1>8. ASSUME NEW w \in Workers, NEW j \in Jobs, FailJob(w, j) \/ HandleExpire(w, j)
      PROVE  UNCHANGED payVars
  BY <1>8 DEF FailJob, HandleExpire
<1>9. ASSUME NEW w \in Workers, Refunding(w) PROVE MoneyInv' /\ MoneyStays
  BY <1>9, SendingBack DEF Refunding
<1>10. ASSUME NEW w \in Workers, CrashWorker(w) PROVE MoneyInv' /\ MoneyStays
  BY <1>10, RefundOver DEF CrashWorker
<1>11. CASE RestartIdleWorker
  BY <1>11, Forgetting DEF RestartIdleWorker
<1>12. QED
  BY <1>1, <1>2, <1>3, <1>4, <1>5, <1>6, <1>7, <1>8, <1>9, <1>10, <1>11
     DEF Next, vars, Hold, Cancel, Tick, Work, Runner, Handle
-----------------------------------------------------------------------------
(* What the records say of a booking.                                      *)

Paid(b) == \E i \in Ids : attempt[i].status = "succeeded" /\ attempt[i].booking = b

Declined(b) == \E i \in Ids : attempt[i].status = "failed" /\ attempt[i].booking = b

SentBack(b) ==
  \E i \in Ids : attempt[i].status = "succeeded" /\ attempt[i].booking = b /\ refunded[i] > 0

LEMMA RecordsSay ==
  ASSUME NEW b
  PROVE  /\ Paid(b) <=> Payments!SettledAttempts(b) # {}
         /\ SentBack(b) <=> RefundedFor(b)
BY DEF Paid, SentBack, RefundedFor, Payments!SettledAttempts, Ids

LEMMA RecordsStay ==
  ASSUME MoneyStays, NEW b
  PROVE  /\ Paid(b) => Paid(b)'
         /\ Declined(b) => Declined(b)'
         /\ SentBack(b) => SentBack(b)'
<1>1. Ids' = Ids
  BY DEF Ids, Payments!Ids
<1>2. QED
  BY <1>1 DEF MoneyStays, Paid, Declined, SentBack

(* A request that decides a booking knows what became of its payment: the  *)
(* record was settled before the answer, and a record does not change.     *)
RequestIsTrue(r) ==
  /\ request[r].at = "paying" => call[r].at # "idle" /\ call[r].booking = request[r].booking
  /\ request[r].at = "confirming" => Paid(request[r].booking)
  /\ request[r].at = "failing" => Declined(request[r].booking)

StatusIsTrue(b) ==
  /\ status[b] \in {"confirmed", "refund_required"} => Paid(b)
  /\ status[b] = "payment_failed" => Declined(b)

LEMMA CallsTyped ==
  ASSUME MoneyInv
  PROVE  /\ call \in [Requests -> Money!Call]
         /\ \A r \in Requests : call[r].answer = "paid" => Paid(call[r].booking)
         /\ \A r \in Requests : call[r].answer = "declined" => Declined(call[r].booking)
BY IdsAreIds DEF MoneyInv, Money!PayInv, Money!PayTypeOK, Money!AnswerIsTrue, Paid, Declined

LEMMA CallGoesOn ==
  ASSUME MoneyInv, NEW q \in Requests, Payments!PayStep(q), NEW r \in Requests
  PROVE  /\ call'[r].booking = call[r].booking
         /\ call[r].at # "idle" => call'[r].at # "idle"
<1> USE CallsTyped DEF Money!Call
<1>1. CASE Payments!LookUp(q)
  BY <1>1 DEF Payments!LookUp, Payments!Answer
<1>2. CASE Payments!Insert(q)
  BY <1>2 DEF Payments!Insert
<1>3. CASE Payments!Charge(q)
  BY <1>3 DEF Payments!Charge, Payments!Answer
<1>4. CASE Payments!Settle(q)
  BY <1>4 DEF Payments!Settle, Payments!Answer
<1>5. CASE Payments!Break(q)
  BY <1>5 DEF Payments!Break, Payments!Answer
<1>6. QED
  BY <1>1, <1>2, <1>3, <1>4, <1>5 DEF Payments!PayStep

(* A request whose own step it is not keeps its place, and its call.       *)
LEMMA RequestRests ==
  ASSUME MoneyStays, NEW r \in Requests, RequestIsTrue(r), request'[r] = request[r],
         request[r].at = "paying" =>
           call'[r].booking = call[r].booking /\ call'[r].at # "idle"
  PROVE  RequestIsTrue(r)'
BY RecordsStay DEF RequestIsTrue

LEMMA RequestStep ==
  ASSUME WellFormed, MoneyInv, MoneyStays, [Next]_vars, NEW r \in Requests, RequestIsTrue(r)
  PROVE  RequestIsTrue(r)'
<1>0. BookingTypes /\ call \in [Requests -> Money!Call]
  BY CallsTyped DEF WellFormed
<1>1. CASE UNCHANGED <<request, call>>
  BY <1>1, RequestRests DEF RequestIsTrue
<1>2. ASSUME NEW q \in Requests, NEW b \in Bookings, Hold(q, b) PROVE RequestIsTrue(r)'
  <2>1. request'[q].at = "schedule" /\ call' = call /\ (r # q => request'[r] = request[r])
    BY <1>0, <1>2 DEF Hold, payVars, BookingTypes, Waiting
  <2>2. QED
    BY <2>1, RequestRests DEF RequestIsTrue
<1>3. ASSUME NEW q \in Requests, NEW b \in Bookings, NEW k \in Keys, Pay(q, b, k)
      PROVE  RequestIsTrue(r)'
  <2>1. /\ request'[q].at = "paying" /\ request'[q].booking = b
        /\ r # q => request'[r] = request[r]
    BY <1>0, <1>3 DEF Pay, BookingTypes, Waiting
  <2>2. /\ call'[q].at = "lookUp" /\ call'[q].booking = b
        /\ r # q => call'[r] = call[r]
    BY <1>0, <1>3 DEF Pay, Payments!OpenPay
  <2>3. QED
    BY <2>1, <2>2, RequestRests DEF RequestIsTrue
<1>4. ASSUME NEW q \in Requests, Charging(q) PROVE RequestIsTrue(r)'
  BY <1>4, CallGoesOn, RequestRests DEF Charging, RequestIsTrue
<1>5. ASSUME NEW q \in Requests, Charged(q) PROVE RequestIsTrue(r)'
  <2>1. call' = [call EXCEPT ![q] = Payments!NoCall] /\ request[q].at = "paying"
    BY <1>5 DEF Charged, Payments!Collect
  <2>2. CASE r # q
    <3>1. request'[r] = request[r] /\ call'[r] = call[r]
      BY <1>0, <1>5, <2>1, <2>2 DEF Charged, Go, Answer, BookingTypes
    <3>2. QED
      BY <3>1, RequestRests DEF RequestIsTrue
  <2>3. CASE r = q
    <3>1. CASE call[r].answer = "paid" /\ Go(r, "confirming")
      <4>1. request'[r].at = "confirming" /\ request'[r].booking = call[r].booking
        BY <1>0, <2>1, <2>3, <3>1, Going DEF RequestIsTrue
      <4>2. QED
        BY <3>1, <4>1, CallsTyped, RecordsStay DEF RequestIsTrue
    <3>2. CASE call[r].answer = "declined" /\ Go(r, "failing")
      <4>1. request'[r].at = "failing" /\ request'[r].booking = call[r].booking
        BY <1>0, <2>1, <2>3, <3>2, Going DEF RequestIsTrue
      <4>2. QED
        BY <3>2, <4>1, CallsTyped, RecordsStay DEF RequestIsTrue
    <3>3. CASE Answer(r)
      BY <1>0, <3>3, Over DEF Answer, RequestIsTrue
    <3>4. QED
      BY <1>5, <2>3, <3>1, <3>2, <3>3 DEF Charged
  <2>4. QED
    BY <2>2, <2>3
<1>6. ASSUME NEW q \in Requests, request[q].at # "idle", Answer(q) \/ Go(q, "refunding"), UNCHANGED call
      PROVE  RequestIsTrue(r)'
  <2>1. request'[q].at \in {"idle", "refunding"} /\ (r # q => request'[r] = request[r])
    BY <1>0, <1>6, Over, Going DEF Answer
  <2>2. QED
    BY <1>6, <2>1, RequestRests DEF RequestIsTrue
<1>7. ASSUME NEW q \in Requests, Serving(q), ~Charging(q), ~Charged(q)
      PROVE  request[q].at # "idle" /\ (Answer(q) \/ Go(q, "refunding")) /\ UNCHANGED call
  BY <1>7 DEF Serving, ScheduleExpiry, LoseExpiry, Confirm, Decide, ConfirmBreaks, QueueRefund,
     LoseRefund, EndOnDecline, payVars
<1>8. ASSUME NEW q \in Requests, CrashRequest(q) PROVE RequestIsTrue(r)'
  <2>1. request'[q].at = "idle" /\ (r # q => request'[r] = request[r] /\ call'[r] = call[r])
    BY <1>0, <1>8, Over DEF CrashRequest
  <2>2. QED
    BY <2>1, RequestRests DEF RequestIsTrue
<1>9. ASSUME NEW w \in Workers, Work(w) \/ CrashWorker(w) PROVE UNCHANGED <<request, call>>
  BY <1>9 DEF Work, Runner, Refunding, Handle, FailJob, HandleExpire, HandleRefund, CloseRefunded,
     CrashWorker, payVars, Payments!RefundStep, Payments!FindSettled, Payments!SendBack,
     Payments!BreakRefund, Payments!OpenRefund, Payments!CollectRefund
<1>10. QED
  BY <1>1, <1>2, <1>3, <1>4, <1>5, <1>6, <1>7, <1>8, <1>9
     DEF Next, vars, payVars, Cancel, RestartIdleWorker, Tick

(* How a booking gets its status: decided by a request that knows what its *)
(* payment came to, or ended without a seat; and a debt is only ever       *)
(* closed.                                                                 *)
Owing == {"refund_required", "cancelled"}

LEMMA StatusMoves ==
  ASSUME WellFormed, [Next]_vars, NEW b \in Bookings
  PROVE  /\ \/ status'[b] = status[b]
            \/ status'[b] \in {"pending_payment", "expired", "cancelled"}
            \/ /\ status'[b] \in {"confirmed", "refund_required"}
               /\ \E r \in Requests : request[r].at = "confirming" /\ request[r].booking = b
            \/ /\ status'[b] = "payment_failed"
               /\ \E r \in Requests : request[r].at = "failing" /\ request[r].booking = b
         /\ status[b] \in Owing => status'[b] \in Owing
<1> DEFINE Result ==
             /\ \/ status'[b] = status[b]
                \/ status'[b] \in {"pending_payment", "expired", "cancelled"}
                \/ /\ status'[b] \in {"confirmed", "refund_required"}
                   /\ \E r \in Requests : request[r].at = "confirming" /\ request[r].booking = b
                \/ /\ status'[b] = "payment_failed"
                   /\ \E r \in Requests : request[r].at = "failing" /\ request[r].booking = b
             /\ status[b] \in Owing => status'[b] \in Owing
<1> USE DEF Owing
<1>0. BookingTypes /\ status \in [Bookings -> Status \union {"absent"}]
  BY DEF WellFormed, BookingTypes
<1>1. CASE UNCHANGED status
  BY <1>1
<1>2. ASSUME NEW q \in Requests, NEW a \in Bookings, Hold(q, a) PROVE Result
  BY <1>0, <1>2 DEF Hold
<1>3. ASSUME NEW r \in Requests, Confirm(r) \/ ConfirmBreaks(r) PROVE Result
  <2>1. request[r].at = "confirming"
    BY <1>3 DEF Confirm, ConfirmBreaks
  <2>2. ASSUME NEW to \in {"confirmed", "refund_required"}, status[request[r].booking] = "pending_payment",
               Become(request[r].booking, to)
        PROVE  Result
    BY <1>0, <2>1, <2>2 DEF Become
  <2>3. QED
    BY <1>1, <1>3, <2>2 DEF Confirm, ConfirmBreaks, Decide
<1>4. ASSUME NEW r \in Requests, EndOnDecline(r) PROVE Result
  BY <1>0, <1>1, <1>4 DEF EndOnDecline, Become
<1>5. ASSUME NEW a \in Bookings, Cancel(a) PROVE Result
  BY <1>0, <1>5 DEF Cancel, Become
<1>6. ASSUME NEW w \in Workers, NEW j \in Jobs, HandleExpire(w, j) \/ CloseRefunded(w, j) PROVE Result
  BY <1>0, <1>1, <1>6 DEF HandleExpire, CloseRefunded, Become, bookingVars
<1>7. ASSUME NEW r \in Requests, Serving(r), ~Confirm(r), ~ConfirmBreaks(r), ~EndOnDecline(r)
      PROVE  UNCHANGED status
  BY <1>7 DEF Serving, ScheduleExpiry, LoseExpiry, Charging, Charged, QueueRefund, LoseRefund, bookingVars
<1>8. ASSUME NEW w \in Workers, NEW j \in Jobs, FailJob(w, j) \/ HandleRefund(w, j)
      PROVE  UNCHANGED status
  BY <1>8 DEF FailJob, HandleRefund, bookingVars
<1>9. QED
  BY <1>1, <1>2, <1>3, <1>4, <1>5, <1>6, <1>7, <1>8
     DEF Next, vars, bookingVars, Pay, CrashRequest, RestartIdleWorker, Tick, Work, Runner, Refunding,
         Handle, CrashWorker

LEMMA StatusStep ==
  ASSUME WellFormed, MoneyStays, [Next]_vars, NEW b \in Bookings, StatusIsTrue(b),
         \A r \in Requests : RequestIsTrue(r)
  PROVE  StatusIsTrue(b)'
BY StatusMoves, RecordsStay DEF StatusIsTrue, RequestIsTrue
-----------------------------------------------------------------------------
(* The worker's hands.  A worker runs one job at a time, and while it runs *)
(* a refund that job is the refund's.                                      *)

OneJobAtATime(w) ==
  \A j, k \in Jobs :
    {hand[w][j], hand[w][k]} \subseteq {"handling", "complete", "handBack"} => j = k

LEMMA OneJobStep ==
  ASSUME WellFormed, [Next]_vars, NEW w \in Workers, OneJobAtATime(w)
  PROVE  OneJobAtATime(w)'
<1>1. /\ hand \in [Workers -> [Jobs -> Lines!Stage]]
      /\ [Lines!QueueNext]_(Lines!queueVars)
  BY QueueSteps DEF WellFormed, Lines!QueueTypeOK
<1> USE DEF OneJobAtATime
<1>2. ASSUME NEW v \in Workers, Lines!Claim(v) PROVE OneJobAtATime(w)'
  BY <1>1, <1>2 DEF Lines!Claim
<1>3. ASSUME NEW v \in Workers, NEW i \in Jobs, Lines!Start(v, i) PROVE OneJobAtATime(w)'
  <2>1. CASE v # w
    BY <1>1, <1>3, <2>1 DEF Lines!Start
  <2>2. CASE v = w
    <3>1. Lines!Working(w) \subseteq Jobs /\ Cardinality(Lines!Working(w)) < 1
      BY <1>3, <2>2, OneCount DEF Lines!Start, Lines!Working
    <3>2. IsFiniteSet(Lines!Working(w))
      BY <3>1, Settings, FS_Subset
    <3>3. Cardinality(Lines!Working(w)) \in Nat
      BY <3>2, FS_CardinalityType
    <3>4. Lines!Working(w) = {}
      BY <3>1, <3>2, <3>3, FS_EmptySet
    <3>5. \A j \in Jobs : hand[w][j] \notin {"handling", "complete", "handBack"}
      BY <3>4 DEF Lines!Working
    <3>6. QED
      BY <1>1, <1>3, <2>2, <3>5 DEF Lines!Start
  <2>3. QED
    BY <2>1, <2>2
<1>4. ASSUME NEW v \in Workers, NEW i \in Jobs,
             Lines!Complete(v, i) \/ Lines!HandBack(v, i) \/ Lines!LoseJob(v, i)
      PROVE  OneJobAtATime(w)'
  BY <1>1, <1>4 DEF Lines!Complete, Lines!HandBack, Lines!LoseJob, Lines!LetGo
<1>5. ASSUME NEW v \in Workers, NEW i \in Jobs, NEW ok \in BOOLEAN, Lines!HandlerReturns(v, i, ok)
      PROVE  OneJobAtATime(w)'
  <2>1. hand[v][i] = "handling" /\ \E stage \in {"complete", "handBack"} : hand' = [hand EXCEPT ![v][i] = stage]
    BY <1>5 DEF Lines!HandlerReturns
  <2>2. \A k \in Jobs : hand'[w][k] \in {"handling", "complete", "handBack"} =>
                          hand[w][k] \in {"handling", "complete", "handBack"}
    BY <1>1, <2>1
  <2>3. QED
    BY <2>2
<1>6. ASSUME NEW v \in Workers, Lines!CrashWorker(v) PROVE OneJobAtATime(w)'
  BY <1>1, <1>6 DEF Lines!CrashWorker, Lines!NoHands
<1>7. CASE UNCHANGED hand
  BY <1>7
<1>8. QED
  BY <1>1, <1>2, <1>3, <1>4, <1>5, <1>6, <1>7
     DEF Lines!QueueNext, Lines!queueVars, Lines!Dispatch, Lines!Enqueue, Lines!QueueTick

HandsOn(w, b) ==
  /\ \E j \in Jobs : hand[w][j] = "handling"
  /\ \A j \in Jobs : hand[w][j] = "handling" => job[j].payload = Payload("reconcile_refund", b)

(* No other handler of the worker runs, and no batch is claimed, until the *)
(* refund is over.                                                         *)
LEMMA HandsStayOn ==
  ASSUME WellFormed, [Next]_vars, NEW w \in Workers, OneJobAtATime(w), NEW b, HandsOn(w, b),
         refund[w].at # "idle"
  PROVE  HandsOn(w, b)' \/ CrashWorker(w) \/ \E j \in Jobs : CloseRefunded(w, j)
<1>1. /\ Lines!QueueTypeOK /\ [Lines!QueueNext]_(Lines!queueVars)
      /\ hand \in [Workers -> [Jobs -> Lines!Stage]]
  BY QueueSteps DEF WellFormed, Lines!QueueTypeOK
<1>2. ASSUME \A j \in Jobs : hand'[w][j] = "handling" <=> hand[w][j] = "handling"
      PROVE  HandsOn(w, b)'
  <2>1. ASSUME NEW j \in Jobs, hand[w][j] = "handling" PROVE job'[j].payload = job[j].payload
    BY <1>1, <2>1, PayloadsStay DEF WellFormed, JobsAreServable
  <2>2. QED
    BY <1>2, <2>1 DEF HandsOn, Payload
<1>3. UNCHANGED hand => HandsOn(w, b)'
  BY <1>2
<1>4. ASSUME NEW v \in Workers, Runner(v) PROVE HandsOn(w, b)'
  <2>1. PICK j \in Jobs : hand[w][j] = "handling"
    BY DEF HandsOn
  <2>2. CASE Queue!Claim(v)
    <3>1. v # w
      BY <1>1, <2>1, <2>2 DEF Queue!Claim, Queue!NoHands
    <3>2. hand'[w] = hand[w]
      BY <1>1, <2>2, <3>1 DEF Queue!Claim
    <3>3. QED
      BY <1>2, <3>2
  <2>3. ASSUME NEW i \in Jobs, Queue!Start(v, i) PROVE HandsOn(w, b)'
    <3>1. v # w
      <4>1. SUFFICES ASSUME v = w PROVE FALSE
        OBVIOUS
      <4>2. IsFiniteSet(Queue!Working(w)) /\ Cardinality(Queue!Working(w)) < 1
        <5>1. Queue!Working(w) \subseteq Jobs /\ Cardinality(Queue!Working(w)) < 1
          BY <2>3, <4>1, OneCount DEF Queue!Start, Queue!Working
        <5>2. QED
          BY <5>1, Settings, FS_Subset
      <4>3. Cardinality(Queue!Working(w)) \in Nat
        BY <4>2, FS_CardinalityType
      <4>4. Queue!Working(w) = {}
        BY <4>2, <4>3, FS_EmptySet
      <4>5. QED
        BY <2>1, <4>4 DEF Queue!Working
    <3>2. hand'[w] = hand[w]
      BY <1>1, <2>3, <3>1 DEF Queue!Start
    <3>3. QED
      BY <1>2, <3>2
  <2>4. ASSUME NEW i \in Jobs, Queue!Complete(v, i) \/ Queue!HandBack(v, i) \/ Queue!LoseJob(v, i)
        PROVE  HandsOn(w, b)'
    <3>1. hand[v][i] \in {"complete", "handBack"} /\ hand' = [hand EXCEPT ![v][i] = "none"]
      BY <2>4 DEF Queue!Complete, Queue!HandBack, Queue!LoseJob, Queue!LetGo
    <3>2. \A k \in Jobs : hand'[w][k] = "handling" <=> hand[w][k] = "handling"
      BY <1>1, <3>1
    <3>3. QED
      BY <1>2, <3>2
  <2>5. QED
    BY <1>4, <2>2, <2>3, <2>4 DEF Runner, Queue!Dispatch
<1>5. ASSUME NEW v \in Workers, NEW j \in Jobs, Handle(v, j), ~CloseRefunded(w, j)
      PROVE  HandsOn(w, b)'
  <2>1. CASE v = w
    <3>1. hand[w][j] = "handling" => job[j].payload[1] = "reconcile_refund"
      BY DEF HandsOn, Payload
    <3>2. UNCHANGED hand
      BY <1>5, <2>1, <3>1 DEF Handle, FailJob, HandleExpire, HandleRefund, Handling, queueVars
    <3>3. QED
      BY <1>3, <3>2
  <2>2. CASE v # w
    <3>1. UNCHANGED hand \/ \E ok \in BOOLEAN : Queue!HandlerReturns(v, j, ok)
      BY <1>5 DEF Handle, FailJob, HandleExpire, HandleRefund, CloseRefunded, queueVars
    <3>2. hand'[w] = hand[w]
      BY <1>1, <2>2, <3>1 DEF Queue!HandlerReturns
    <3>3. QED
      BY <1>2, <3>2
  <2>3. QED
    BY <2>1, <2>2
<1>6. ASSUME NEW v \in Workers, CrashWorker(v), v # w PROVE HandsOn(w, b)'
  <2>1. hand'[w] = hand[w]
    BY <1>1, <1>6 DEF CrashWorker, Queue!CrashWorker
  <2>2. QED
    BY <1>2, <2>1
<1>7. ASSUME NEW r \in Requests, Serving(r) PROVE UNCHANGED hand
  BY <1>7 DEF Serving, ScheduleExpiry, LoseExpiry, Charging, Charged, Confirm, ConfirmBreaks, QueueRefund,
     LoseRefund, EndOnDecline, queueVars, Queue!Enqueue
<1>8. QED
  BY <1>3, <1>4, <1>5, <1>6, <1>7
     DEF Next, vars, queueVars, Hold, Pay, CrashRequest, Cancel, Work, Refunding, RestartIdleWorker, Tick,
         Queue!QueueTick
-----------------------------------------------------------------------------
(* A refund under way is for a booking that is owed one or was closed over *)
(* it, and whoever is told it is back can look it up.                      *)
RefundIsTrue(w) ==
  refund[w].at # "idle" =>
    /\ refund[w].booking \in Bookings
    /\ status[refund[w].booking] \in Owing
    /\ refund[w].at = "send" => attempt[refund[w].id].booking = refund[w].booking
    /\ refund[w].answer = "refunded" => SentBack(refund[w].booking)
    /\ HandsOn(w, refund[w].booking)

LEMMA RefundsTyped ==
  ASSUME MoneyInv
  PROVE  /\ refund \in [Workers -> Money!RefundCall]
         /\ \A w \in Workers : refund[w].at = "send" =>
              refund[w].id \in Ids /\ attempt[refund[w].id].status = "succeeded"
         /\ \A i \in Ids : refunded[i] > 0 => attempt[i].status = "succeeded"
<1>1. refund \in [Workers -> Money!RefundCall]
  BY DEF MoneyInv, Money!PayInv, Money!PayTypeOK
<1>2. \A w \in Workers : refund[w].at = "send" =>
        refund[w].id \in Ids /\ attempt[refund[w].id].status = "succeeded"
  BY IdsAreIds DEF MoneyInv, Money!PayInv, Money!RefundMeetsItsRow
<1>3. ASSUME NEW i \in Ids, refunded[i] > 0 PROVE attempt[i].status = "succeeded"
  <2>1. Money!RowIsTrue(i)
    BY IdsAreIds DEF MoneyInv, Money!PayInv
  <2>2. i \in {k \in Ids : refunded[k] > 0}
    BY <1>3
  <2>3. QED
    BY <2>1, <2>2 DEF Money!RowIsTrue
<1>4. QED
  BY <1>1, <1>2, <1>3

(* Who moves the refunds' states, and how.                                 *)
LEMMA RefundMoves ==
  ASSUME [Next]_vars, NEW w \in Workers, MoneyInv
  PROVE  \/ refund'[w] = refund[w]
         \/ refund'[w] = Payments!NoRefund
         \/ Payments!RefundStep(w) /\ UNCHANGED status
         \/ \E j \in Jobs : HandleRefund(w, j) /\ Payments!OpenRefund(w, Handled(j))
<1> USE RefundsTyped
<1>1. ASSUME NEW v \in Workers, Refunding(v)
      PROVE  refund'[w] = refund[w] \/ (Payments!RefundStep(w) /\ UNCHANGED status)
  BY <1>1 DEF Refunding, bookingVars, Payments!RefundStep, Payments!FindSettled, Payments!SendBack,
     Payments!BreakRefund, Payments!AnswerRefund
<1>2. ASSUME NEW v \in Workers, NEW j \in Jobs, Handle(v, j)
      PROVE  \/ refund'[w] = refund[w] \/ refund'[w] = Payments!NoRefund
             \/ HandleRefund(w, j) /\ Payments!OpenRefund(w, Handled(j))
  BY <1>2 DEF Handle, FailJob, HandleExpire, HandleRefund, CloseRefunded, payVars, Payments!OpenRefund,
     Payments!CollectRefund
<1>3. ASSUME NEW v \in Workers, CrashWorker(v)
      PROVE  refund'[w] = refund[w] \/ refund'[w] = Payments!NoRefund
  BY <1>3 DEF CrashWorker
<1>4. ASSUME NEW r \in Requests, Serving(r) \/ CrashRequest(r) PROVE UNCHANGED refund
  BY <1>4 DEF Serving, ScheduleExpiry, LoseExpiry, Charging, Charged, Confirm, ConfirmBreaks, QueueRefund,
     LoseRefund, EndOnDecline, CrashRequest, payVars, Payments!PayStep, Payments!LookUp,
     Payments!Insert, Payments!Charge, Payments!Settle, Payments!Break, Payments!Collect
<1>5. ASSUME NEW r \in Requests, NEW b \in Bookings, NEW k \in Keys, Hold(r, b) \/ Pay(r, b, k)
      PROVE  UNCHANGED refund
  BY <1>5 DEF Hold, Pay, payVars, Payments!OpenPay
<1>6. ASSUME NEW r \in Requests, NEW b \in Bookings, Hold(r, b) PROVE UNCHANGED refund
  BY <1>6 DEF Hold, payVars
<1>7. QED
  BY <1>1, <1>2, <1>3, <1>4, <1>5, <1>6
     DEF Next, vars, payVars, Cancel, Work, Runner, RestartIdleWorker, Tick

LEMMA RefundStepIsTrue ==
  ASSUME WellFormed, MoneyInv, MoneyStays, [Next]_vars, NEW w \in Workers,
         OneJobAtATime(w), RefundIsTrue(w)
  PROVE  RefundIsTrue(w)'
<1>1. /\ refund \in [Workers -> Money!RefundCall]
      /\ refund[w].at \in {"idle", "find", "send", "answered"}
  BY RefundsTyped DEF Money!RefundCall
<1>2. PICK b : b = refund[w].booking
  OBVIOUS
<1>3. CASE refund'[w].at = "idle"
  BY <1>3 DEF RefundIsTrue
<1>4. CASE refund'[w].at # "idle" /\ refund[w].at = "idle"
  <2>1. ~Payments!RefundStep(w)
    BY <1>4 DEF Payments!RefundStep, Payments!FindSettled, Payments!SendBack, Payments!BreakRefund
  <2>2. refund'[w] # refund[w] /\ refund'[w] # Payments!NoRefund
    BY <1>4 DEF Payments!NoRefund
  <2>3. PICK j \in Jobs : HandleRefund(w, j) /\ Payments!OpenRefund(w, Handled(j))
    BY <2>1, <2>2, RefundMoves
  <2>4. PICK a : a = Handled(j)
    OBVIOUS
  <2>5. /\ a \in Bookings /\ job[j].payload = Payload("reconcile_refund", a)
        /\ hand[w][j] = "handling"
    BY <2>3, <2>4 DEF HandleRefund, Handling, Handled, Payload, WellFormed, JobsAreServable
  <2>6. /\ refund'[w].at = "find" /\ refund'[w].booking = a /\ refund'[w].answer = "none"
    BY <1>1, <2>3, <2>4 DEF Payments!OpenRefund, Payments!NoRefund
  <2>7. status[a] = "refund_required" /\ UNCHANGED <<status, queueVars>>
    <3>1. ~(refund' = refund)
      BY <1>4
    <3>2. QED
      BY <2>3, <2>4, <3>1 DEF HandleRefund, bookingVars, payVars
  <2>8. HandsOn(w, a)'
    BY <2>5, <2>7 DEF HandsOn, OneJobAtATime, queueVars, Payload
  <2>9. QED
    BY <2>5, <2>6, <2>7, <2>8 DEF RefundIsTrue, Owing
<1>5. CASE refund'[w].at # "idle" /\ refund[w].at # "idle"
  <2>1. /\ b \in Bookings /\ status[b] \in Owing
        /\ refund[w].answer = "refunded" => SentBack(b)
        /\ HandsOn(w, b)
    BY <1>5, <1>2 DEF RefundIsTrue
  <2>2. refund'[w] # Payments!NoRefund
    BY <1>5 DEF Payments!NoRefund
  <2>3. HandsOn(w, b)'
    <3>1. ~CrashWorker(w) /\ \A j \in Jobs : ~CloseRefunded(w, j)
      BY <1>1, <2>2 DEF CrashWorker, CloseRefunded, Payments!CollectRefund
    <3>2. QED
      BY <1>5, <2>1, <3>1, HandsStayOn
  <2>4. status'[b] \in Owing
    BY <2>1, StatusMoves
  <2>5. CASE refund'[w] = refund[w]
    <3>1. refund[w].at = "send" => attempt'[refund[w].id] = attempt[refund[w].id]
      BY RefundsTyped DEF MoneyStays
    <3>2. QED
      BY <1>5, <1>2, <2>1, <2>3, <2>4, <2>5, <3>1, RecordsStay DEF RefundIsTrue
  <2>6. CASE Payments!FindSettled(w)
    <3> DEFINE found == Payments!SettledAttempts(b)
               oldest == CHOOSE i \in found : \A j \in found : i <= j
    <3>1. UNCHANGED attempt
      BY <2>6 DEF Payments!FindSettled
    <3>2. CASE found = {}
      <4>1. refund'[w].at = "answered" /\ refund'[w].answer = "nothing" /\ refund'[w].booking = b
        BY <1>1, <1>2, <2>6, <3>2 DEF Payments!FindSettled, Payments!AnswerRefund, Money!RefundCall
      <4>2. QED
        BY <2>1, <2>3, <2>4, <4>1 DEF RefundIsTrue
    <3>3. CASE found # {}
      <4>1. found \subseteq Nat
        BY IdsAreIds DEF Payments!SettledAttempts, Ids
      <4>2. \E i \in found : \A j \in found : i <= j
        BY <3>3, <4>1, Settings, Money!LeastNatural
      <4>3. oldest \in found
        BY <4>2
      <4>4. attempt[oldest].booking = b
        BY <4>3 DEF Payments!SettledAttempts
      <4>5. refund' = [refund EXCEPT ![w].at = "send", ![w].id = oldest]
        BY <1>2, <2>6, <3>3 DEF Payments!FindSettled
      <4> HIDE DEF oldest
      <4>6. /\ refund'[w].id = oldest /\ refund'[w].booking = b
            /\ refund'[w].answer = refund[w].answer
        BY <1>1, <1>2, <4>5 DEF Money!RefundCall
      <4>7. QED
        BY <2>1, <2>3, <2>4, <3>1, <4>4, <4>6, RecordsStay DEF RefundIsTrue
    <3>4. QED
      BY <3>2, <3>3
  <2>7. CASE Payments!SendBack(w) /\ UNCHANGED status
    <3>1. /\ refund[w].id \in Ids /\ attempt[refund[w].id].status = "succeeded"
          /\ attempt[refund[w].id].booking = b /\ UNCHANGED attempt
      BY <1>5, <1>2, <2>7, RefundsTyped DEF Payments!SendBack, RefundIsTrue
    <3>2. /\ refund'[w].at = "answered" /\ refund'[w].booking = b
      BY <1>1, <1>2, <2>7 DEF Payments!SendBack, Payments!AnswerRefund, Money!RefundCall
    <3>3. refund'[w].answer = "refunded" => refunded'[refund[w].id] > 0
      BY <1>1, <2>7, <3>1 DEF Payments!SendBack, Payments!AnswerRefund, Money!RefundCall, MoneyInv,
         RefundsCounted
    <3>4. refund'[w].answer = "refunded" => SentBack(b)'
      BY <3>1, <3>3 DEF SentBack, Ids, Payments!Ids
    <3>5. QED
      BY <2>1, <2>3, <2>4, <3>2, <3>4 DEF RefundIsTrue, SentBack
  <2>8. CASE Payments!BreakRefund(w)
    <3>1. refund'[w].at = "answered" /\ refund'[w].answer = "error" /\ refund'[w].booking = b
      BY <1>1, <1>2, <2>8 DEF Payments!BreakRefund, Payments!AnswerRefund, Money!RefundCall
    <3>2. QED
      BY <2>1, <2>3, <2>4, <3>1 DEF RefundIsTrue
  <2>9. QED
    BY <1>5, <2>2, <2>5, <2>6, <2>7, <2>8, RefundMoves DEF Payments!RefundStep, Payments!OpenRefund
<1>6. QED
  BY <1>3, <1>4, <1>5

(* Money is sent back by a refund, and to nobody else's booking.           *)
LEMMA SentBackMoves ==
  ASSUME WellFormed, MoneyInv, MoneyStays, [Next]_vars, NEW b \in Bookings, SentBack(b)',
         \A w \in Workers : RefundIsTrue(w)
  PROVE  SentBack(b) \/ status[b] \in Owing
<1>1. PICK i \in Ids : attempt'[i].booking = b /\ refunded'[i] > 0
  BY DEF SentBack, Ids, Payments!Ids
<1>2. CASE refunded[i] > 0
  BY <1>1, <1>2, RefundsTyped DEF MoneyStays, SentBack
<1>3. CASE ~(refunded[i] > 0)
  <2>1. refunded'[i] # refunded[i]
    BY <1>1, <1>3
  <2>2. PICK w \in Workers : Payments!SendBack(w)
    <3>1. ASSUME NEW r \in Requests, Serving(r) \/ CrashRequest(r) PROVE UNCHANGED refunded
      BY <3>1 DEF Serving, ScheduleExpiry, LoseExpiry, Charging, Charged, Confirm, ConfirmBreaks,
         QueueRefund, LoseRefund, EndOnDecline, CrashRequest, payVars, Payments!PayStep, Payments!LookUp,
         Payments!Insert, Payments!Charge, Payments!Settle, Payments!Break, Payments!Collect
    <3>2. ASSUME NEW w \in Workers, NEW j \in Jobs, Handle(w, j) PROVE UNCHANGED refunded
      BY <3>2 DEF Handle, FailJob, HandleExpire, HandleRefund, CloseRefunded, payVars,
         Payments!OpenRefund, Payments!CollectRefund
    <3>3. ASSUME NEW w \in Workers, Refunding(w), ~Payments!SendBack(w) PROVE UNCHANGED refunded
      BY <3>3 DEF Refunding, Payments!RefundStep, Payments!FindSettled, Payments!BreakRefund
    <3>4. ASSUME NEW r \in Requests, NEW a \in Bookings, NEW k \in Keys, Pay(r, a, k)
          PROVE  UNCHANGED refunded
      BY <3>4 DEF Pay, Payments!OpenPay
    <3>5. QED
      BY <2>1, <3>1, <3>2, <3>3, <3>4
         DEF Next, vars, payVars, Hold, Cancel, Work, Runner, CrashWorker, RestartIdleWorker, Tick
  <2>3. /\ refund[w].at = "send" /\ UNCHANGED attempt /\ refund[w].id \in Ids
        /\ \A k \in Ids : k # refund[w].id => refunded'[k] = refunded[k]
    BY <2>2, RefundsTyped DEF Payments!SendBack, MoneyInv, RefundsCounted
  <2>4. refund[w].id = i
    BY <2>1, <2>3
  <2>5. refund[w].booking = b /\ status[b] \in Owing
    BY <1>1, <2>3, <2>4 DEF RefundIsTrue
  <2>6. QED
    BY <2>5
<1>4. QED
  BY <1>2, <1>3
-----------------------------------------------------------------------------
CheckoutInv ==
  /\ WellFormed
  /\ MoneyInv
  /\ \A r \in Requests : RequestIsTrue(r)
  /\ \A w \in Workers : OneJobAtATime(w) /\ RefundIsTrue(w)
  /\ \A b \in Bookings : StatusIsTrue(b) /\ (SentBack(b) => status[b] \in Owing)
  /\ \A b \in closed : SentBack(b)

LEMMA CheckoutInit == Init => CheckoutInv
<1> SUFFICES ASSUME Init PROVE CheckoutInv
  OBVIOUS
<1> USE DEF Init
<1>1. BookingTypes
  BY Settings DEF BookingTypes, Request, Waiting
<1>2. Lines!QueueTypeOK /\ JobsAreServable
  <2>1. Lines!QueueInit
    BY DEF Queue!QueueInit, Lines!QueueInit, Queue!NoJob, Lines!NoJob, Queue!NoHands, Lines!NoHands
  <2>2. Lines!QueueTypeOK
    BY <2>1, Settings, Lines!QueueInitTypeOK
  <2>3. JobsAreServable
    BY <2>1 DEF Lines!QueueInit, Lines!NoJob, Lines!NoHands, JobsAreServable
  <2>4. QED
    BY <2>2, <2>3
<1>3. MoneyInv
  <2>1. RefundsCounted /\ {i \in Ids : refunded[i] > 0} = {}
    BY DEF Payments!PayInit, RefundsCounted, Ids
  <2>2. [i \in Ids |-> IF refunded[i] > 0 THEN 1 ELSE 0] = [i \in Ids |-> 0]
    BY <2>1
  <2>3. Money!PayInit
    BY <2>1, <2>2, IdsAreIds DEF Payments!PayInit, Money!PayInit, Payments!NoAttempt, Money!NoAttempt,
       Payments!Absent, Money!Absent, Payments!NoCall, Money!NoCall, Payments!NoRefund, Money!NoRefund
  <2>4. QED
    BY <2>1, <2>3, Settings, Money!InitInv DEF MoneyInv
<1>4. \A r \in Requests : RequestIsTrue(r)
  BY DEF RequestIsTrue, Waiting
<1>5. \A w \in Workers : OneJobAtATime(w) /\ RefundIsTrue(w)
  BY DEF OneJobAtATime, RefundIsTrue, Queue!QueueInit, Queue!NoHands, Payments!PayInit, Payments!NoRefund
<1>6. \A b \in Bookings : StatusIsTrue(b) /\ ~SentBack(b)
  BY DEF StatusIsTrue, SentBack, Payments!PayInit, Payments!NoAttempt, Payments!Absent, Ids
<1>7. QED
  BY <1>1, <1>2, <1>3, <1>4, <1>5, <1>6 DEF CheckoutInv, WellFormed

(* A booking is closed by the worker that was told the money is back.      *)
LEMMA ClosedMoves ==
  ASSUME WellFormed, [Next]_vars, NEW b \in closed', \A w \in Workers : RefundIsTrue(w)
  PROVE  b \in closed \/ SentBack(b)
<1>1. ASSUME NEW w \in Workers, NEW j \in Jobs, CloseRefunded(w, j), b \notin closed
      PROVE  SentBack(b)
  <2>1. /\ refund[w].answer = "refunded" /\ b = Handled(j) /\ hand[w][j] = "handling"
        /\ refund[w].at = "answered"
    BY <1>1 DEF CloseRefunded, Handling, Payments!CollectRefund, bookingVars
  <2>2. SentBack(refund[w].booking) /\ job[j].payload = Payload("reconcile_refund", refund[w].booking)
    BY <2>1 DEF RefundIsTrue, HandsOn
  <2>3. b = refund[w].booking
    BY <2>1, <2>2 DEF Handled, Payload
  <2>4. QED
    BY <2>2, <2>3
<1>2. ASSUME NEW w \in Workers, NEW j \in Jobs, Handle(w, j), ~CloseRefunded(w, j)
      PROVE  UNCHANGED closed
  BY <1>2 DEF Handle, FailJob, HandleExpire, HandleRefund, bookingVars
<1>3. ASSUME NEW r \in Requests, Serving(r) PROVE UNCHANGED closed
  BY <1>3 DEF Serving, ScheduleExpiry, LoseExpiry, Charging, Charged, Confirm, ConfirmBreaks, QueueRefund,
     LoseRefund, EndOnDecline, bookingVars
<1>4. QED
  BY <1>1, <1>2, <1>3
     DEF Next, vars, bookingVars, Hold, Pay, CrashRequest, Cancel, Work, Runner, Refunding, CrashWorker,
         RestartIdleWorker, Tick

LEMMA CheckoutStep == CheckoutInv /\ [Next]_vars => CheckoutInv'
<1> SUFFICES ASSUME CheckoutInv, [Next]_vars PROVE CheckoutInv'
  OBVIOUS
<1>1. WellFormed /\ MoneyInv /\ WellFormed' /\ MoneyInv' /\ MoneyStays
  BY WellFormedStep, MoneyStep DEF CheckoutInv
<1>2. \A r \in Requests : RequestIsTrue(r)'
  BY <1>1, RequestStep DEF CheckoutInv
<1>3. \A w \in Workers : OneJobAtATime(w)' /\ RefundIsTrue(w)'
  BY <1>1, OneJobStep, RefundStepIsTrue DEF CheckoutInv
<1>4. \A b \in Bookings : StatusIsTrue(b)'
  BY <1>1, StatusStep DEF CheckoutInv
<1>5. ASSUME NEW b \in Bookings, SentBack(b)' PROVE status'[b] \in Owing
  <2>1. status[b] \in Owing
    BY <1>1, <1>5, SentBackMoves DEF CheckoutInv
  <2>2. QED
    BY <1>1, <2>1, StatusMoves
<1>6. ASSUME NEW b \in closed' PROVE SentBack(b)'
  <2>1. SentBack(b)
    BY <1>1, <1>6, ClosedMoves DEF CheckoutInv
  <2>2. QED
    BY <1>1, <2>1, RecordsStay
<1>7. QED
  BY <1>1, <1>2, <1>3, <1>4, <1>5, <1>6 DEF CheckoutInv, Owing

(* CheckoutInv is an invariant of the composition.                         *)
LEMMA Invariance == Spec => []CheckoutInv
BY CheckoutInit, CheckoutStep, PTL DEF Spec
-----------------------------------------------------------------------------
(* Nobody has a seat, and nobody is owed anything, without a charge that   *)
(* settled: whatever crashes, is declined or loses its answer.             *)
THEOREM NoSeatUnpaid == Spec => []MoneyBacksStatus
<1>1. CheckoutInv => MoneyBacksStatus
  BY RecordsSay DEF CheckoutInv, StatusIsTrue, MoneyBacksStatus
<1>2. QED
  BY <1>1, Invariance, PTL

(* No parent has the seat and the money.                                   *)
THEOREM SeatOrTheMoney == Spec => []SeatOrMoney
<1>1. CheckoutInv => SeatOrMoney
  BY RecordsSay DEF CheckoutInv, SeatOrMoney, Owing
<1>2. QED
  BY <1>1, Invariance, PTL

(* What a worker closed was refunded first.                                *)
THEOREM ClosedIsRefunded == Spec => []ClosedMeansRefunded
<1>1. CheckoutInv => ClosedMeansRefunded
  BY RecordsSay DEF CheckoutInv, ClosedMeansRefunded
<1>2. QED
  BY <1>1, Invariance, PTL

(* The state of the composition stays in its types.                        *)
THEOREM CheckoutTypeCorrect == Spec => []CheckoutTypeOK
<1>1. ASSUME CheckoutInv PROVE CheckoutTypeOK
  <2>1. Queue!QueueTypeOK
    BY <1>1 DEF CheckoutInv, WellFormed, Queue!QueueTypeOK, Lines!QueueTypeOK, Queue!Job, Lines!Job,
       Queue!Stage, Lines!Stage
  <2>2. Money!PayTypeOK /\ refunded \in [Payments!Ids -> Nat] /\ known \in SUBSET Payments!Ids
    BY <1>1 DEF CheckoutInv, MoneyInv, Money!PayInv, RefundsCounted, Ids
  <2>3. Payments!PayTypeOK
    BY <2>2 DEF Payments!PayTypeOK, Money!PayTypeOK, Payments!Ids, Money!Ids, Payments!Attempt,
       Money!Attempt, Payments!Settled, Money!Settled, Payments!Absent, Money!Absent, Payments!Call,
       Money!Call, Payments!PayAnswer, Money!PayAnswer, Payments!RefundCall, Money!RefundCall
  <2>4. QED
    BY <1>1, <2>1, <2>3 DEF CheckoutInv, WellFormed, BookingTypes, CheckoutTypeOK
<1>2. QED
  BY <1>1, Invariance, PTL

(* A booking that ended on a failed payment has a declined attempt to show *)
(* for it that moved no money, under any number of keys and calls: what is *)
(* not known of a charge never ends a booking.                             *)
THEOREM FailedIsDeclined == Spec => []FailedRestsOnADecline
<1>1. CheckoutInv => FailedRestsOnADecline
  <2>1. SUFFICES ASSUME CheckoutInv, NEW b \in Bookings, status[b] = "payment_failed"
                 PROVE  \E i \in Payments!Ids : attempt[i].booking = b /\ attempt[i].status = "failed" /\ i \notin charged
    BY DEF FailedRestsOnADecline
  <2>2. PICK i \in Ids : attempt[i].status = "failed" /\ attempt[i].booking = b
    BY <2>1 DEF CheckoutInv, StatusIsTrue, Declined
  <2>3. Money!RowIsTrue(i)
    BY <2>1, <2>2, IdsAreIds DEF CheckoutInv, MoneyInv, Money!PayInv
  <2>4. i \notin charged
    BY <2>2, <2>3 DEF Money!RowIsTrue, Money!Settled
  <2>5. QED
    BY <2>2, <2>4, IdsAreIds
<1>2. QED
  BY <1>1, Invariance, PTL

(* What the payment package promises of its charges holds when requests,   *)
(* workers and crashes are put around it.                                  *)
THEOREM ChargesStayTrue ==
  Spec => [](Payments!ChargedOncePerKey /\ Payments!TableTellsTheTruth)
<1>1. ASSUME CheckoutInv PROVE Payments!ChargedOncePerKey
  <2>1. SUFFICES ASSUME NEW i \in Payments!Ids, asked[i] > 0
                 PROVE  asked[i] = 1 /\ Payments!Keyed(attempt[i].booking, attempt[i].key) = {i}
    BY DEF Payments!ChargedOncePerKey
  <2>2. i \in Money!Ids /\ Money!PayInv
    BY <1>1, <2>1, IdsAreIds DEF CheckoutInv, MoneyInv
  <2>3. asked[i] = 1 /\ attempt[i].status # Money!Absent
    <3>1. Money!RowIsTrue(i)
      BY <2>2 DEF Money!PayInv
    <3>2. QED
      BY <2>1, <3>1 DEF Money!RowIsTrue
  <2>4. Money!Keyed(attempt[i].booking, attempt[i].key) = {i}
    BY <2>2, <2>3, Settings, Money!OneRowPerKey
  <2>5. QED
    BY <2>3, <2>4 DEF Payments!Keyed, Money!Keyed, Payments!Ids, Money!Ids, Payments!Absent, Money!Absent
<1>2. ASSUME CheckoutInv PROVE Payments!TableTellsTheTruth
  <2>1. Money!PayInv
    BY <1>2 DEF CheckoutInv, MoneyInv
  <2>2. \A i \in Payments!Ids : attempt[i].status \in Payments!Settled =>
          (attempt[i].status = "succeeded" <=> i \in charged)
    BY <2>1, IdsAreIds DEF Money!PayInv, Money!RowIsTrue, Money!Settled, Payments!Settled
  <2>3. \A r \in Requests : call[r].answer \in {"paid", "declined"} =>
          \E i \in Payments!Keyed(call[r].booking, call[r].key) :
            /\ attempt[i].amount = call[r].amount
            /\ attempt[i].status = IF call[r].answer = "paid" THEN "succeeded" ELSE "failed"
    BY <2>1, IdsAreIds DEF Money!PayInv, Money!AnswerIsTrue, Payments!Keyed, Payments!Absent
  <2>4. QED
    BY <2>2, <2>3 DEF Payments!TableTellsTheTruth
<1>3. QED
  BY <1>1, <1>2, Invariance, PTL

(* Handlers, crashes and all, the workers of the composition use the queue *)
(* as it is meant to be used, and it keeps its word to them.               *)
THEOREM QueueIsUsedAsMeant == Spec => Lines!QueueSpec
<1>1. Init => Lines!QueueInit
  BY DEF Init, Queue!QueueInit, Lines!QueueInit, Queue!NoJob, Lines!NoJob, Queue!NoHands, Lines!NoHands
<1>2. CheckoutInv /\ [Next]_vars => [Lines!QueueNext]_(Lines!queueVars)
  BY QueueSteps DEF CheckoutInv
<1>3. QED
  BY <1>1, <1>2, Invariance, PTL DEF Spec, Lines!QueueSpec

(* No work is dropped, and no two workers hold running leases on one job,  *)
(* in the composition as in the queue alone.                               *)
THEOREM QueueKeepsItsWord == Spec => [](Queue!NoWorkIsDropped /\ Queue!InvisibleWhileLeased)
<1>1. Lines!QueueSpec => []Lines!NoWorkIsDropped
  BY Settings, Lines!NoWorkIsEverDropped
<1>2. Lines!QueueSpec => []Lines!InvisibleWhileLeased
  BY Settings, Lines!LeasedIsInvisible
<1>3. Lines!NoWorkIsDropped => Queue!NoWorkIsDropped
  BY DEF Lines!NoWorkIsDropped, Queue!NoWorkIsDropped
<1>4. Lines!InvisibleWhileLeased => Queue!InvisibleWhileLeased
  BY DEF Lines!InvisibleWhileLeased, Queue!InvisibleWhileLeased
<1>5. QED
  BY <1>1, <1>2, <1>3, <1>4, QueueIsUsedAsMeant, PTL
-----------------------------------------------------------------------------
(* A provider that remembers what it sent back.                            *)
Remembered ==
  \A i \in Ids : refunded[i] = IF i \in known THEN 1 ELSE 0

LEMMA RememberedStays ==
  ASSUME MoneyInv, [Next]_vars, ~ProviderForgets, Remembered
  PROVE  Remembered'
<1>1. CASE UNCHANGED <<refunded, known>>
  BY <1>1 DEF Remembered, Ids, Payments!Ids
<1>2. ASSUME NEW w \in Workers, Payments!SendBack(w) PROVE Remembered'
  <2>1. refund[w].id \in Ids
    BY <1>2, RefundsTyped DEF Payments!SendBack
  <2>2. PICK i \in Ids : i = refund[w].id
    BY <2>1
  <2>3. CASE /\ refunded' = [refunded EXCEPT ![i] = @ + 1] /\ known' = known \union {i}
             /\ i \notin known
    <3>1. refunded \in [Ids -> Nat] /\ refunded[i] = 0
      BY <2>3 DEF MoneyInv, RefundsCounted, Remembered
    <3>2. refunded'[i] = 1 /\ \A k \in Ids : k # i => refunded'[k] = refunded[k]
      BY <2>3, <3>1
    <3>3. QED
      BY <2>3, <3>2 DEF Remembered, Ids, Payments!Ids
  <2>4. QED
    BY <1>1, <1>2, <2>2, <2>3 DEF Payments!SendBack
<1>3. ASSUME NEW r \in Requests, Serving(r) \/ CrashRequest(r) PROVE UNCHANGED <<refunded, known>>
  BY <1>3 DEF Serving, ScheduleExpiry, LoseExpiry, Charging, Charged, Confirm, ConfirmBreaks, QueueRefund,
     LoseRefund, EndOnDecline, CrashRequest, payVars, Payments!PayStep, Payments!LookUp,
     Payments!Insert, Payments!Charge, Payments!Settle, Payments!Break, Payments!Collect
<1>4. ASSUME NEW w \in Workers, NEW j \in Jobs, Handle(w, j) PROVE UNCHANGED <<refunded, known>>
  BY <1>4 DEF Handle, FailJob, HandleExpire, HandleRefund, CloseRefunded, payVars, Payments!OpenRefund,
     Payments!CollectRefund
<1>5. ASSUME NEW w \in Workers, Refunding(w), ~Payments!SendBack(w) PROVE UNCHANGED <<refunded, known>>
  BY <1>5 DEF Refunding, Payments!RefundStep, Payments!FindSettled, Payments!BreakRefund
<1>6. ASSUME NEW r \in Requests, NEW a \in Bookings, NEW k \in Keys, Pay(r, a, k)
      PROVE  UNCHANGED <<refunded, known>>
  BY <1>6 DEF Pay, Payments!OpenPay
<1>7. QED
  BY <1>1, <1>2, <1>3, <1>4, <1>5, <1>6
     DEF Next, vars, payVars, Hold, Cancel, Work, Runner, CrashWorker, RestartIdleWorker, Tick

(* However often the refund job is run, by however many workers, the money *)
(* moves back once, if the provider keeps the refund keys it was given.    *)
THEOREM RefundedOnceIfRemembered == Spec => [](~ProviderForgets => RefundedOnce)
<1>1. Init => (~ProviderForgets => Remembered)
  BY DEF Init, Payments!PayInit, Remembered, Ids
<1>2. CheckoutInv /\ (~ProviderForgets => Remembered) /\ [Next]_vars => (~ProviderForgets => Remembered)'
  <2>1. CheckoutInv /\ ~ProviderForgets /\ Remembered /\ [Next]_vars => Remembered'
    BY RememberedStays DEF CheckoutInv
  <2>2. (~ProviderForgets)' <=> ~ProviderForgets
    OBVIOUS
  <2>3. QED
    BY <2>1, <2>2
<1>3. CheckoutInv /\ (~ProviderForgets => Remembered) => (~ProviderForgets => RefundedOnce)
  <2>1. SUFFICES ASSUME CheckoutInv, Remembered, NEW i \in Payments!Ids, refunded[i] > 0
                 PROVE  refunded[i] = 1 /\ i \in charged
    BY DEF RefundedOnce, Payments!RefundedOnce
  <2>2. refunded[i] = 1 /\ attempt[i].status = "succeeded"
    BY <2>1, RefundsTyped DEF Remembered, Ids, CheckoutInv
  <2>3. i \in charged
    BY <2>1, <2>2, IdsAreIds DEF CheckoutInv, MoneyInv, Money!PayInv, Money!RowIsTrue, Money!Settled
  <2>4. QED
    BY <2>2, <2>3
<1>4. QED
  BY <1>1, <1>2, <1>3, Invariance, PTL DEF Spec
=============================================================================
