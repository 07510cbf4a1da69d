------------------------------ MODULE Payments ------------------------------
(***************************************************************************)
(* The payment package: Pay, statement by statement, for concurrent calls  *)
(* that may carry the same idempotency key, and Refund for the workers     *)
(* that send a settled charge back.  Between any two statements a call may *)
(* break off, and a statement may take effect though its answer is lost.   *)
(***************************************************************************)
EXTENDS Naturals, FiniteSets

CONSTANTS
  Calls,            (* Requests being served, one payment each.            *)
  Refunders,        (* Workers that may be refunding.                      *)
  Bookings, Keys, Amounts,
  MaxAttempts,      (* Bound: how many attempt identifiers are minted.     *)
  None

ASSUME PaymentAssumption ==
  /\ MaxAttempts \in Nat
  /\ None \notin Bookings \union Keys \union Amounts

VARIABLES
  attempt,    (* payment_attempts, by identifier.                          *)
  minted,     (* How many identifiers were minted, in created_at order.    *)
  asked,      (* How often the provider was asked to charge each attempt.  *)
  charged,    (* The attempts whose money moved.                           *)
  refunded,   (* How often each attempt's money moved back.                *)
  known,      (* The attempts whose refund key the provider remembers.     *)
  call,       (* What each payment call is doing.                          *)
  refund      (* What each refund is doing.                                *)

payVars == <<attempt, minted, asked, charged, refunded, known, call, refund>>

Ids == 1 .. MaxAttempts

Absent == "absent"

NoAttempt == [status |-> Absent, booking |-> None, key |-> None, amount |-> None]

Settled == {"succeeded", "failed"}

Attempt == [status : Settled \union {"initiated", Absent}, booking : Bookings \union {None},
            key : Keys \union {None}, amount : Amounts \union {None}]

PayAnswer == {"paid", "declined", "pending", "conflict", "unavailable", "error"}

NoCall == [at |-> "idle", id |-> 0, booking |-> None, key |-> None, amount |-> None,
           outcome |-> "none", answer |-> "none"]

Call == [at : {"idle", "lookUp", "insert", "charge", "settle", "answered"},
         id : 0 .. MaxAttempts, booking : Bookings \union {None}, key : Keys \union {None},
         amount : Amounts \union {None}, outcome : Settled \union {"none"},
         answer : PayAnswer \union {"none"}]

NoRefund == [at |-> "idle", booking |-> None, id |-> 0, answer |-> "none"]

RefundCall == [at : {"idle", "find", "send", "answered"}, booking : Bookings \union {None},
               id : 0 .. MaxAttempts,
               answer : {"none", "refunded", "nothing", "unavailable", "error"}]

PayTypeOK ==
  /\ attempt \in [Ids -> Attempt]
  /\ minted \in 0 .. MaxAttempts
  /\ asked \in [Ids -> Nat]
  /\ charged \in SUBSET Ids
  /\ refunded \in [Ids -> Nat]
  /\ known \in SUBSET Ids
  /\ call \in [Calls -> Call]
  /\ refund \in [Refunders -> RefundCall]

PayInit ==
  /\ attempt = [i \in Ids |-> NoAttempt]
  /\ minted = 0
  /\ asked = [i \in Ids |-> 0]
  /\ charged = {}
  /\ refunded = [i \in Ids |-> 0]
  /\ known = {}
  /\ call = [c \in Calls |-> NoCall]
  /\ refund = [w \in Refunders |-> NoRefund]
-----------------------------------------------------------------------------
(* Pay.                                                                    *)

Answer(c, answer) == call' = [call EXCEPT ![c].at = "answered", ![c].answer = answer]

(* The rows the unique index on booking and key lets there be one of.      *)
Keyed(b, k) ==
  {i \in Ids : attempt[i].status # Absent /\ attempt[i].booking = b /\ attempt[i].key = k}

(* What a replay of a stored attempt answers.                              *)
ReplayOf(stored, amount) ==
  IF stored.amount # amount THEN "conflict"
  ELSE IF stored.status = "succeeded" THEN "paid"
  ELSE IF stored.status = "failed" THEN "declined"
  ELSE "pending"

OpenPay(c, b, k, a) ==
  /\ call[c].at = "idle"
  /\ minted < MaxAttempts
  /\ minted' = minted + 1
  /\ call' = [call EXCEPT ![c] =
                [at |-> "lookUp", id |-> minted + 1, booking |-> b, key |-> k, amount |-> a,
                 outcome |-> "none", answer |-> "none"]]
  /\ UNCHANGED <<attempt, asked, charged, refunded, known, refund>>

(* Mutation: an unfinished attempt is charged again instead of reported.   *)
LookUpOrResume(c) ==
  LET found == Keyed(call[c].booking, call[c].key) IN
  /\ call[c].at = "lookUp"
  /\ IF found = {}
     THEN call' = [call EXCEPT ![c].at = "insert"]
     ELSE \E i \in found :
            IF attempt[i].status = "initiated"
            THEN call' = [call EXCEPT ![c].at = "charge", ![c].id = i]
            ELSE Answer(c, ReplayOf(attempt[i], call[c].amount))
  /\ UNCHANGED <<attempt, minted, asked, charged, refunded, known, refund>>

(* A key that is taken replays its attempt and never reaches the provider. *)
LookUp(c) ==
  LET found == Keyed(call[c].booking, call[c].key) IN
  /\ call[c].at = "lookUp"
  /\ IF found = {}
     THEN call' = [call EXCEPT ![c].at = "insert"]
     ELSE \E i \in found : Answer(c, ReplayOf(attempt[i], call[c].amount))
  /\ UNCHANGED <<attempt, minted, asked, charged, refunded, known, refund>>

Opened(c) ==
  [attempt EXCEPT ![call[c].id] = [status |-> "initiated", booking |-> call[c].booking,
                                   key |-> call[c].key, amount |-> call[c].amount]]

(* Mutation: the row is written whether or not the key is taken.           *)
InsertUnindexed(c) ==
  /\ call[c].at = "insert"
  /\ attempt' = Opened(c)
  /\ call' = [call EXCEPT ![c].at = "charge"]
  /\ UNCHANGED <<minted, asked, charged, refunded, known, refund>>

(* The row is written before the provider is called.  A call that lost the *)
(* key to another between the two statements looks it up again.            *)
Insert(c) ==
  /\ call[c].at = "insert"
  /\ IF Keyed(call[c].booking, call[c].key) = {}
     THEN /\ attempt' = Opened(c)
          /\ call' = [call EXCEPT ![c].at = "charge"]
     ELSE /\ call' = [call EXCEPT ![c].at = "lookUp"]
          /\ UNCHANGED attempt
  /\ UNCHANGED <<minted, asked, charged, refunded, known, refund>>

(* Mutation: a provider that did not answer is taken for a decline.        *)
ChargeOrDecline(c) ==
  LET i == call[c].id IN
  /\ call[c].at = "charge"
  /\ asked' = [asked EXCEPT ![i] = @ + 1]
  /\ \E outcome \in Settled :
       call' = [call EXCEPT ![c].at = "settle", ![c].outcome = outcome]
  /\ \/ charged' = charged \union {i}
     \/ call'[c].outcome = "failed" /\ UNCHANGED charged
  /\ UNCHANGED <<attempt, minted, refunded, known, refund>>

(* The provider settles, declines, or cannot be reached; when it cannot be *)
(* reached nobody knows whether money moved, and nothing is written.       *)
Charge(c) ==
  LET i == call[c].id IN
  /\ call[c].at = "charge"
  /\ asked' = [asked EXCEPT ![i] = @ + 1]
  /\ \/ /\ charged' = charged \union {i}
        /\ call' = [call EXCEPT ![c].at = "settle", ![c].outcome = "succeeded"]
     \/ /\ call' = [call EXCEPT ![c].at = "settle", ![c].outcome = "failed"]
        /\ UNCHANGED charged
     \/ /\ charged' \in {charged, charged \union {i}}
        /\ Answer(c, "unavailable")
  /\ UNCHANGED <<attempt, minted, refunded, known, refund>>

Closed(c) == [attempt EXCEPT ![call[c].id].status = call[c].outcome]

(* The answer is recorded, on a row that is still initiated.               *)
Settle(c) ==
  /\ call[c].at = "settle"
  /\ IF attempt[call[c].id].status = "initiated"
     THEN /\ attempt' = Closed(c)
          /\ Answer(c, IF call[c].outcome = "succeeded" THEN "paid" ELSE "declined")
     ELSE /\ Answer(c, "error")                           (* ErrAlreadySettled *)
          /\ UNCHANGED attempt
  /\ UNCHANGED <<minted, asked, charged, refunded, known, refund>>

(* A statement fails, a connection drops or the process dies: the write    *)
(* that was under way is lost, or it is not and only its answer is.        *)
Break(c) ==
  /\ call[c].at \in {"lookUp", "insert", "charge", "settle"}
  /\ Answer(c, "error")
  /\ \/ UNCHANGED attempt
     \/ /\ call[c].at = "insert" /\ Keyed(call[c].booking, call[c].key) = {}
        /\ attempt' = Opened(c)
     \/ /\ call[c].at = "settle" /\ attempt[call[c].id].status = "initiated"
        /\ attempt' = Closed(c)
  /\ UNCHANGED <<minted, asked, charged, refunded, known, refund>>

Collect(c) ==
  /\ call[c].at = "answered"
  /\ call' = [call EXCEPT ![c] = NoCall]
  /\ UNCHANGED <<attempt, minted, asked, charged, refunded, known, refund>>
-----------------------------------------------------------------------------
(* Refund.                                                                 *)

AnswerRefund(w, answer) == refund' = [refund EXCEPT ![w].at = "answered", ![w].answer = answer]

SettledAttempts(b) == {i \in Ids : attempt[i].status = "succeeded" /\ attempt[i].booking = b}

OpenRefund(w, b) ==
  /\ refund[w].at = "idle"
  /\ refund' = [refund EXCEPT ![w] = [NoRefund EXCEPT !.at = "find", !.booking = b]]
  /\ UNCHANGED <<attempt, minted, asked, charged, refunded, known, call>>

(* The oldest attempt of the booking that settled.                         *)
FindSettled(w) ==
  LET found == SettledAttempts(refund[w].booking) IN
  /\ refund[w].at = "find"
  /\ IF found = {} THEN AnswerRefund(w, "nothing")         (* ErrNothingToRefund *)
     ELSE refund' = [refund EXCEPT ![w].at = "send",
                       ![w].id = CHOOSE i \in found : \A j \in found : i <= j]
  /\ UNCHANGED <<attempt, minted, asked, charged, refunded, known, call>>

(* Mutation: the key is made up afresh on every run.                       *)
SendBackAfresh(w) ==
  /\ refund[w].at = "send"
  /\ refunded' = [refunded EXCEPT ![refund[w].id] = @ + 1]
  /\ AnswerRefund(w, "refunded")
  /\ UNCHANGED <<attempt, minted, asked, charged, known, call>>

(* The refund key is a function of the attempt.  A key the provider knows  *)
(* moves nothing; one it does not know moves the money back, unless the    *)
(* provider cannot be reached, or it can and only its answer is lost.      *)
SendBack(w) ==
  LET i == refund[w].id IN
  /\ refund[w].at = "send"
  /\ \/ /\ IF i \in known THEN UNCHANGED <<refunded, known>>
           ELSE /\ refunded' = [refunded EXCEPT ![i] = @ + 1]
                /\ known' = known \union {i}
        /\ \E answer \in {"refunded", "unavailable"} : AnswerRefund(w, answer)
     \/ /\ AnswerRefund(w, "unavailable")
        /\ UNCHANGED <<refunded, known>>
  /\ UNCHANGED <<attempt, minted, asked, charged, call>>

BreakRefund(w) ==
  /\ refund[w].at \in {"find", "send"}
  /\ AnswerRefund(w, "error")
  /\ UNCHANGED <<attempt, minted, asked, charged, refunded, known, call>>

CollectRefund(w) ==
  /\ refund[w].at = "answered"
  /\ refund' = [refund EXCEPT ![w] = NoRefund]
  /\ UNCHANGED <<attempt, minted, asked, charged, refunded, known, call>>
-----------------------------------------------------------------------------
PayStep(c) == LookUp(c) \/ Insert(c) \/ Charge(c) \/ Settle(c) \/ Break(c)

RefundStep(w) == FindSettled(w) \/ SendBack(w) \/ BreakRefund(w)

PayNext ==
  \/ \E c \in Calls :
       \/ \E b \in Bookings, k \in Keys, a \in Amounts : OpenPay(c, b, k, a)
       \/ PayStep(c)
       \/ Collect(c)
  \/ \E w \in Refunders :
       \/ \E b \in Bookings : OpenRefund(w, b)
       \/ RefundStep(w)
       \/ CollectRefund(w)

PaySpec == PayInit /\ [][PayNext]_payVars
-----------------------------------------------------------------------------
(***************************************************************************)
(* Safety.                                                                 *)
(***************************************************************************)

(* Whatever is retried, replayed or raced, the provider is asked to charge *)
(* at most once under one key of one booking.                              *)
ChargedOncePerKey ==
  \A i \in Ids : asked[i] > 0 =>
    /\ asked[i] = 1
    /\ Keyed(attempt[i].booking, attempt[i].key) = {i}

(* The table never lies about money: succeeded means it moved, failed that *)
(* it did not, and what a caller is told is what the table says.           *)
TableTellsTheTruth ==
  /\ \A i \in Ids : attempt[i].status \in Settled =>
       (attempt[i].status = "succeeded" <=> i \in charged)
  /\ \A c \in Calls : call[c].answer \in {"paid", "declined"} =>
       \E i \in Keyed(call[c].booking, call[c].key) :
         /\ attempt[i].amount = call[c].amount
         /\ attempt[i].status = IF call[c].answer = "paid" THEN "succeeded" ELSE "failed"

(* Money only moves back that moved, and only once for one charge, however *)
(* often the refund is run and wherever it broke off.                      *)
RefundedOnce ==
  \A i \in Ids : refunded[i] > 0 => refunded[i] = 1 /\ i \in charged
-----------------------------------------------------------------------------
(***************************************************************************)
(* The package implements the charge ledger: a charge is the pair of a     *)
(* booking and a key.                                                      *)
(***************************************************************************)
ChargesOf(ids) == {<<attempt[i].booking, attempt[i].key>> : i \in ids}

RecordedOf(charge) ==
  LET rows == Keyed(charge[1], charge[2])
  IN  IF rows = {} THEN Absent ELSE attempt[CHOOSE i \in rows : TRUE].status

Recorded == [charge \in Bookings \X Keys |-> RecordedOf(charge)]
Moved == ChargesOf(charged)
SentBack == ChargesOf({i \in Ids : refunded[i] > 0})

Charges == INSTANCE ChargeLedger WITH recorded <- Recorded, moved <- Moved, sentBack <- SentBack

(* Every step of the calls and the refunds is a step of the charge ledger, *)
(* or invisible to it.                                                     *)
ImplementsCharges == Charges!Spec
=============================================================================
