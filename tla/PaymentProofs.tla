---------------------------- MODULE PaymentProofs ----------------------------
(***************************************************************************)
(* The payment package is correct for any number of calls, refunds,        *)
(* bookings, keys and attempts.  PayInv is what a call may count on        *)
(* between two of its statements; it is shown inductive, one lemma per     *)
(* kind of step, and the charge ledger follows from it.                    *)
(***************************************************************************)
EXTENDS PaymentAgreement, WellFoundedInduction, TLAPS

USE PaymentAssumption

(* A set of naturals that is not empty has a least element.                *)
LEMMA LeastNatural ==
  ASSUME NEW S, S \subseteq Nat, S # {}
  PROVE  \E least \in S : \A other \in S : least <= other
<1> DEFINE R == OpToRel(<, Nat)
<1>1. IsWellFoundedOn(R, Nat)
  BY NatLessThanWellFounded
<1>2. \A x, y \in Nat : x < y => <<x, y>> \in R
  BY DEF OpToRel
<1> HIDE DEF R
<1>3. PICK least \in S : \A other \in S : <<other, least>> \notin R
  BY <1>1, WFMin
<1>4. ASSUME NEW other \in S PROVE least <= other
  <2>1. least \in Nat /\ other \in Nat
    OBVIOUS
  <2>2. ~(other < least)
    BY <1>2, <1>3, <2>1
  <2>3. QED
    BY <2>1, <2>2
<1>5. QED
  BY <1>4

(* A row was asked for at most once, is settled as the money went, and is  *)
(* refunded exactly if the provider remembers its refund key.              *)
RowIsTrue(i) ==
  /\ asked[i] \in {0, 1}
  /\ attempt[i].status = Absent => asked[i] = 0
  /\ attempt[i].status # Absent =>
       i <= minted /\ attempt[i].booking \in Bookings /\ attempt[i].key \in Keys
  /\ i \in charged => asked[i] = 1
  /\ attempt[i].status \in Settled =>
       (attempt[i].status = "succeeded" <=> i \in charged)
  /\ refunded[i] = IF i \in known THEN 1 ELSE 0
  /\ i \in known => attempt[i].status = "succeeded"

(* While a call is under way, the row it minted is what the call left it.  *)
CallMeetsItsRow(c) ==
  call[c].at # "idle" =>
    /\ call[c].id \in 1 .. minted
    /\ call[c].booking \in Bookings
    /\ call[c].key \in Keys
    /\ call[c].amount \in Amounts
    /\ call[c].at \in {"lookUp", "insert"} => attempt[call[c].id].status = Absent
    /\ call[c].at \in {"charge", "settle"} =>
         /\ attempt[call[c].id].status = "initiated"
         /\ attempt[call[c].id].booking = call[c].booking
         /\ attempt[call[c].id].key = call[c].key
         /\ attempt[call[c].id].amount = call[c].amount
    /\ call[c].at = "charge" => asked[call[c].id] = 0
    /\ call[c].at = "settle" =>
         /\ call[c].outcome \in Settled
         /\ (call[c].outcome = "succeeded") <=> (call[c].id \in charged)

(* What a caller is told is what some row under its key says.              *)
AnswerIsTrue(c) ==
  call[c].answer \in {"paid", "declined"} =>
    \E i \in Ids :
      /\ attempt[i].booking = call[c].booking
      /\ attempt[i].key = call[c].key
      /\ attempt[i].amount = call[c].amount
      /\ attempt[i].status = IF call[c].answer = "paid" THEN "succeeded" ELSE "failed"

(* No identifier is minted for two calls.                                  *)
CallsDiffer ==
  \A c, d \in Calls :
    c # d /\ call[c].at # "idle" /\ call[d].at # "idle" => call[c].id # call[d].id

(* No two rows of one booking have one key.                                *)
KeysDiffer ==
  \A i, j \in Ids :
    /\ attempt[i].status # Absent /\ attempt[j].status # Absent
    /\ attempt[i].booking = attempt[j].booking /\ attempt[i].key = attempt[j].key
    => i = j

RefundMeetsItsRow(w) ==
  refund[w].at = "send" => refund[w].id \in Ids /\ attempt[refund[w].id].status = "succeeded"

PayInv ==
  /\ PayTypeOK
  /\ \A i \in Ids : RowIsTrue(i)
  /\ \A c \in Calls : CallMeetsItsRow(c)
  /\ \A c \in Calls : AnswerIsTrue(c)
  /\ CallsDiffer
  /\ KeysDiffer
  /\ \A w \in Refunders : RefundMeetsItsRow(w)
-----------------------------------------------------------------------------
LEMMA InitInv == PayInit => PayInv
BY DEF PayInit, PayInv, PayTypeOK, RowIsTrue, CallMeetsItsRow, AnswerIsTrue, CallsDiffer,
       KeysDiffer, RefundMeetsItsRow, Ids, Attempt, NoAttempt, Call, NoCall, RefundCall, NoRefund,
       Absent, Settled, PayAnswer
-----------------------------------------------------------------------------
(* How the variables move, without the EXCEPTs.                            *)

(* Call c went to a place, with an outcome and an answer; nothing else of  *)
(* it and no other call changed.                                           *)
CallGoes(c, at, outcome, answer) ==
  /\ call' \in [Calls -> Call]
  /\ \A d \in Calls : d # c => call'[d] = call[d]
  /\ call'[c].at = at
  /\ call'[c].id = call[c].id
  /\ call'[c].booking = call[c].booking
  /\ call'[c].key = call[c].key
  /\ call'[c].amount = call[c].amount
  /\ call'[c].outcome = outcome
  /\ call'[c].answer = answer

LEMMA GoingOn ==
  ASSUME call \in [Calls -> Call], NEW c \in Calls, NEW at \in {"lookUp", "insert", "charge"},
         call' = [call EXCEPT ![c].at = at]
  PROVE  CallGoes(c, at, call[c].outcome, call[c].answer)
BY DEF CallGoes, Call

LEMMA Outcome ==
  ASSUME call \in [Calls -> Call], NEW c \in Calls, NEW outcome \in Settled,
         call' = [call EXCEPT ![c].at = "settle", ![c].outcome = outcome]
  PROVE  CallGoes(c, "settle", outcome, call[c].answer)
BY DEF CallGoes, Call

LEMMA Answering ==
  ASSUME call \in [Calls -> Call], NEW c \in Calls, NEW answer \in PayAnswer, Answer(c, answer)
  PROVE  CallGoes(c, "answered", call[c].outcome, answer)
BY DEF CallGoes, Call, Answer

(* Nothing but row i moved, and the refunds did not.                       *)
OnlyRow(i) ==
  /\ attempt' \in [Ids -> Attempt] /\ asked' \in [Ids -> Nat] /\ charged' \in SUBSET Ids
  /\ \A j \in Ids : j # i =>
       /\ attempt'[j] = attempt[j]
       /\ asked'[j] = asked[j]
       /\ (j \in charged') <=> (j \in charged)
  /\ attempt[i].status \in Settled => attempt'[i] = attempt[i]
  /\ UNCHANGED <<minted, refunded, known, refund>>

LEMMA RowOpens ==
  ASSUME PayTypeOK, NEW c \in Calls, CallMeetsItsRow(c), call[c].at = "insert",
         attempt' = Opened(c), UNCHANGED <<minted, asked, charged, refunded, known, refund>>
  PROVE  /\ OnlyRow(call[c].id)
         /\ call[c].id \in Ids
         /\ attempt'[call[c].id] = [status |-> "initiated", booking |-> call[c].booking,
                                    key |-> call[c].key, amount |-> call[c].amount]
<1> DEFINE row == [status |-> "initiated", booking |-> call[c].booking,
                  key |-> call[c].key, amount |-> call[c].amount]
<1>1. call[c].id \in Ids /\ attempt[call[c].id].status \notin Settled
  BY DEF PayTypeOK, CallMeetsItsRow, Absent, Settled, Ids
<1>2. row \in Attempt
  BY DEF CallMeetsItsRow, Attempt, Absent, Settled
<1>3. attempt' = [attempt EXCEPT ![call[c].id] = row]
  BY DEF Opened
<1> HIDE DEF row
<1>4. attempt' \in [Ids -> Attempt] /\ attempt'[call[c].id] = row
  BY <1>1, <1>2, <1>3 DEF PayTypeOK
<1>5. OnlyRow(call[c].id)
  BY <1>1, <1>3, <1>4 DEF PayTypeOK, OnlyRow
<1>6. QED
  BY <1>1, <1>4, <1>5 DEF row

LEMMA RowCloses ==
  ASSUME PayTypeOK, NEW c \in Calls, CallMeetsItsRow(c), call[c].at = "settle",
         attempt' = Closed(c), UNCHANGED <<minted, asked, charged, refunded, known, refund>>
  PROVE  /\ OnlyRow(call[c].id)
         /\ call[c].id \in Ids
         /\ attempt'[call[c].id].status = call[c].outcome
         /\ attempt'[call[c].id].booking = call[c].booking
         /\ attempt'[call[c].id].key = call[c].key
         /\ attempt'[call[c].id].amount = call[c].amount
<1> DEFINE old == attempt[call[c].id]
           row == [old EXCEPT !.status = call[c].outcome]
<1>1. call[c].id \in Ids /\ old \in Attempt /\ old.status = "initiated"
  BY DEF PayTypeOK, CallMeetsItsRow, Ids
<1>2. call[c].outcome \in Settled
  BY DEF CallMeetsItsRow
<1>3. /\ row \in Attempt /\ row.status = call[c].outcome /\ row.booking = old.booking
      /\ row.key = old.key /\ row.amount = old.amount
  BY <1>1, <1>2 DEF Attempt, Settled
<1>4. attempt' = [attempt EXCEPT ![call[c].id] = row]
  BY DEF Closed
<1> HIDE DEF row
<1>5. attempt' \in [Ids -> Attempt] /\ attempt'[call[c].id] = row
  BY <1>1, <1>3, <1>4 DEF PayTypeOK
<1>6. OnlyRow(call[c].id)
  BY <1>1, <1>4, <1>5 DEF PayTypeOK, OnlyRow, Settled
<1>7. QED
  BY <1>1, <1>3, <1>5, <1>6 DEF CallMeetsItsRow
-----------------------------------------------------------------------------
(* What a step of call c must see to: its own row and its own answer.      *)
LEMMA CallStep ==
  ASSUME PayInv, NEW c \in Calls, call[c].at # "idle",
         NEW at, NEW outcome, NEW answer, CallGoes(c, at, outcome, answer),
         NEW row, row = call[c].id, OnlyRow(row), RowIsTrue(row)', CallMeetsItsRow(c)',
         AnswerIsTrue(c)', KeysDiffer'
  PROVE  PayInv'
<1>1. row \in Ids /\ row \in 1 .. minted
  BY DEF PayInv, CallMeetsItsRow, PayTypeOK, Ids
<1>2. PayTypeOK'
  BY DEF PayInv, PayTypeOK, OnlyRow, CallGoes, Ids
<1>3. ASSUME NEW i \in Ids PROVE RowIsTrue(i)'
  <2>1. CASE i = row
    BY <2>1
  <2>2. CASE i # row
    BY <2>2 DEF PayInv, RowIsTrue, OnlyRow
  <2>3. QED
    BY <2>1, <2>2
<1>4. ASSUME NEW d \in Calls PROVE CallMeetsItsRow(d)'
  <2>1. CASE d = c
    BY <2>1
  <2>2. CASE d # c /\ call[d].at # "idle"
    <3>1. call'[d] = call[d]
      BY <2>2 DEF CallGoes
    <3>2. call[d].id \in Ids /\ call[d].id # row
      BY <2>2 DEF PayInv, CallsDiffer, CallMeetsItsRow, PayTypeOK, Ids
    <3>3. QED
      BY <2>2, <3>1, <3>2 DEF PayInv, CallMeetsItsRow, OnlyRow
  <2>3. CASE d # c /\ call[d].at = "idle"
    BY <2>3 DEF CallGoes, CallMeetsItsRow
  <2>4. QED
    BY <2>1, <2>2, <2>3
<1>5. ASSUME NEW d \in Calls PROVE AnswerIsTrue(d)'
  <2>1. CASE d = c
    BY <2>1
  <2>2. CASE d # c
    <3>1. call'[d] = call[d]
      BY <2>2 DEF CallGoes
    <3>2. SUFFICES ASSUME call[d].answer \in {"paid", "declined"}
                   PROVE  \E i \in Ids :
                            /\ attempt'[i].booking = call[d].booking
                            /\ attempt'[i].key = call[d].key
                            /\ attempt'[i].amount = call[d].amount
                            /\ attempt'[i].status = IF call[d].answer = "paid" THEN "succeeded"
                                                    ELSE "failed"
      BY <3>1 DEF AnswerIsTrue, Ids
    <3>3. PICK i \in Ids :
            /\ attempt[i].booking = call[d].booking
            /\ attempt[i].key = call[d].key
            /\ attempt[i].amount = call[d].amount
            /\ attempt[i].status = IF call[d].answer = "paid" THEN "succeeded" ELSE "failed"
      BY <3>2 DEF PayInv, AnswerIsTrue
    <3>4. attempt'[i] = attempt[i]
      BY <3>3 DEF OnlyRow, Settled
    <3>5. QED
      BY <3>3, <3>4
  <2>3. QED
    BY <2>1, <2>2
<1>6. CallsDiffer'
  BY DEF PayInv, CallsDiffer, CallGoes
<1>7. ASSUME NEW w \in Refunders PROVE RefundMeetsItsRow(w)'
  BY DEF PayInv, RefundMeetsItsRow, OnlyRow, Settled, Ids
<1>8. QED
  BY <1>2, <1>3, <1>4, <1>5, <1>6, <1>7 DEF PayInv, Ids
-----------------------------------------------------------------------------
(* The steps of a payment.                                                 *)

LEMMA OpenPayInv ==
  ASSUME PayInv, NEW c \in Calls, NEW b \in Bookings, NEW k \in Keys, NEW a \in Amounts,
         OpenPay(c, b, k, a)
  PROVE  PayInv'
<1> DEFINE new == [at |-> "lookUp", id |-> minted + 1, booking |-> b, key |-> k, amount |-> a,
                   outcome |-> "none", answer |-> "none"]
<1>1. /\ call' = [call EXCEPT ![c] = new]
      /\ minted < MaxAttempts /\ minted' = minted + 1
      /\ call[c].at = "idle"
      /\ UNCHANGED <<attempt, asked, charged, refunded, known, refund>>
  BY DEF OpenPay
<1>2. minted \in Nat /\ minted + 1 \in Ids /\ minted' \in 0 .. MaxAttempts
  BY <1>1 DEF PayInv, PayTypeOK, Ids
<1>3. /\ new \in Call /\ new.at = "lookUp" /\ new.id = minted + 1 /\ new.booking = b
      /\ new.key = k /\ new.amount = a /\ new.answer = "none"
  <2>1. minted + 1 \in 0 .. MaxAttempts
    BY <1>2 DEF Ids
  <2>2. QED
    BY <2>1 DEF Call
<1> HIDE DEF new
<1>4. /\ call' \in [Calls -> Call] /\ call'[c] = new
      /\ \A d \in Calls : d # c => call'[d] = call[d]
  BY <1>1, <1>3 DEF PayInv, PayTypeOK
<1>5. PayTypeOK'
  BY <1>1, <1>2, <1>4 DEF PayInv, PayTypeOK, Ids
<1>6. \A i \in Ids : RowIsTrue(i)'
  BY <1>1, <1>2 DEF PayInv, RowIsTrue, Ids
<1>7. attempt[minted + 1].status = Absent
  BY <1>2 DEF PayInv, RowIsTrue, Ids
<1>8. ASSUME NEW d \in Calls PROVE CallMeetsItsRow(d)'
  <2>1. CASE d = c
    BY <1>1, <1>2, <1>3, <1>4, <1>7, <2>1 DEF CallMeetsItsRow
  <2>2. CASE d # c
    BY <1>1, <1>2, <1>4, <2>2 DEF PayInv, CallMeetsItsRow
  <2>3. QED
    BY <2>1, <2>2
<1>9. \A d \in Calls : AnswerIsTrue(d)'
  BY <1>1, <1>3, <1>4 DEF PayInv, AnswerIsTrue, Ids
<1>10. CallsDiffer'
  BY <1>2, <1>3, <1>4 DEF PayInv, CallsDiffer, CallMeetsItsRow
<1>11. KeysDiffer' /\ \A w \in Refunders : RefundMeetsItsRow(w)'
  BY <1>1 DEF PayInv, KeysDiffer, RefundMeetsItsRow, Ids
<1>12. QED
  BY <1>5, <1>6, <1>8, <1>9, <1>10, <1>11 DEF PayInv, Ids

(* A call that goes on or answers while nothing else happens, and whose    *)
(* answer, if it speaks of money, a row bears out.                         *)
LEMMA RestingStep ==
  ASSUME PayInv, NEW c \in Calls, call[c].at # "idle", NEW at, NEW answer,
         CallGoes(c, at, call[c].outcome, answer),
         UNCHANGED <<attempt, minted, asked, charged, refunded, known, refund>>,
         at = "answered" \/ (at \in {"lookUp", "insert"} /\ call[c].at \in {"lookUp", "insert"}),
         answer \in {"paid", "declined"} =>
           \/ answer = call[c].answer
           \/ \E i \in Keyed(call[c].booking, call[c].key) :
                /\ attempt[i].amount = call[c].amount
                /\ attempt[i].status = IF answer = "paid" THEN "succeeded" ELSE "failed"
  PROVE  PayInv'
<1> DEFINE row == call[c].id
<1>1. row \in Ids
  BY DEF PayInv, CallMeetsItsRow, PayTypeOK, Ids
<1>2. OnlyRow(row)
  BY DEF PayInv, PayTypeOK, OnlyRow, Ids
<1>3. \A i \in Ids : RowIsTrue(i)'
  BY DEF PayInv, RowIsTrue, Ids
<1>4. CallMeetsItsRow(c)'
  BY DEF PayInv, CallMeetsItsRow, CallGoes
<1>5. AnswerIsTrue(c)'
  BY DEF PayInv, AnswerIsTrue, CallGoes, Keyed, Ids
<1>6. KeysDiffer'
  BY DEF PayInv, KeysDiffer, Ids
<1> HIDE DEF row
<1>7. QED
  BY <1>1, <1>2, <1>3, <1>4, <1>5, <1>6, CallStep DEF row, Ids

LEMMA LookUpInv ==
  ASSUME PayInv, NEW c \in Calls, LookUp(c)
  PROVE  PayInv'
<1> DEFINE found == Keyed(call[c].booking, call[c].key)
<1>1. /\ call \in [Calls -> Call] /\ call[c].at = "lookUp"
      /\ UNCHANGED <<attempt, minted, asked, charged, refunded, known, refund>>
  BY DEF LookUp, PayInv, PayTypeOK
<1>2. CASE found = {}
  <2>1. CallGoes(c, "insert", call[c].outcome, call[c].answer)
    BY <1>1, <1>2, GoingOn DEF LookUp
  <2>2. QED
    BY <1>1, <2>1, RestingStep
<1>3. CASE found # {}
  <2>1. PICK i \in found : Answer(c, ReplayOf(attempt[i], call[c].amount))
    BY <1>3 DEF LookUp
  <2> DEFINE answer == ReplayOf(attempt[i], call[c].amount)
  <2>2. /\ answer \in PayAnswer
        /\ answer \in {"paid", "declined"} =>
             /\ attempt[i].amount = call[c].amount
             /\ attempt[i].status = IF answer = "paid" THEN "succeeded" ELSE "failed"
    BY DEF ReplayOf, PayAnswer
  <2> HIDE DEF answer
  <2>3. CallGoes(c, "answered", call[c].outcome, answer)
    BY <1>1, <2>1, <2>2, Answering DEF answer
  <2>4. QED
    BY <1>1, <2>2, <2>3, RestingStep
<1>4. QED
  BY <1>2, <1>3

(* The row that is written is the only one under its key.                  *)
LEMMA OpeningStep ==
  ASSUME PayInv, NEW c \in Calls, call[c].at = "insert",
         Keyed(call[c].booking, call[c].key) = {}, attempt' = Opened(c),
         UNCHANGED <<minted, asked, charged, refunded, known, refund>>,
         NEW at \in {"charge", "answered"}, NEW answer,
         CallGoes(c, at, call[c].outcome, answer),
         answer \in {"paid", "declined"} => answer = call[c].answer
  PROVE  PayInv'
<1>1. PICK row : row = call[c].id
  OBVIOUS
<1>2. /\ row \in Ids /\ row \in 1 .. minted /\ attempt[row].status = Absent
      /\ call[c].booking \in Bookings /\ call[c].key \in Keys /\ asked[row] = 0
      /\ row \notin charged /\ row \notin known /\ refunded[row] = 0
  BY <1>1 DEF PayInv, PayTypeOK, CallMeetsItsRow, RowIsTrue, Ids, Absent
<1>3. /\ OnlyRow(row)
      /\ attempt'[row] = [status |-> "initiated", booking |-> call[c].booking,
                          key |-> call[c].key, amount |-> call[c].amount]
  BY <1>1, RowOpens DEF PayInv
<1>4. RowIsTrue(row)'
  BY <1>2, <1>3 DEF RowIsTrue, Absent, Settled
<1>5. CallMeetsItsRow(c)'
  BY <1>1, <1>2, <1>3 DEF PayInv, CallMeetsItsRow, CallGoes
<1>6. AnswerIsTrue(c)'
  <2>1. SUFFICES ASSUME answer \in {"paid", "declined"} PROVE AnswerIsTrue(c)'
    BY DEF AnswerIsTrue, CallGoes
  <2>2. PICK i \in Ids :
          /\ attempt[i].booking = call[c].booking
          /\ attempt[i].key = call[c].key
          /\ attempt[i].status \in Settled
    BY <2>1 DEF PayInv, AnswerIsTrue, Settled
  <2>3. i \in Keyed(call[c].booking, call[c].key)
    BY <2>2 DEF Keyed, Settled, Absent
  <2>4. QED
    BY <2>3
<1>7. KeysDiffer'
  <2>1. \A i \in Ids : i # row =>
          /\ attempt'[i] = attempt[i]
          /\ ~(/\ attempt[i].status # Absent
               /\ attempt[i].booking = call[c].booking
               /\ attempt[i].key = call[c].key)
    BY <1>3 DEF OnlyRow, Keyed
  <2>2. QED
    BY <1>3, <2>1 DEF PayInv, KeysDiffer, Ids
<1>8. QED
  BY <1>1, <1>3, <1>4, <1>5, <1>6, <1>7, CallStep

LEMMA InsertInv ==
  ASSUME PayInv, NEW c \in Calls, Insert(c)
  PROVE  PayInv'
<1>1. /\ call \in [Calls -> Call] /\ call[c].at = "insert"
      /\ UNCHANGED <<minted, asked, charged, refunded, known, refund>>
  BY DEF Insert, PayInv, PayTypeOK
<1>2. CASE Keyed(call[c].booking, call[c].key) = {}
  <2>1. attempt' = Opened(c) /\ CallGoes(c, "charge", call[c].outcome, call[c].answer)
    BY <1>1, <1>2, GoingOn DEF Insert
  <2>2. QED
    BY <1>1, <1>2, <2>1, OpeningStep
<1>3. CASE Keyed(call[c].booking, call[c].key) # {}
  <2>1. UNCHANGED attempt /\ CallGoes(c, "lookUp", call[c].outcome, call[c].answer)
    BY <1>1, <1>3, GoingOn DEF Insert
  <2>2. QED
    BY <1>1, <2>1, RestingStep
<1>4. QED
  BY <1>2, <1>3

LEMMA ChargeInv ==
  ASSUME PayInv, NEW c \in Calls, Charge(c)
  PROVE  PayInv'
<1>1. PICK row : row = call[c].id
  OBVIOUS
<1>2. /\ call \in [Calls -> Call] /\ call[c].at = "charge" /\ row \in Ids /\ row \in 1 .. minted
      /\ asked[row] = 0 /\ attempt[row].status = "initiated" /\ row \notin charged
      /\ asked' = [asked EXCEPT ![row] = @ + 1]
      /\ charged' \in {charged, charged \union {row}}
      /\ UNCHANGED <<attempt, minted, refunded, known, refund>>
  BY <1>1 DEF Charge, PayInv, PayTypeOK, CallMeetsItsRow, RowIsTrue, Ids
<1>3. asked' \in [Ids -> Nat] /\ asked'[row] = 1 /\ \A j \in Ids : j # row => asked'[j] = asked[j]
  BY <1>2 DEF PayInv, PayTypeOK
<1>4. OnlyRow(row)
  BY <1>2, <1>3 DEF PayInv, PayTypeOK, OnlyRow
<1>5. RowIsTrue(row)'
  BY <1>2, <1>3 DEF PayInv, RowIsTrue, Absent, Settled
<1>6. KeysDiffer'
  BY <1>2 DEF PayInv, KeysDiffer, Ids
<1>7. CASE Answer(c, "unavailable")
  <2>1. CallGoes(c, "answered", call[c].outcome, "unavailable")
    BY <1>2, <1>7, Answering DEF PayAnswer
  <2>2. CallMeetsItsRow(c)'
    BY <1>1, <1>2, <2>1 DEF PayInv, CallMeetsItsRow, CallGoes
  <2>3. AnswerIsTrue(c)'
    BY <2>1 DEF AnswerIsTrue, CallGoes
  <2>4. QED
    BY <1>1, <1>2, <1>4, <1>5, <1>6, <2>1, <2>2, <2>3, CallStep
<1>8. ASSUME NEW outcome \in Settled,
             call' = [call EXCEPT ![c].at = "settle", ![c].outcome = outcome],
             (outcome = "succeeded") <=> (row \in charged')
      PROVE  PayInv'
  <2>1. CallGoes(c, "settle", outcome, call[c].answer)
    BY <1>2, <1>8, Outcome
  <2>2. CallMeetsItsRow(c)'
    BY <1>1, <1>2, <1>8, <2>1 DEF PayInv, CallMeetsItsRow, CallGoes
  <2>3. AnswerIsTrue(c)'
    BY <1>2, <2>1 DEF PayInv, AnswerIsTrue, CallGoes, Ids
  <2>4. QED
    BY <1>1, <1>2, <1>4, <1>5, <1>6, <2>1, <2>2, <2>3, CallStep
<1>9. QED
  BY <1>1, <1>2, <1>7, <1>8 DEF Charge, Settled

(* The row that is closed says what the provider did, and so may the call. *)
LEMMA ClosingStep ==
  ASSUME PayInv, NEW c \in Calls, call[c].at = "settle", attempt' = Closed(c),
         UNCHANGED <<minted, asked, charged, refunded, known, refund>>,
         NEW answer \in PayAnswer,
         CallGoes(c, "answered", call[c].outcome, answer),
         answer = "paid" => call[c].outcome = "succeeded",
         answer = "declined" => call[c].outcome = "failed"
  PROVE  PayInv'
<1>1. PICK row : row = call[c].id
  OBVIOUS
<1>2. /\ row \in Ids /\ row \in 1 .. minted /\ attempt[row].status = "initiated"
      /\ call[c].booking \in Bookings /\ call[c].key \in Keys /\ call[c].outcome \in Settled
      /\ (call[c].outcome = "succeeded") <=> (row \in charged)
      /\ row \notin known
  BY <1>1 DEF PayInv, PayTypeOK, CallMeetsItsRow, RowIsTrue, Ids
<1>3. /\ OnlyRow(row) /\ attempt'[row].status = call[c].outcome
      /\ attempt'[row].booking = call[c].booking /\ attempt'[row].key = call[c].key
      /\ attempt'[row].amount = call[c].amount
  BY <1>1, RowCloses DEF PayInv
<1>4. RowIsTrue(row)'
  BY <1>2, <1>3 DEF PayInv, RowIsTrue, Absent, Settled
<1>5. CallMeetsItsRow(c)'
  BY <1>1, <1>2 DEF PayInv, CallMeetsItsRow, CallGoes
<1>6. AnswerIsTrue(c)'
  BY <1>2, <1>3 DEF AnswerIsTrue, CallGoes, Ids
<1>7. KeysDiffer'
  <2>1. \A i \in Ids :
          /\ attempt'[i].booking = attempt[i].booking
          /\ attempt'[i].key = attempt[i].key
          /\ attempt'[i].status # Absent => attempt[i].status # Absent
    BY <1>1, <1>2, <1>3 DEF PayInv, CallMeetsItsRow, OnlyRow, Absent
  <2>2. QED
    BY <2>1 DEF PayInv, KeysDiffer, Ids
<1>8. QED
  BY <1>1, <1>3, <1>4, <1>5, <1>6, <1>7, CallStep

LEMMA SettleInv ==
  ASSUME PayInv, NEW c \in Calls, Settle(c)
  PROVE  PayInv'
<1>1. /\ call \in [Calls -> Call] /\ call[c].at = "settle"
      /\ attempt[call[c].id].status = "initiated" /\ call[c].outcome \in Settled
      /\ UNCHANGED <<minted, asked, charged, refunded, known, refund>>
  BY DEF Settle, PayInv, PayTypeOK, CallMeetsItsRow
<1> DEFINE answer == IF call[c].outcome = "succeeded" THEN "paid" ELSE "declined"
<1>2. attempt' = Closed(c) /\ Answer(c, answer)
  BY <1>1 DEF Settle
<1>3. /\ answer \in PayAnswer
      /\ answer = "paid" => call[c].outcome = "succeeded"
      /\ answer = "declined" => call[c].outcome = "failed"
  BY <1>1 DEF PayAnswer, Settled
<1> HIDE DEF answer
<1>4. CallGoes(c, "answered", call[c].outcome, answer)
  BY <1>1, <1>2, <1>3, Answering
<1>5. QED
  BY <1>1, <1>2, <1>3, <1>4, ClosingStep

LEMMA BreakInv ==
  ASSUME PayInv, NEW c \in Calls, Break(c)
  PROVE  PayInv'
<1>1. /\ call \in [Calls -> Call] /\ call[c].at # "idle" /\ "error" \in PayAnswer
      /\ CallGoes(c, "answered", call[c].outcome, "error")
      /\ UNCHANGED <<minted, asked, charged, refunded, known, refund>>
  BY Answering DEF Break, PayInv, PayTypeOK, PayAnswer
<1>2. CASE UNCHANGED attempt
  BY <1>1, <1>2, RestingStep
<1>3. CASE /\ call[c].at = "insert" /\ Keyed(call[c].booking, call[c].key) = {}
           /\ attempt' = Opened(c)
  BY <1>1, <1>3, OpeningStep
<1>4. CASE /\ call[c].at = "settle" /\ attempt[call[c].id].status = "initiated"
           /\ attempt' = Closed(c)
  BY <1>1, <1>4, ClosingStep
<1>5. QED
  BY <1>2, <1>3, <1>4 DEF Break

(* A call that is over, however it ended, is in no row's way.              *)
LEMMA CallEndsInv ==
  ASSUME PayInv, NEW c \in Calls, call' = [call EXCEPT ![c] = NoCall],
         UNCHANGED <<attempt, minted, asked, charged, refunded, known, refund>>
  PROVE  PayInv'
<1>1. NoCall \in Call /\ NoCall.at = "idle" /\ NoCall.answer = "none"
  BY DEF NoCall, Call
<1>2. /\ call' \in [Calls -> Call] /\ call'[c] = NoCall
      /\ \A d \in Calls : d # c => call'[d] = call[d]
  BY <1>1 DEF PayInv, PayTypeOK
<1>3. PayTypeOK'
  BY <1>2 DEF PayInv, PayTypeOK, Ids
<1>4. \A i \in Ids : RowIsTrue(i)'
  BY DEF PayInv, RowIsTrue, Ids
<1>5. \A d \in Calls : CallMeetsItsRow(d)' /\ AnswerIsTrue(d)'
  BY <1>1, <1>2 DEF PayInv, CallMeetsItsRow, AnswerIsTrue, Ids
<1>6. CallsDiffer'
  BY <1>1, <1>2 DEF PayInv, CallsDiffer
<1>7. KeysDiffer' /\ \A w \in Refunders : RefundMeetsItsRow(w)'
  BY DEF PayInv, KeysDiffer, RefundMeetsItsRow, Ids
<1>8. QED
  BY <1>3, <1>4, <1>5, <1>6, <1>7 DEF PayInv, Ids

LEMMA CollectInv ==
  ASSUME PayInv, NEW c \in Calls, Collect(c)
  PROVE  PayInv'
BY CallEndsInv DEF Collect

-----------------------------------------------------------------------------
(* The steps of a refund.                                                  *)

RefundsAreTrue ==
  /\ refunded \in [Ids -> Nat] /\ known \in SUBSET Ids
  /\ \A i \in Ids :
       /\ refunded[i] = IF i \in known THEN 1 ELSE 0
       /\ i \in known => attempt[i].status = "succeeded"

(* A refund that goes where its row lets it, while the rows rest.          *)
LEMMA RefundStepInv ==
  ASSUME PayInv, NEW w \in Refunders, NEW new \in RefundCall,
         refund' = [refund EXCEPT ![w] = new],
         new.at = "send" => new.id \in Ids /\ attempt[new.id].status = "succeeded",
         UNCHANGED <<attempt, minted, asked, charged, call>>,
         RefundsAreTrue'
  PROVE  PayInv'
<1>1. /\ refund' \in [Refunders -> RefundCall] /\ refund'[w] = new
      /\ \A v \in Refunders : v # w => refund'[v] = refund[v]
  BY DEF PayInv, PayTypeOK
<1>2. PayTypeOK'
  BY <1>1 DEF PayInv, PayTypeOK, RefundsAreTrue, Ids
<1>3. \A i \in Ids : RowIsTrue(i)'
  BY DEF PayInv, RowIsTrue, RefundsAreTrue, Ids
<1>4. \A c \in Calls : CallMeetsItsRow(c)' /\ AnswerIsTrue(c)'
  BY DEF PayInv, CallMeetsItsRow, AnswerIsTrue, Ids
<1>5. CallsDiffer' /\ KeysDiffer'
  BY DEF PayInv, CallsDiffer, KeysDiffer, Ids
<1>6. \A v \in Refunders : RefundMeetsItsRow(v)'
  BY <1>1 DEF PayInv, RefundMeetsItsRow, Ids
<1>7. QED
  BY <1>2, <1>3, <1>4, <1>5, <1>6 DEF PayInv, Ids

(* What every refund may count on before it steps.                         *)
LEMMA RefundsKnown ==
  ASSUME PayInv
  PROVE  refund \in [Refunders -> RefundCall] /\ RefundsAreTrue
<1>1. /\ refund \in [Refunders -> RefundCall]
      /\ refunded \in [Ids -> Nat] /\ known \in SUBSET Ids
  BY DEF PayInv, PayTypeOK
<1>2. \A i \in Ids : RowIsTrue(i)
  BY DEF PayInv
<1>3. QED
  BY <1>1, <1>2 DEF RowIsTrue, RefundsAreTrue

LEMMA OpenRefundInv ==
  ASSUME PayInv, NEW w \in Refunders, NEW b \in Bookings, OpenRefund(w, b)
  PROVE  PayInv'
<1> DEFINE new == [NoRefund EXCEPT !.at = "find", !.booking = b]
<1>1. new \in RefundCall /\ new.at = "find"
  <2>1. NoRefund \in RefundCall
    BY DEF NoRefund, RefundCall
  <2>2. QED
    BY <2>1 DEF RefundCall
<1>2. /\ refund' = [refund EXCEPT ![w] = new]
      /\ UNCHANGED <<attempt, minted, asked, charged, refunded, known, call>>
  BY DEF OpenRefund
<1> HIDE DEF new
<1>3. RefundsAreTrue'
  BY <1>2, RefundsKnown DEF RefundsAreTrue, Ids
<1>4. QED
  BY <1>1, <1>2, <1>3, RefundStepInv

(* An answered refund is in no row's way, whatever it answers.             *)
LEMMA AnswerRefundInv ==
  ASSUME PayInv, NEW w \in Refunders, AnswerRefund(w, "refunded") \/ AnswerRefund(w, "nothing")
           \/ AnswerRefund(w, "unavailable") \/ AnswerRefund(w, "error"),
         UNCHANGED <<attempt, minted, asked, charged, call>>,
         RefundsAreTrue'
  PROVE  PayInv'
<1>1. PICK answer \in {"refunded", "nothing", "unavailable", "error"} : AnswerRefund(w, answer)
  OBVIOUS
<1> DEFINE new == [refund[w] EXCEPT !.at = "answered", !.answer = answer]
<1>2. new \in RefundCall /\ new.at = "answered"
  BY RefundsKnown DEF RefundCall
<1>3. refund' = [refund EXCEPT ![w] = new]
  BY <1>1 DEF AnswerRefund
<1> HIDE DEF new
<1>4. QED
  BY <1>2, <1>3, RefundStepInv

LEMMA FindSettledInv ==
  ASSUME PayInv, NEW w \in Refunders, FindSettled(w)
  PROVE  PayInv'
<1> DEFINE found == SettledAttempts(refund[w].booking)
           oldest == CHOOSE i \in found : \A j \in found : i <= j
           new == [refund[w] EXCEPT !.at = "send", !.id = oldest]
<1>1. UNCHANGED <<attempt, minted, asked, charged, refunded, known, call>>
  BY DEF FindSettled
<1>2. RefundsAreTrue'
  BY <1>1, RefundsKnown DEF RefundsAreTrue, Ids
<1>3. CASE found = {}
  <2>1. AnswerRefund(w, "nothing")
    BY <1>3 DEF FindSettled
  <2>2. QED
    BY <1>1, <1>2, <2>1, AnswerRefundInv
<1>4. CASE found # {}
  <2>1. refund' = [refund EXCEPT ![w] = new]
    BY <1>4 DEF FindSettled
  <2>2. found \subseteq Nat /\ found \subseteq Ids
    BY DEF SettledAttempts, Ids
  <2>3. \E i \in found : \A j \in found : i <= j
    BY <1>4, <2>2, LeastNatural
  <2>4. oldest \in found
    BY <2>3
  <2>5. oldest \in Ids /\ attempt[oldest].status = "succeeded"
    BY <2>4 DEF SettledAttempts
  <2> HIDE DEF oldest
  <2>6. new \in RefundCall /\ new.id = oldest
    <3>1. refund[w] \in RefundCall /\ oldest \in 0 .. MaxAttempts
      BY <2>5, RefundsKnown DEF Ids
    <3>2. QED
      BY <3>1 DEF RefundCall
  <2> HIDE DEF new
  <2>7. QED
    BY <1>1, <1>2, <2>1, <2>5, <2>6, RefundStepInv
<1>5. QED
  BY <1>3, <1>4

LEMMA SendBackInv ==
  ASSUME PayInv, NEW w \in Refunders, SendBack(w)
  PROVE  PayInv'
<1>1. PICK row : row = refund[w].id
  OBVIOUS
<1>2. /\ row \in Ids /\ attempt[row].status = "succeeded"
      /\ UNCHANGED <<attempt, minted, asked, charged, call>>
  BY <1>1 DEF SendBack, PayInv, RefundMeetsItsRow
<1>3. AnswerRefund(w, "refunded") \/ AnswerRefund(w, "unavailable")
  BY DEF SendBack
<1>4. CASE UNCHANGED <<refunded, known>>
  <2>1. RefundsAreTrue'
    BY <1>2, <1>4, RefundsKnown DEF RefundsAreTrue, Ids
  <2>2. QED
    BY <1>2, <1>3, <2>1, AnswerRefundInv
<1>5. CASE /\ row \notin known
           /\ refunded' = [refunded EXCEPT ![row] = @ + 1]
           /\ known' = known \union {row}
  <2>1. /\ refunded' \in [Ids -> Nat] /\ known' \in SUBSET Ids
        /\ refunded'[row] = refunded[row] + 1
        /\ \A i \in Ids : i # row => refunded'[i] = refunded[i]
    BY <1>2, <1>5, RefundsKnown DEF RefundsAreTrue
  <2>2. RefundsAreTrue'
    BY <1>2, <1>5, <2>1, RefundsKnown DEF RefundsAreTrue, Ids
  <2>3. QED
    BY <1>2, <1>3, <2>2, AnswerRefundInv
<1>6. QED
  BY <1>1, <1>4, <1>5 DEF SendBack

LEMMA BreakRefundInv ==
  ASSUME PayInv, NEW w \in Refunders, BreakRefund(w)
  PROVE  PayInv'
<1>1. /\ AnswerRefund(w, "error")
      /\ UNCHANGED <<attempt, minted, asked, charged, refunded, known, call>>
  BY DEF BreakRefund
<1>2. RefundsAreTrue'
  BY <1>1, RefundsKnown DEF RefundsAreTrue, Ids
<1>3. QED
  BY <1>1, <1>2, AnswerRefundInv

(* A refund that is over, however it ended, is in no row's way.            *)
LEMMA RefundEndsInv ==
  ASSUME PayInv, NEW w \in Refunders, refund' = [refund EXCEPT ![w] = NoRefund],
         UNCHANGED <<attempt, minted, asked, charged, refunded, known, call>>
  PROVE  PayInv'
<1>1. NoRefund \in RefundCall /\ NoRefund.at = "idle"
  BY DEF NoRefund, RefundCall
<1>2. RefundsAreTrue'
  BY RefundsKnown DEF RefundsAreTrue, Ids
<1>3. QED
  BY <1>1, <1>2, RefundStepInv

LEMMA CollectRefundInv ==
  ASSUME PayInv, NEW w \in Refunders, CollectRefund(w)
  PROVE  PayInv'
BY RefundEndsInv DEF CollectRefund
-----------------------------------------------------------------------------
LEMMA NextInv == PayInv /\ [PayNext]_payVars => PayInv'
<1> SUFFICES ASSUME PayInv, [PayNext]_payVars PROVE PayInv'
  OBVIOUS
<1>1. ASSUME NEW c \in Calls, PayStep(c) PROVE PayInv'
  BY <1>1, LookUpInv, InsertInv, ChargeInv, SettleInv, BreakInv DEF PayStep
<1>2. ASSUME NEW w \in Refunders, RefundStep(w) PROVE PayInv'
  BY <1>2, FindSettledInv, SendBackInv, BreakRefundInv DEF RefundStep
<1>3. CASE UNCHANGED payVars
  BY <1>3 DEF payVars, PayInv, PayTypeOK, RowIsTrue, CallMeetsItsRow, AnswerIsTrue, CallsDiffer,
              KeysDiffer, RefundMeetsItsRow, Ids
<1>4. QED
  BY <1>1, <1>2, <1>3, OpenPayInv, CollectInv, OpenRefundInv, CollectRefundInv DEF PayNext

THEOREM Invariance == PaySpec => []PayInv
<1>1. PayInit => PayInv
  BY InitInv
<1>2. PayInv /\ [PayNext]_payVars => PayInv'
  BY NextInv
<1>3. QED
  BY <1>1, <1>2, PTL DEF PaySpec
-----------------------------------------------------------------------------
(* Every reachable state of the payment package is well typed.             *)
THEOREM PaymentTypeCorrect == PaySpec => []PayTypeOK
<1>1. PayInv => PayTypeOK
  BY DEF PayInv
<1>2. QED
  BY <1>1, Invariance, PTL

(* A row that is there is the only one under its key.                      *)
LEMMA OneRowPerKey ==
  ASSUME PayInv
  PROVE  \A i \in Ids : attempt[i].status # Absent =>
           /\ Keyed(attempt[i].booking, attempt[i].key) = {i}
           /\ <<attempt[i].booking, attempt[i].key>> \in Bookings \X Keys
BY DEF PayInv, KeysDiffer, Keyed, RowIsTrue

(* However many calls carry one key, and wherever they break off, the      *)
(* provider is asked to charge at most once under it.                      *)
THEOREM ChargedOnce == PaySpec => []ChargedOncePerKey
<1>1. PayInv => ChargedOncePerKey
  <2>1. SUFFICES ASSUME PayInv, NEW i \in Ids, asked[i] > 0
                 PROVE  asked[i] = 1 /\ Keyed(attempt[i].booking, attempt[i].key) = {i}
    BY DEF ChargedOncePerKey
  <2>2. asked[i] = 1 /\ attempt[i].status # Absent
    BY <2>1 DEF PayInv, RowIsTrue
  <2>3. QED
    BY <2>1, <2>2, OneRowPerKey
<1>2. QED
  BY <1>1, Invariance, PTL

(* What the table says of a charge, and what a caller is told, is true.    *)
THEOREM TableTrue == PaySpec => []TableTellsTheTruth
<1>1. PayInv => TableTellsTheTruth
  <2>1. SUFFICES ASSUME PayInv PROVE TableTellsTheTruth
    OBVIOUS
  <2>2. \A i \in Ids : attempt[i].status \in Settled =>
          (attempt[i].status = "succeeded" <=> i \in charged)
    BY <2>1 DEF PayInv, RowIsTrue
  <2>3. \A c \in Calls : call[c].answer \in {"paid", "declined"} =>
          \E i \in Keyed(call[c].booking, call[c].key) :
            /\ attempt[i].amount = call[c].amount
            /\ attempt[i].status = IF call[c].answer = "paid" THEN "succeeded" ELSE "failed"
    BY <2>1 DEF PayInv, AnswerIsTrue, Keyed, Absent
  <2>4. QED
    BY <2>2, <2>3 DEF TableTellsTheTruth
<1>2. QED
  BY <1>1, Invariance, PTL

(* One charge moves back at most once, and only if it moved.               *)
THEOREM RefundedAtMostOnce == PaySpec => []RefundedOnce
<1>1. PayInv => RefundedOnce
  BY DEF PayInv, RefundedOnce, RowIsTrue, Settled
<1>2. QED
  BY <1>1, Invariance, PTL
-----------------------------------------------------------------------------
(* What is settled is never rewritten.                                     *)
LEMMA SettledStays ==
  ASSUME PayInv, [PayNext]_payVars, NEW i \in Ids, attempt[i].status \in Settled
  PROVE  attempt'[i] = attempt[i]
<1>1. ASSUME NEW c \in Calls, attempt' = Opened(c), call[c].at = "insert"
      PROVE  attempt'[i] = attempt[i]
  <2>1. call[c].id # i
    BY <1>1 DEF PayInv, CallMeetsItsRow, Settled, Absent
  <2>2. QED
    BY <1>1, <2>1 DEF Opened, PayInv, PayTypeOK
<1>2. ASSUME NEW c \in Calls, attempt' = Closed(c), call[c].at = "settle"
      PROVE  attempt'[i] = attempt[i]
  <2>1. call[c].id # i
    BY <1>2 DEF PayInv, CallMeetsItsRow, Settled
  <2>2. QED
    BY <1>2, <2>1 DEF Closed, PayInv, PayTypeOK
<1>3. CASE UNCHANGED attempt
  BY <1>3
<1>4. ASSUME NEW c \in Calls, PayStep(c)
      PROVE  \/ UNCHANGED attempt
             \/ attempt' = Opened(c) /\ call[c].at = "insert"
             \/ attempt' = Closed(c) /\ call[c].at = "settle"
  BY <1>4 DEF PayStep, LookUp, Insert, Charge, Settle, Break
<1>5. ASSUME NEW w \in Refunders, RefundStep(w) PROVE UNCHANGED attempt
  BY <1>5 DEF RefundStep, FindSettled, SendBack, BreakRefund
<1>6. QED
  BY <1>1, <1>2, <1>3, <1>4, <1>5 DEF PayNext, payVars, OpenPay, Collect, OpenRefund, CollectRefund
-----------------------------------------------------------------------------
(* The refinement of the charge ledger.                                    *)

LEMMA RecordedIsStatus ==
  PayInv => \A i \in Ids : attempt[i].status # Absent =>
              RecordedOf(<<attempt[i].booking, attempt[i].key>>) = attempt[i].status
<1>1. SUFFICES ASSUME PayInv, NEW i \in Ids, attempt[i].status # Absent
               PROVE  RecordedOf(<<attempt[i].booking, attempt[i].key>>) = attempt[i].status
  OBVIOUS
<1>2. Keyed(attempt[i].booking, attempt[i].key) = {i}
  BY <1>1, OneRowPerKey
<1>3. QED
  BY <1>2 DEF RecordedOf

(* A charge that moved, or moved back, is the charge of one row.           *)
LEMMA ChargeOfOneRow ==
  ASSUME PayInv, NEW i \in Ids, attempt[i].status # Absent
  PROVE  /\ <<attempt[i].booking, attempt[i].key>> \in Moved <=> i \in charged
         /\ <<attempt[i].booking, attempt[i].key>> \in SentBack <=> refunded[i] > 0
<1>1. \A j \in Ids : (j \in charged \/ refunded[j] > 0) => attempt[j].status # Absent
  BY DEF PayInv, RowIsTrue, Absent
<1>2. charged \subseteq Ids
  BY DEF PayInv, PayTypeOK
<1>3. \A j \in Ids : attempt[j].status # Absent /\ attempt[j].booking = attempt[i].booking
                       /\ attempt[j].key = attempt[i].key => j = i
  BY DEF PayInv, KeysDiffer
<1>4. QED
  BY <1>1, <1>2, <1>3 DEF Moved, SentBack, ChargesOf

(* When one row moves, what is recorded of its charge moves with it and of *)
(* no other charge.                                                        *)
LEMMA RecordedMoves ==
  ASSUME PayInv, PayInv', NEW row \in Ids, NEW b \in Bookings, NEW k \in Keys,
         \A j \in Ids : j # row => attempt'[j] = attempt[j],
         attempt'[row].status # Absent, attempt'[row].booking = b, attempt'[row].key = k,
         attempt[row].status # Absent => attempt[row].booking = b /\ attempt[row].key = k
  PROVE  Recorded' = [Recorded EXCEPT ![<<b, k>>] = attempt'[row].status]
<1>1. RecordedOf(<<b, k>>)' = attempt'[row].status
  <2>1. (\A i \in Ids : attempt[i].status # Absent =>
           RecordedOf(<<attempt[i].booking, attempt[i].key>>) = attempt[i].status)'
    BY RecordedIsStatus, PTL
  <2>2. RecordedOf(<<attempt[row].booking, attempt[row].key>>)' = attempt'[row].status
    BY <2>1 DEF Ids
  <2>3. QED
    BY <2>2 DEF RecordedOf, Keyed
<1>2. ASSUME NEW charge \in Bookings \X Keys, charge # <<b, k>>
      PROVE  RecordedOf(charge)' = RecordedOf(charge)
  <2>1. row \notin Keyed(charge[1], charge[2]) /\ row \notin Keyed(charge[1], charge[2])'
    BY <1>2 DEF Keyed
  <2>2. Keyed(charge[1], charge[2])' = Keyed(charge[1], charge[2])
    BY <2>1 DEF Keyed, Ids
  <2> DEFINE rows == Keyed(charge[1], charge[2])
             one == CHOOSE i \in rows : TRUE
  <2>3. rows # {} => one \in Ids /\ attempt'[one] = attempt[one]
    <3>1. rows # {} => one \in rows
      OBVIOUS
    <3>2. QED
      BY <2>1, <3>1 DEF Keyed
  <2>4. RecordedOf(charge) = IF rows = {} THEN Absent ELSE attempt[one].status
    BY DEF RecordedOf
  <2>5. RecordedOf(charge)' = IF rows = {} THEN Absent ELSE attempt'[one].status
    BY <2>2 DEF RecordedOf
  <2>6. QED
    BY <2>3, <2>4, <2>5
<1>3. QED
  BY <1>1, <1>2 DEF Recorded

LEMMA MoneyRests ==
  ASSUME PayInv, UNCHANGED <<charged, refunded>>,
         \A i \in Ids : attempt[i].status # Absent =>
           attempt'[i].booking = attempt[i].booking /\ attempt'[i].key = attempt[i].key
  PROVE  UNCHANGED <<Moved, SentBack>>
<1>1. \A i \in Ids : (i \in charged \/ refunded[i] > 0) => attempt[i].status # Absent
  BY DEF PayInv, RowIsTrue, Absent
<1>2. charged \subseteq Ids
  BY DEF PayInv, PayTypeOK
<1>3. QED
  BY <1>1, <1>2 DEF Moved, SentBack, ChargesOf, Ids

LEMMA LedgerRests ==
  ASSUME UNCHANGED <<attempt, charged, refunded>>
  PROVE  UNCHANGED Charges!charges
<1>1. UNCHANGED Recorded
  BY DEF Recorded, RecordedOf, Keyed, Ids
<1>2. UNCHANGED <<Moved, SentBack>>
  BY DEF Moved, SentBack, ChargesOf, Ids
<1>3. QED
  BY <1>1, <1>2 DEF Charges!charges

(* Writing a row begins its charge.                                        *)
LEMMA OpeningBegins ==
  ASSUME PayInv, PayInv', NEW c \in Calls, call[c].at = "insert",
         Keyed(call[c].booking, call[c].key) = {}, attempt' = Opened(c),
         UNCHANGED <<minted, asked, charged, refunded, known, refund>>
  PROVE  Charges!Next
<1>1. PICK row, b, k : row = call[c].id /\ b = call[c].booking /\ k = call[c].key
  OBVIOUS
<1>2. /\ row \in Ids /\ b \in Bookings /\ k \in Keys /\ attempt[row].status = Absent
      /\ OnlyRow(row) /\ attempt'[row].status = "initiated"
      /\ attempt'[row].booking = b /\ attempt'[row].key = k
  <2>1. /\ b \in Bookings /\ k \in Keys /\ attempt[row].status = Absent
    BY <1>1 DEF PayInv, CallMeetsItsRow
  <2>2. /\ row \in Ids /\ OnlyRow(row)
        /\ attempt'[row] = [status |-> "initiated", booking |-> b, key |-> k,
                            amount |-> call[c].amount]
    BY <1>1, RowOpens DEF PayInv
  <2>3. QED
    BY <2>1, <2>2
<1>3. Recorded' = [Recorded EXCEPT ![<<b, k>>] = "initiated"]
  BY <1>2, RecordedMoves DEF OnlyRow, Absent
<1>4. Recorded[<<b, k>>] = Absent
  BY <1>1, <1>2 DEF Recorded, RecordedOf
<1>5. UNCHANGED <<Moved, SentBack>>
  BY <1>2, MoneyRests DEF OnlyRow
<1>6. QED
  BY <1>2, <1>3, <1>4, <1>5 DEF Charges!Next, Charges!Begin, Absent

(* Closing a row records what happened to its charge.                      *)
LEMMA ClosingRecords ==
  ASSUME PayInv, PayInv', NEW c \in Calls, call[c].at = "settle", attempt' = Closed(c),
         UNCHANGED <<minted, asked, charged, refunded, known, refund>>
  PROVE  Charges!Next
<1>1. PICK row, b, k : row = call[c].id /\ b = call[c].booking /\ k = call[c].key
  OBVIOUS
<1>2. /\ row \in Ids /\ b \in Bookings /\ k \in Keys /\ attempt[row].status = "initiated"
      /\ attempt[row].booking = b /\ attempt[row].key = k
      /\ call[c].outcome \in Settled
      /\ (call[c].outcome = "succeeded") <=> (row \in charged)
  BY <1>1 DEF PayInv, PayTypeOK, CallMeetsItsRow, Ids
<1>3. /\ OnlyRow(row) /\ attempt'[row].status = call[c].outcome
      /\ attempt'[row].booking = b /\ attempt'[row].key = k
  BY <1>1, RowCloses DEF PayInv
<1>4. <<b, k>> \in Moved <=> row \in charged
  BY <1>2, ChargeOfOneRow DEF Absent
<1>5. call[c].outcome = IF <<b, k>> \in Moved THEN "succeeded" ELSE "failed"
  BY <1>2, <1>4 DEF Settled
<1>6. Recorded' = [Recorded EXCEPT ![<<b, k>>] = IF <<b, k>> \in Moved THEN "succeeded" ELSE "failed"]
  <2>1. attempt'[row].status # Absent
    BY <1>2, <1>3 DEF Settled, Absent
  <2>2. Recorded' = [Recorded EXCEPT ![<<b, k>>] = attempt'[row].status]
    BY <1>2, <1>3, <2>1, RecordedMoves DEF OnlyRow
  <2>3. QED
    BY <1>3, <1>5, <2>2
<1>7. Recorded[<<b, k>>] = "initiated"
  BY <1>2, RecordedIsStatus DEF Recorded, Absent
<1>8. UNCHANGED <<Moved, SentBack>>
  BY <1>2, <1>3, MoneyRests DEF OnlyRow
<1>9. QED
  BY <1>2, <1>6, <1>7, <1>8 DEF Charges!Next, Charges!Record

(* Money that moves, moves once for a charge that has begun.               *)
LEMMA ChargeMoves ==
  ASSUME PayInv, NEW c \in Calls, Charge(c)
  PROVE  Charges!Next \/ UNCHANGED Charges!charges
<1>1. PICK row, b, k : row = call[c].id /\ b = call[c].booking /\ k = call[c].key
  OBVIOUS
<1>2. /\ row \in Ids /\ b \in Bookings /\ k \in Keys /\ attempt[row].status = "initiated"
      /\ attempt[row].booking = b /\ attempt[row].key = k /\ row \notin charged
      /\ UNCHANGED <<attempt, refunded>>
  BY <1>1 DEF Charge, PayInv, PayTypeOK, CallMeetsItsRow, RowIsTrue, Ids
<1>3. charged' = charged \/ charged' = charged \union {row}
  BY <1>1 DEF Charge
<1>4. CASE charged' = charged
  BY <1>2, <1>4, LedgerRests
<1>5. CASE charged' = charged \union {row}
  <2>1. Moved' = Moved \union {<<b, k>>}
    BY <1>2, <1>5 DEF Moved, ChargesOf
  <2>2. <<b, k>> \notin Moved
    BY <1>2, ChargeOfOneRow DEF Absent
  <2>3. Recorded[<<b, k>>] = "initiated"
    BY <1>2, RecordedIsStatus DEF Recorded, Absent
  <2>4. UNCHANGED Recorded
    BY <1>2 DEF Recorded, RecordedOf, Keyed, Ids
  <2>5. UNCHANGED SentBack
    BY <1>2 DEF SentBack, ChargesOf, Ids
  <2>6. QED
    BY <1>2, <2>1, <2>2, <2>3, <2>4, <2>5 DEF Charges!Next, Charges!Move
<1>6. QED
  BY <1>3, <1>4, <1>5

(* Money that moves back, moves back once for a charge that settled.       *)
LEMMA RefundSendsBack ==
  ASSUME PayInv, NEW w \in Refunders, SendBack(w)
  PROVE  Charges!Next \/ UNCHANGED Charges!charges
<1>1. PICK row : row = refund[w].id
  OBVIOUS
<1>2. PICK b, k : b = attempt[row].booking /\ k = attempt[row].key
  OBVIOUS
<1>3. /\ row \in Ids /\ attempt[row].status = "succeeded"
      /\ b \in Bookings /\ k \in Keys /\ UNCHANGED <<attempt, charged>>
  BY <1>1, <1>2 DEF SendBack, PayInv, RefundMeetsItsRow, RowIsTrue, Absent
<1>4. CASE UNCHANGED refunded
  BY <1>3, <1>4, LedgerRests
<1>5. CASE row \notin known /\ refunded' = [refunded EXCEPT ![row] = @ + 1]
  <2>1. /\ refunded[row] = 0 /\ refunded'[row] = 1
        /\ \A i \in Ids : i # row => refunded'[i] = refunded[i]
    BY <1>3, <1>5, RefundsKnown DEF RefundsAreTrue
  <2>2. SentBack' = SentBack \union {<<b, k>>}
    BY <1>2, <1>3, <2>1 DEF SentBack, ChargesOf, Ids
  <2>3. <<b, k>> \notin SentBack
    BY <1>2, <1>3, <2>1, ChargeOfOneRow DEF Absent
  <2>4. Recorded[<<b, k>>] = "succeeded"
    BY <1>2, <1>3, RecordedIsStatus DEF Recorded, Absent
  <2>5. UNCHANGED <<Recorded, Moved>>
    BY <1>3 DEF Recorded, RecordedOf, Keyed, Moved, ChargesOf, Ids
  <2>6. QED
    BY <1>3, <2>2, <2>3, <2>4, <2>5 DEF Charges!Next, Charges!SendBack
<1>6. QED
  BY <1>1, <1>4, <1>5 DEF SendBack

LEMMA PaySteps ==
  ASSUME PayInv, PayInv', NEW c \in Calls, PayStep(c)
  PROVE  Charges!Next \/ UNCHANGED Charges!charges
<1>1. CASE LookUp(c)
  BY <1>1, LedgerRests DEF LookUp
<1>2. CASE Insert(c)
  <2>1. CASE Keyed(call[c].booking, call[c].key) = {}
    BY <1>2, <2>1, OpeningBegins DEF Insert
  <2>2. CASE Keyed(call[c].booking, call[c].key) # {}
    BY <1>2, <2>2, LedgerRests DEF Insert
  <2>3. QED
    BY <2>1, <2>2
<1>3. CASE Charge(c)
  BY <1>3, ChargeMoves
<1>4. CASE Settle(c)
  <2>1. CASE attempt[call[c].id].status = "initiated"
    BY <1>4, <2>1, ClosingRecords DEF Settle
  <2>2. CASE attempt[call[c].id].status # "initiated"
    BY <1>4, <2>2, LedgerRests DEF Settle
  <2>3. QED
    BY <2>1, <2>2
<1>5. CASE Break(c)
  <2>1. UNCHANGED <<minted, asked, charged, refunded, known, refund>>
    BY <1>5 DEF Break
  <2>2. CASE UNCHANGED attempt
    BY <2>1, <2>2, LedgerRests
  <2>3. CASE /\ call[c].at = "insert" /\ Keyed(call[c].booking, call[c].key) = {}
             /\ attempt' = Opened(c)
    BY <2>1, <2>3, OpeningBegins
  <2>4. CASE call[c].at = "settle" /\ attempt' = Closed(c)
    BY <2>1, <2>4, ClosingRecords
  <2>5. QED
    BY <1>5, <2>2, <2>3, <2>4 DEF Break
<1>6. QED
  BY <1>1, <1>2, <1>3, <1>4, <1>5 DEF PayStep

LEMMA LedgerStep == PayInv /\ PayInv' /\ [PayNext]_payVars => [Charges!Next]_(Charges!charges)
<1> SUFFICES ASSUME PayInv, PayInv', [PayNext]_payVars
             PROVE  Charges!Next \/ UNCHANGED Charges!charges
  OBVIOUS
<1>1. ASSUME NEW c \in Calls, NEW b \in Bookings, NEW k \in Keys, NEW a \in Amounts,
             OpenPay(c, b, k, a)
      PROVE  UNCHANGED Charges!charges
  BY <1>1, LedgerRests DEF OpenPay
<1>2. ASSUME NEW c \in Calls, Collect(c) PROVE UNCHANGED Charges!charges
  BY <1>2, LedgerRests DEF Collect
<1>3. ASSUME NEW w \in Refunders, NEW b \in Bookings, OpenRefund(w, b)
      PROVE  UNCHANGED Charges!charges
  BY <1>3, LedgerRests DEF OpenRefund
<1>4. ASSUME NEW w \in Refunders, FindSettled(w) \/ BreakRefund(w) \/ CollectRefund(w)
      PROVE  UNCHANGED Charges!charges
  BY <1>4, LedgerRests DEF FindSettled, BreakRefund, CollectRefund
<1>5. CASE UNCHANGED payVars
  BY <1>5, LedgerRests DEF payVars
<1>6. QED
  BY <1>1, <1>2, <1>3, <1>4, <1>5, PaySteps, RefundSendsBack DEF PayNext, RefundStep

LEMMA LedgerInit == PayInit => Charges!Init
<1>1. SUFFICES ASSUME PayInit PROVE Charges!Init
  OBVIOUS
<1>2. \A i \in Ids : attempt[i].status = Absent /\ refunded[i] = 0
  BY <1>1 DEF PayInit, NoAttempt
<1>3. \A charge \in Bookings \X Keys : RecordedOf(charge) = Absent
  BY <1>2 DEF RecordedOf, Keyed
<1>4. Moved = {} /\ SentBack = {}
  BY <1>1, <1>2 DEF PayInit, Moved, SentBack, ChargesOf
<1>5. QED
  BY <1>3, <1>4 DEF Charges!Init, Recorded, Absent

(* For any number of calls, keys and refunds, the package implements the   *)
(* charge ledger: every step of it is a step of the ledger or invisible.   *)
THEOREM PaymentsImplementLedger == PaySpec => ImplementsCharges
<1>1. PayInit => Charges!Init
  BY LedgerInit
<1>2. PayInv /\ PayInv' /\ [PayNext]_payVars => [Charges!Next]_(Charges!charges)
  BY LedgerStep
<1>3. QED
  BY <1>1, <1>2, Invariance, PTL DEF PaySpec, ImplementsCharges, Charges!Spec
-----------------------------------------------------------------------------
(* The map of the fast tests.                                              *)

(* A call has no answer before it is answered.                             *)
Unanswered == \A c \in Calls : call[c].at # "answered" => call[c].answer = "none"

LEMMA UnansweredStep == PayInv /\ Unanswered /\ [PayNext]_payVars => Unanswered'
<1> SUFFICES ASSUME PayInv, Unanswered, [PayNext]_payVars PROVE Unanswered'
  OBVIOUS
<1>1. call \in [Calls -> Call]
  BY DEF PayInv, PayTypeOK
<1> USE <1>1 DEF Unanswered, Call
<1>2. ASSUME NEW c \in Calls, LookUp(c) \/ Insert(c) PROVE Unanswered'
  BY <1>2 DEF LookUp, Insert, Answer
<1>3. ASSUME NEW c \in Calls, Charge(c) PROVE Unanswered'
  BY <1>3 DEF Charge, Answer
<1>4. ASSUME NEW c \in Calls, Settle(c) \/ Break(c) PROVE Unanswered'
  BY <1>4 DEF Settle, Break, Answer
<1>5. ASSUME NEW c \in Calls, Collect(c) PROVE Unanswered'
  BY <1>5 DEF Collect, NoCall
<1>6. ASSUME NEW c \in Calls, NEW b \in Bookings, NEW k \in Keys, NEW a \in Amounts, OpenPay(c, b, k, a)
      PROVE  Unanswered'
  BY <1>6 DEF OpenPay
<1>7. CASE UNCHANGED call
  BY <1>7
<1>8. QED
  BY <1>2, <1>3, <1>4, <1>5, <1>6, <1>7
     DEF PayNext, payVars, PayStep, RefundStep, OpenRefund, FindSettled, SendBack, BreakRefund,
         CollectRefund

(* The rows the index knows under a key are the attempts the map finds.    *)
LEMMA SameRows ==
  \A b, k : Memory!AttemptByKey(attempt, b, k) = Keyed(b, k)
BY DEF Memory!AttemptByKey, Memory!Found, Keyed, Absent

LEMMA OpeningAgrees ==
  ASSUME PayInv, NEW c \in Calls, Keyed(call[c].booking, call[c].key) = {}, attempt' = Opened(c)
  PROVE  Begun(c).answer = "opened" /\ attempt' = Begun(c).store
BY SameRows DEF Begun, Memory!Begin, Opened

LEMMA ReplayAgrees ==
  ASSUME PayInv, NEW c \in Calls, NEW i \in Keyed(call[c].booking, call[c].key)
  PROVE  /\ Begun(c).answer \in DOMAIN Reply
         /\ ReplayOf(attempt[i], call[c].amount) = Reply[Begun(c).answer]
<1>1. i \in Ids /\ attempt[i].status \in {"initiated", "succeeded", "failed"}
  BY DEF PayInv, PayTypeOK, Keyed, Attempt, Settled, Absent
<1>2. Keyed(call[c].booking, call[c].key) = {i}
  BY DEF PayInv, KeysDiffer, Keyed
<1>3. Begun(c).answer = IF attempt[i].amount # call[c].amount THEN "conflict" ELSE attempt[i].status
  BY <1>2, SameRows DEF Begun, Memory!Begin
<1>4. QED
  BY <1>1, <1>3 DEF Reply, ReplayOf

LEMMA ClosingAgrees ==
  ASSUME PayInv, NEW c \in Calls, call[c].at = "settle"
  PROVE  /\ Closing(c).store = Closed(c)
         /\ Reply[Closing(c).answer] = IF call[c].outcome = "succeeded" THEN "paid" ELSE "declined"
<1>1. attempt[call[c].id].status = "initiated" /\ call[c].outcome \in {"succeeded", "failed"}
  BY DEF PayInv, CallMeetsItsRow, Settled
<1>2. /\ Closing(c).answer = call[c].outcome
      /\ Closing(c).store = [attempt EXCEPT ![call[c].id].status = call[c].outcome]
  BY <1>1 DEF Closing, Memory!Settle, Memory!Found, Memory!IsSettled
<1>3. QED
  BY <1>1, <1>2 DEF Reply, Closed

(* Whatever other calls do between a call's statements, it is answered and *)
(* stored what the map of the fast tests, asked in one piece, would have.  *)
THEOREM AttemptsAgree == PaySpec => AgreesWithMemoryAttempts
<1> DEFINE Agreed(c) ==
             /\ call[c].at = "lookUp" /\ call'[c].answer \notin {"none", "error"} =>
                  Begun(c).answer \in DOMAIN Reply /\ call'[c].answer = Reply[Begun(c).answer]
             /\ call[c].at = "insert" /\ attempt' # attempt =>
                  Begun(c).answer = "opened" /\ attempt' = Begun(c).store
             /\ call[c].at = "settle" /\ attempt' # attempt => attempt' = Closing(c).store
             /\ call[c].at = "settle" /\ call'[c].answer \notin {"none", "error"} =>
                  call'[c].answer = Reply[Closing(c).answer]
<1>1. ASSUME PayInv, Unanswered, [PayNext]_payVars, NEW c \in Calls, call'[c] # call[c]
      PROVE  Agreed(c)
  <2>1. call \in [Calls -> Call]
    BY <1>1 DEF PayInv, PayTypeOK
  <2>2. CASE LookUp(c)
    <3>1. /\ call[c].at = "lookUp"
          /\ \/ call'[c].answer = call[c].answer
             \/ \E i \in Keyed(call[c].booking, call[c].key) :
                  call'[c].answer = ReplayOf(attempt[i], call[c].amount)
      BY <2>1, <2>2 DEF LookUp, Answer, Call
    <3>2. call[c].answer = "none"
      BY <1>1, <3>1 DEF Unanswered
    <3>3. QED
      BY <1>1, <3>1, <3>2, ReplayAgrees
  <2>3. CASE Insert(c)
    <3>1. /\ call[c].at = "insert"
          /\ attempt' # attempt => attempt' = Opened(c) /\ Keyed(call[c].booking, call[c].key) = {}
      BY <2>3 DEF Insert
    <3>2. QED
      BY <1>1, <3>1, OpeningAgrees
  <2>4. CASE Charge(c) \/ Collect(c)
    BY <2>4 DEF Charge, Collect
  <2>5. CASE Settle(c)
    <3>1. call[c].at = "settle" /\ attempt[call[c].id].status = "initiated"
      BY <1>1, <2>5 DEF Settle, PayInv, CallMeetsItsRow
    <3>2. /\ attempt' = Closed(c)
          /\ call'[c].answer = IF call[c].outcome = "succeeded" THEN "paid" ELSE "declined"
      BY <2>1, <2>5, <3>1 DEF Settle, Answer, Call
    <3>3. QED
      BY <1>1, <3>1, <3>2, ClosingAgrees
  <2>6. CASE Break(c)
    <3>1. call'[c].answer = "error"
      BY <2>1, <2>6 DEF Break, Answer, Call
    <3>2. attempt' # attempt =>
            \/ call[c].at = "insert" /\ Keyed(call[c].booking, call[c].key) = {} /\ attempt' = Opened(c)
            \/ call[c].at = "settle" /\ attempt' = Closed(c)
      BY <2>6 DEF Break
    <3>3. QED
      BY <1>1, <3>1, <3>2, OpeningAgrees, ClosingAgrees
  <2>7. ASSUME NEW b \in Bookings, NEW k \in Keys, NEW a \in Amounts, OpenPay(c, b, k, a)
        PROVE  Agreed(c)
    BY <2>7 DEF OpenPay
  <2>8. ASSUME NEW d \in Calls, d # c,
               \/ PayStep(d) \/ Collect(d)
               \/ \E b \in Bookings, k \in Keys, a \in Amounts : OpenPay(d, b, k, a)
        PROVE  call'[c] = call[c]
    BY <2>1, <2>8 DEF PayStep, LookUp, Insert, Charge, Settle, Break, Answer, Collect, OpenPay
  <2>9. QED
    BY <1>1, <2>2, <2>3, <2>4, <2>5, <2>6, <2>7, <2>8
       DEF PayNext, payVars, PayStep, RefundStep, OpenRefund, FindSettled, SendBack, BreakRefund,
           CollectRefund
<1>2. PayInv /\ Unanswered /\ [PayNext]_payVars =>
        [\A c \in Calls : call'[c] # call[c] => Agreed(c)]_payVars
  BY <1>1
<1>3. PayInit => Unanswered
  BY DEF PayInit, NoCall, Unanswered
<1>4. QED
  BY <1>2, <1>3, UnansweredStep, Invariance, PTL DEF PaySpec, AgreesWithMemoryAttempts
=============================================================================
