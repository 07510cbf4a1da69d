-------------------------- MODULE PaymentAgreement --------------------------
(***************************************************************************)
(* The two implementations of the payment repository side by side: the     *)
(* table with its unique index, looked up and written in separate          *)
(* statements by calls that race, and the map of the fast tests.           *)
(***************************************************************************)
EXTENDS Payments

Memory == INSTANCE MemoryAttempts

(* What the map makes of a call, now.                                      *)
Begun(c) == Memory!Begin(attempt, call[c].id, call[c].booking, call[c].key, call[c].amount)
Closing(c) == Memory!Settle(attempt, call[c].id, call[c].outcome)

(* What Pay says of the attempt it is handed back.                         *)
Reply == [conflict |-> "conflict", initiated |-> "pending", succeeded |-> "paid", failed |-> "declined"]

(* Looking a key up and writing its attempt are two statements with other  *)
(* calls between them, and a call may break off before or after either     *)
(* took effect; yet whatever is answered, or stored, is what the map would *)
(* have answered or stored had it been asked in one piece, then.           *)
AgreesWithMemoryAttempts ==
  [][\A c \in Calls : call'[c] # call[c] =>
       /\ call[c].at = "lookUp" /\ call'[c].answer \notin {"none", "error"} =>
            Begun(c).answer \in DOMAIN Reply /\ call'[c].answer = Reply[Begun(c).answer]
       /\ call[c].at = "insert" /\ attempt' # attempt =>
            Begun(c).answer = "opened" /\ attempt' = Begun(c).store
       /\ call[c].at = "settle" /\ attempt' # attempt => attempt' = Closing(c).store
       /\ call[c].at = "settle" /\ call'[c].answer \notin {"none", "error"} =>
            call'[c].answer = Reply[Closing(c).answer]]_payVars
=============================================================================
