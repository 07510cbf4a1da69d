--------------------------- MODULE MemoryAttempts ---------------------------
(***************************************************************************)
(* The in-memory repository of payment attempts the fast tests run         *)
(* against: every operation in one piece under one mutex.  An attempt the  *)
(* map has no entry for is one whose status is "absent".                   *)
(***************************************************************************)
CONSTANTS Ids

Found(attempts, i) == attempts[i].status # "absent"
IsSettled(stored) == stored.status \in {"succeeded", "failed"}

AttemptByKey(attempts, b, k) ==
  {i \in Ids : Found(attempts, i) /\ attempts[i].booking = b /\ attempts[i].key = k}

(* The stored attempt a replay is answered with, or the one that is new.   *)
Begin(attempts, id, b, k, amount) ==
  LET stored == AttemptByKey(attempts, b, k) IN
  IF stored = {}
  THEN [answer |-> "opened",
        store |-> [attempts EXCEPT ![id] = [status |-> "initiated", booking |-> b,
                                            key |-> k, amount |-> amount]]]
  ELSE [answer |-> IF \E i \in stored : attempts[i].amount # amount THEN "conflict"
                   ELSE attempts[CHOOSE i \in stored : TRUE].status,
        store |-> attempts]

Settle(attempts, id, status) ==
  IF ~Found(attempts, id) THEN [answer |-> "ErrAttemptNotFound", store |-> attempts]
  ELSE IF IsSettled(attempts[id]) THEN [answer |-> "ErrAlreadySettled", store |-> attempts]
  ELSE [answer |-> status, store |-> [attempts EXCEPT ![id].status = status]]
=============================================================================
