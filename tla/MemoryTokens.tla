---------------------------- MODULE MemoryTokens ----------------------------
(***************************************************************************)
(* The in-memory refresh store and the in-memory denylist the fast tests   *)
(* run against: every operation in one piece under one mutex.  A token the *)
(* map has no entry for is one whose state is "absent".                    *)
(***************************************************************************)
EXTENDS Integers

CONSTANTS Tokens

Found(tokens, p) == tokens[p].state # "absent"
IsRevoked(stored) == stored.state = "revoked"
IsExpired(stored, now) == now >= stored.expires

revokeFamily(tokens, family) ==
  [p \in Tokens |-> IF tokens[p].family = family /\ tokens[p].state = "live"
                    THEN [tokens[p] EXCEPT !.state = "revoked"] ELSE tokens[p]]

insert(tokens, q, record) ==
  IF Found(tokens, q) THEN [answer |-> "ErrDuplicateToken", store |-> tokens]
  ELSE [answer |-> "stored", store |-> [tokens EXCEPT ![q] = record]]

Issue(tokens, q, expiresAt) ==
  insert(tokens, q, [state |-> "live", family |-> q, expires |-> expiresAt])

(* A duplicate successor is refused with the presented token spent: the    *)
(* map has nothing to roll back.                                           *)
Rotate(tokens, p, now, q, nextExpiresAt) ==
  IF ~Found(tokens, p) THEN [answer |-> "ErrTokenNotFound", store |-> tokens]
  ELSE IF IsRevoked(tokens[p])
       THEN [answer |-> "ErrTokenReused", store |-> revokeFamily(tokens, tokens[p].family)]
  ELSE IF IsExpired(tokens[p], now) THEN [answer |-> "ErrTokenExpired", store |-> tokens]
  ELSE insert([tokens EXCEPT ![p].state = "revoked"], q,
              [state |-> "live", family |-> tokens[p].family, expires |-> nextExpiresAt])

RevokeFamily(tokens, family) == revokeFamily(tokens, family)

(* The denylist: an instant for every withdrawn token, 0 where there is    *)
(* none.  The lookup drops an entry whose instant has come.                *)
Deny(until, p, instant) == [until EXCEPT ![p] = instant]
IsDenied(until, p, now) == until[p] # 0 /\ now < until[p]
=============================================================================
