-------------------------- MODULE SessionAgreement --------------------------
(***************************************************************************)
(* The stores behind a session side by side: the refresh token table, whose*)
(* rotation locks, judges and writes among other transactions, and the     *)
(* Redis denylist, against the maps of the fast tests.                     *)
(***************************************************************************)
EXTENDS Session

Memory == INSTANCE MemoryTokens

Stored == [p \in Tokens |-> [state |-> row[p].state, family |-> row[p].family,
                             expires |-> row[p].expires]]

(* What the map makes of the refresh a request carries, now.               *)
Rotated(r) ==
  Memory!Rotate(Stored, req[r].refresh, req[r].now, req[r].token, req[r].now + RefreshTTL)

Opened(r) == Memory!Issue(Stored, req'[r].token, req'[r].now + RefreshTTL)

Ended(r) == Memory!RevokeFamily(Stored, row[req[r].refresh].family)

(* Where the judgement of each of the map's answers sends the transaction. *)
Verdict == [ErrTokenReused |-> "family", ErrTokenExpired |-> "answered", stored |-> "rotate"]

(* A refresh is judged and carried out in separate statements, with other  *)
(* refreshes, sign outs and sign ins between them; yet it is judged as the *)
(* map would judge it when its row is locked, the judgement still stands   *)
(* when the successor is written, and what is written is what the map would*)
(* have stored in one piece.  The rows an update of a family picks are the *)
(* ones the map would have ended then, and a token withdrawn in Redis is   *)
(* refused and believed at the instants the map of that process would      *)
(* refuse and believe it.                                                  *)
AgreesWithMemoryTokens ==
  [][/\ \A r \in Slots : req'[r] # req[r] =>
          /\ req[r].at = "lock" /\ req'[r].answer # "internal_error" =>
               Rotated(r).answer \in DOMAIN Verdict /\ req'[r].at = Verdict[Rotated(r).answer]
          /\ req[r].at = "rotate" /\ req'[r].at = "sign" =>
               Rotated(r).answer = "stored" /\ Stored' = Rotated(r).store
          /\ req[r].at = "issue" /\ req'[r].at = "sign" =>
               Opened(r).answer = "stored" /\ Stored' = Opened(r).store
          /\ req[r].at = "family" /\ req'[r].at = "revoke" =>
               req'[r].targets = {p \in Tokens : Ended(r)[p] # Stored[p]}
          /\ req[r].at = "withdraw" /\ req'[r].answer # "token_invalid" =>
               \A p \in Tokens, now \in clock .. MaxTime :
                 Memory!IsDenied(Memory!Deny(denied, req[r].access, row[req[r].access].signed), p, now)
                   = (now < denied'[p])]_vars
=============================================================================
