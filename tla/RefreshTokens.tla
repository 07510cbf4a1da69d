--------------------------- MODULE RefreshTokens ---------------------------
(***************************************************************************)
(* The server half of a session: the refresh token table in Postgres, the  *)
(* denylist of withdrawn access tokens, and the four handlers - log in,    *)
(* refresh, log out and an authenticated read - statement by statement.    *)
(*                                                                         *)
(* A refresh token and the access token signed with it are one member of   *)
(* Tokens: the server only ever mints them together.  Signatures, password *)
(* work and encodings are choices of the environment: a cookie holds a     *)
(* token this service signed or nothing.                                   *)
(***************************************************************************)
EXTENDS Integers

CONSTANTS
  Slots,        (* What may have a request under way: calls and refreshes. *)
  Tokens,       (* Token pairs, each minted once.                          *)
  AccessTTL, RefreshTTL,
  MaxTime,      (* Bound: the clock stops here.                            *)
  None

ASSUME TokensAssumption ==
  /\ AccessTTL \in Nat \ {0}
  /\ RefreshTTL \in Nat \ {0}
  /\ MaxTime \in Nat
  /\ None \notin Slots \union Tokens

VARIABLES
  clock,        (* The wall clock of the service and of the browser.       *)
  row,          (* refresh_tokens as committed.                            *)
  lock,         (* Which request holds each row FOR UPDATE.                *)
  denied,       (* Until when each access token is on the denylist.        *)
  req           (* The request of each slot, from the wire to its answer.  *)

serverVars == <<clock, row, lock, denied, req>>

(* signed: when the access token of the pair expires, 0 if none was signed.*)
(* heir: the token this one was spent for.  by: the slot it was minted for.*)
NoToken == [state |-> "absent", family |-> None, expires |-> 0, signed |-> 0,
            heir |-> None, by |-> None]

TokenRow == [state : {"absent", "live", "revoked"}, family : Tokens \union {None},
             expires : Nat, signed : Nat,
             heir : Tokens \union {None}, by : Slots \union {None}]

Kind == {"login", "refresh", "logout", "read"}

Stage == {"verify", "denylist", "withdraw", "family", "revoke",
          "begin", "lock", "rotate", "issue", "sign"}

Code == {"ok", "token_expired", "token_invalid", "token_reused",
         "invalid_request", "internal_error", "lost"}

NoRequest == [kind |-> "none", at |-> "idle", access |-> None, refresh |-> None,
              token |-> None, now |-> 0, targets |-> {}, answer |-> "none",
              cookies |-> "keep", accessAge |-> 0, refreshAge |-> 0]

Request == [kind : Kind \union {"none"}, at : Stage \union {"idle", "answered"},
            access : Tokens \union {None}, refresh : Tokens \union {None},
            token : Tokens \union {None}, now : Nat, targets : SUBSET Tokens,
            answer : Code \union {"none"}, cookies : {"keep", "write", "clear"},
            accessAge : Nat, refreshAge : Nat]

ServerTypeOK ==
  /\ clock \in Nat
  /\ row \in [Tokens -> TokenRow]
  /\ lock \in [Tokens -> Slots \union {None}]
  /\ denied \in [Tokens -> Nat]
  /\ req \in [Slots -> Request]

ServerInit ==
  /\ clock = 0
  /\ row = [p \in Tokens |-> NoToken]
  /\ lock = [p \in Tokens |-> None]
  /\ denied = [p \in Tokens |-> 0]
  /\ req = [r \in Slots |-> NoRequest]
-----------------------------------------------------------------------------
IsLive(p) == row[p].state = "live"

(* Both lives end at their instant, not after it.                          *)
RefreshExpired(p, now) == now >= row[p].expires
AccessExpired(p, now) == now >= row[p].signed

(* Redis forgets a withdrawn token at the instant its signature stops      *)
(* verifying.  The lookup compares with no instant of its own.             *)
IsDenied(p) == clock < denied[p]

LiveInFamily(p) == {q \in Tokens : IsLive(q) /\ row[q].family = row[p].family}

Unminted == {p \in Tokens : row[p].state = "absent"
                            /\ \A r \in Slots : req[r].token # p}

Arrived(kind, access, refresh) ==
  [NoRequest EXCEPT !.kind = kind, !.access = access, !.refresh = refresh,
     !.at = CASE kind = "login"   -> "issue"
              [] kind = "refresh" -> "begin"
              [] OTHER            -> "verify"]

To(r, stage) == req' = [req EXCEPT ![r].at = stage]

(* Deny and Clear: a refused refresh, and a sign out that got as far as    *)
(* its handler, take both cookies off whatever the code.                   *)
Answered(r, code) ==
  [NoRequest EXCEPT !.kind = req[r].kind, !.at = "answered", !.answer = code]

Refuse(r, code) ==
  req' = [req EXCEPT ![r] =
            [Answered(r, code) EXCEPT
               !.cookies = IF \/ req[r].kind = "refresh"
                              \/ req[r].at \in {"withdraw", "family", "revoke"}
                           THEN "clear" ELSE "keep"]]

GiveBackLocks(r) == lock' = [p \in Tokens |-> IF lock[p] = r THEN None ELSE lock[p]]
-----------------------------------------------------------------------------
(* Guard.Authenticate: the cookie and the signature first, at the instant  *)
(* the request read the clock.                                             *)
Verify(r) ==
  /\ req[r].at = "verify"
  /\ CASE req[r].access = None                 -> Refuse(r, "token_invalid")
       [] req[r].access # None /\ AccessExpired(req[r].access, clock)
                                               -> Refuse(r, "token_expired")
       [] OTHER                                -> To(r, "denylist")
  /\ UNCHANGED <<clock, row, lock, denied>>

Admit(r) ==
  req' = IF req[r].kind = "logout"
         THEN [req EXCEPT ![r].at = "withdraw"]
         ELSE [req EXCEPT ![r] = Answered(r, "ok")]

(* Then the denylist, a round trip later.                                  *)
CheckDenylist(r) ==
  /\ req[r].at = "denylist"
  /\ IF IsDenied(req[r].access) THEN Refuse(r, "token_invalid") ELSE Admit(r)
  /\ UNCHANGED <<clock, row, lock, denied>>

(* A denylist that cannot be reached refuses.                              *)
DenylistUnreachable(r) ==
  /\ req[r].at \in {"denylist", "withdraw"}
  /\ Refuse(r, "token_invalid")
  /\ UNCHANGED <<clock, row, lock, denied>>
-----------------------------------------------------------------------------
(* Mutation: the entry is written for one tick less than the token lives.  *)
WithdrawShort(r) ==
  LET p == req[r].access IN
  /\ req[r].at = "withdraw"
  /\ denied' = [denied EXCEPT ![p] = row[p].signed - 1]
  /\ IF req[r].refresh = None THEN Refuse(r, "ok") ELSE To(r, "family")
  /\ UNCHANGED <<clock, row, lock>>

(* LogOut withdraws the access token before it looks at the family.        *)
Withdraw(r) ==
  LET p == req[r].access IN
  /\ req[r].at = "withdraw"
  /\ denied' = IF AccessExpired(p, clock) THEN denied
               ELSE [denied EXCEPT ![p] = row[p].signed]
  /\ IF req[r].refresh = None THEN Refuse(r, "ok") ELSE To(r, "family")
  /\ UNCHANGED <<clock, row, lock>>

(* The update that ends a family picks the rows that are live as it        *)
(* starts; a successor another transaction has not committed is not among  *)
(* them.                                                                   *)
StartRevoke(r) ==
  /\ req[r].at = "family"
  /\ req' = [req EXCEPT ![r].at = "revoke",
                        ![r].targets = LiveInFamily(req[r].refresh)]
  /\ UNCHANGED <<clock, row, lock, denied>>

(* It waits for the rows it picked, looks at each again, and commits.      *)
Revoke(r) ==
  /\ req[r].at = "revoke"
  /\ \A p \in req[r].targets : lock[p] \in {None, r}
  /\ row' = [p \in Tokens |-> IF p \in req[r].targets
                              THEN [row[p] EXCEPT !.state = "revoked"] ELSE row[p]]
  /\ GiveBackLocks(r)
  /\ Refuse(r, IF req[r].kind = "logout" THEN "ok" ELSE "token_reused")
  /\ UNCHANGED <<clock, denied>>
-----------------------------------------------------------------------------
(* Refresh reads the clock and mints the successor before it opens the     *)
(* transaction.  When no identifier is left the minting fails (bound).     *)
BeginRefresh(r) ==
  /\ req[r].at = "begin"
  /\ IF req[r].refresh = None THEN Refuse(r, "invalid_request")
     ELSE IF Unminted = {} THEN Refuse(r, "internal_error")
     ELSE \E p \in Unminted :
            req' = [req EXCEPT ![r].at = "lock", ![r].token = p, ![r].now = clock]
  /\ UNCHANGED <<clock, row, lock, denied>>

(* Mutation: the presented row is judged without FOR UPDATE.               *)
JudgeUnlocked(r) ==
  LET p == req[r].refresh IN
  /\ req[r].at = "lock"
  /\ CASE ~IsLive(p)                                    -> To(r, "family")
       [] IsLive(p) /\ RefreshExpired(p, req[r].now)    -> Refuse(r, "token_expired")
       [] OTHER                                         -> To(r, "rotate")
  /\ UNCHANGED <<clock, row, lock, denied>>

(* Mutation: the refusal of an expired token leaves the transaction open.  *)
JudgeLeftOpen(r) ==
  LET p == req[r].refresh IN
  /\ req[r].at = "lock"
  /\ lock[p] = None
  /\ lock' = [lock EXCEPT ![p] = r]
  /\ CASE ~IsLive(p) -> To(r, "family")
       [] IsLive(p) /\ RefreshExpired(p, req[r].now) -> Refuse(r, "token_expired")
       [] OTHER      -> To(r, "rotate")
  /\ UNCHANGED <<clock, row, denied>>

(* The presented row, FOR UPDATE, and the judgement on it.                 *)
LockAndJudge(r) ==
  LET p == req[r].refresh
      refused == IsLive(p) /\ RefreshExpired(p, req[r].now)
  IN
  /\ req[r].at = "lock"
  /\ lock[p] = None
  /\ IF refused THEN UNCHANGED lock ELSE lock' = [lock EXCEPT ![p] = r]
  /\ CASE ~IsLive(p) -> To(r, "family")                   (* reuse         *)
       [] refused    -> Refuse(r, "token_expired")
       [] OTHER      -> To(r, "rotate")
  /\ UNCHANGED <<clock, row, denied>>

Minted(r, family) ==
  [state |-> "live", family |-> family, expires |-> req[r].now + RefreshTTL,
   signed |-> 0, heir |-> None, by |-> r]

(* The presented token is spent and its successor written, in one commit.  *)
Rotate(r) ==
  LET p == req[r].refresh
      q == req[r].token
  IN
  /\ req[r].at = "rotate"
  /\ row' = [row EXCEPT ![p].state = "revoked", ![p].heir = q,
                        ![q] = Minted(r, row[p].family)]
  /\ GiveBackLocks(r)
  /\ To(r, "sign")
  /\ UNCHANGED <<clock, denied>>

(* LogIn starts a family, or refuses the address and the password.         *)
Issue(r) ==
  /\ req[r].at = "issue"
  /\ \E p \in Unminted :
       /\ row' = [row EXCEPT ![p] = [Minted(r, p) EXCEPT !.expires = clock + RefreshTTL]]
       /\ req' = [req EXCEPT ![r].at = "sign", ![r].token = p, ![r].now = clock]
  /\ UNCHANGED <<clock, lock, denied>>

RefuseLogIn(r) ==
  /\ req[r].at = "issue"
  /\ Refuse(r, "invalid_request")
  /\ UNCHANGED <<clock, row, lock, denied>>

(* The Max-Age of a cookie; a deadline already reached drops it at once.   *)
SecondsUntil(deadline) == IF clock < deadline THEN deadline - clock ELSE 0

(* The access token is signed for the instant the request began, and each  *)
(* cookie is given the time its token has left.                            *)
Sign(r) ==
  LET p == req[r].token IN
  /\ req[r].at = "sign"
  /\ row' = [row EXCEPT ![p].signed = req[r].now + AccessTTL]
  /\ req' = [req EXCEPT ![r] =
               [Answered(r, "ok") EXCEPT !.cookies = "write", !.token = p,
                  !.accessAge = SecondsUntil(req[r].now + AccessTTL),
                  !.refreshAge = SecondsUntil(row[p].expires)]]
  /\ UNCHANGED <<clock, lock, denied>>
-----------------------------------------------------------------------------
(* A statement fails, or the account cannot be read: the transaction that  *)
(* is open is rolled back.  What was committed before stays.               *)
Fault(r) ==
  /\ req[r].at \in {"family", "revoke", "lock", "rotate", "issue", "sign"}
  /\ GiveBackLocks(r)
  /\ Refuse(r, "internal_error")
  /\ UNCHANGED <<clock, row, denied>>

(* The answer is lost on its way.  A request that never arrived, or whose  *)
(* process died under it, is a fault whose answer is lost.                 *)
Lose(r) ==
  /\ req[r].at = "answered"
  /\ req[r].answer # "lost"
  /\ req' = [req EXCEPT ![r] = Answered(r, "lost")]
  /\ UNCHANGED <<clock, row, lock, denied>>

Tick ==
  /\ clock < MaxTime
  /\ clock' = clock + 1
  /\ UNCHANGED <<row, lock, denied, req>>

ServerStep(r) ==
  \/ Verify(r) \/ CheckDenylist(r) \/ Withdraw(r) \/ StartRevoke(r)
  \/ BeginRefresh(r) \/ Rotate(r) \/ Issue(r) \/ RefuseLogIn(r) \/ Sign(r)

LockStep(r) == LockAndJudge(r) \/ Revoke(r)

Failure(r) == DenylistUnreachable(r) \/ Fault(r) \/ Lose(r)
-----------------------------------------------------------------------------
(* At most one link of a chain is live: "there is only ever one live link  *)
(* in the chain".  Two refreshes that present the same token race for it,  *)
(* and a family that is being ended races a rotation of it.                *)
OneLiveTokenPerFamily ==
  \A p, q \in Tokens :
    IsLive(p) /\ IsLive(q) /\ row[p].family = row[q].family => p = q
=============================================================================
