------------------------------ MODULE Session ------------------------------
(***************************************************************************)
(* The browser half of a session, over the server half: one cookie jar,    *)
(* the tabs that share it, the api client of each tab with its single      *)
(* refresh and its single retry, and what the tab shows.                   *)
(***************************************************************************)
EXTENDS RefreshTokens

CONSTANTS
  Tabs,         (* Each tab has one refresh coordinator; it is a slot.     *)
  Calls,        (* Calls of the api client; each is a slot.                *)
  TabOf,        (* [Calls -> Tabs]                                         *)
  MaxCalls      (* Bound: how many calls are started.                      *)

ASSUME SessionAssumption ==
  /\ Slots = Calls \union Tabs
  /\ Calls \intersect Tabs = {}
  /\ TabOf \in [Calls -> Tabs]
  /\ MaxCalls \in Nat

VARIABLES
  jar,          (* The two cookies, and when the browser drops each.       *)
  reached,      (* Token pairs whose cookies have reached the jar.         *)
  screen,       (* What each tab shows: signed in, out, or ended on it.    *)
  call,         (* Where each call of the api client stands.               *)
  started       (* How many calls were started, for the bound.             *)

vars == <<clock, row, lock, denied, req, jar, reached, screen, call, started>>

EmptyJar == [access |-> None, accessEnd |-> 0, refresh |-> None, refreshEnd |-> 0]

(* read: any call of a signed-in screen.  me: the read after a sign in.    *)
(* restore: the same read on a page load, which reports nothing.           *)
NoCall == [kind |-> "none", at |-> "idle", on |-> None]

Call == [kind : {"none", "read", "me", "restore", "login", "logout"},
         at : {"idle", "asked", "waiting", "retried"}, on : Slots \union {None}]

SessionTypeOK ==
  /\ ServerTypeOK
  /\ jar \in [access : Tokens \union {None}, accessEnd : Nat,
              refresh : Tokens \union {None}, refreshEnd : Nat]
  /\ reached \subseteq Tokens
  /\ screen \in [Tabs -> {"in", "out", "ended"}]
  /\ call \in [Calls -> Call]
  /\ started \in 0 .. MaxCalls

Init ==
  /\ ServerInit
  /\ jar = EmptyJar
  /\ reached = {}
  /\ screen = [tab \in Tabs |-> "out"]
  /\ call = [c \in Calls |-> NoCall]
  /\ started = 0
-----------------------------------------------------------------------------
(* A cookie is attached to a request until its Max-Age has run out.        *)
AccessCookie(cookies) == IF clock < cookies.accessEnd THEN cookies.access ELSE None
RefreshCookie(cookies) == IF clock < cookies.refreshEnd THEN cookies.refresh ELSE None

(* The refresh cookie only travels under the auth group.                   *)
Sent(kind, cookies) ==
  Arrived(kind, AccessCookie(cookies),
          IF kind \in {"refresh", "logout"} THEN RefreshCookie(cookies) ELSE None)

(* What an answer does to the jar.  Max-Age counts from its arrival.       *)
JarAfter(answer) ==
  CASE answer.cookies = "write" ->
         [access |-> answer.token, accessEnd |-> clock + answer.accessAge,
          refresh |-> answer.token, refreshEnd |-> clock + answer.refreshAge]
    [] answer.cookies = "clear" -> EmptyJar
    [] OTHER                    -> jar

Store(answer) ==
  /\ jar' = JarAfter(answer)
  /\ reached' = IF answer.cookies = "write" THEN reached \union {answer.token} ELSE reached

(* The codes the client turns into the SignedOut kind.                     *)
SignedOut == {"token_expired", "token_invalid", "token_reused"}

TabOfSlot(r) == IF r \in Tabs THEN r ELSE TabOf[r]

Show(tab, what) == screen' = [screen EXCEPT ![tab] = what]
-----------------------------------------------------------------------------
Start(c, kind, request) ==
  /\ call[c].at = "idle"
  /\ started < MaxCalls
  /\ started' = started + 1
  /\ call' = [call EXCEPT ![c] = [NoCall EXCEPT !.kind = kind, !.at = "asked"]]
  /\ req' = [req EXCEPT ![c] = Sent(request, jar)]
  /\ UNCHANGED <<clock, row, lock, denied, jar, reached, screen>>

Busy(tab, kinds) == \E c \in Calls : TabOf[c] = tab /\ call[c].kind \in kinds

StartRead(c) ==
  /\ screen[TabOf[c]] = "in"
  /\ Start(c, "read", "read")

(* A page load asks who is signed in, before anything else is asked.       *)
StartRestore(c) ==
  /\ screen[TabOf[c]] # "in"
  /\ ~Busy(TabOf[c], {"read", "me", "restore", "login", "logout"})
  /\ Start(c, "restore", "read")

(* The form does not submit twice, and the sign out control is disabled    *)
(* while it runs.                                                          *)
StartLogIn(c) ==
  /\ screen[TabOf[c]] # "in"
  /\ ~Busy(TabOf[c], {"login", "me"})
  /\ Start(c, "login", "login")

StartLogOut(c) ==
  /\ screen[TabOf[c]] = "in"
  /\ ~Busy(TabOf[c], {"logout"})
  /\ Start(c, "logout", "logout")
-----------------------------------------------------------------------------
Settled(c) ==
  /\ call' = [call EXCEPT ![c] = NoCall]
  /\ req' = [req EXCEPT ![c] = NoRequest]

(* Mutation: every call that finds the token expired refreshes on its own. *)
AskOwnRefresh(c) ==
  /\ call' = [call EXCEPT ![c].at = "waiting", ![c].on = c]
  /\ req' = [req EXCEPT ![c] = Sent("refresh", jar)]

(* The coordinator: one refresh, shared by every call waiting on it.       *)
AskRefresh(c) ==
  LET tab == TabOf[c] IN
  /\ call' = [call EXCEPT ![c].at = "waiting", ![c].on = tab]
  /\ req' = [req EXCEPT ![c] = NoRequest,
                        ![tab] = IF @.at = "idle" THEN Sent("refresh", jar) ELSE @]

(* An answered read: once more after a refresh if the token aged out, and  *)
(* the session is reported as over on any other refusal of the token.      *)
ReceiveRead(c) ==
  LET tab == TabOf[c]
      answer == req[c].answer
  IN
  /\ req[c].at = "answered"
  /\ req[c].kind = "read"
  /\ IF answer = "token_expired" /\ call[c].at = "asked"
     THEN AskRefresh(c) /\ UNCHANGED screen
     ELSE /\ Settled(c)
          /\ CASE answer = "ok" /\ call[c].kind \in {"me", "restore"} -> Show(tab, "in")
               [] answer \in SignedOut /\ call[c].kind # "restore"    -> Show(tab, "ended")
               [] OTHER                                               -> UNCHANGED screen
  /\ UNCHANGED <<clock, row, lock, denied, jar, reached, started>>

(* The shared refresh settles: every call waiting on it sends its retry,   *)
(* or fails with it.  A session that is over is reported once.             *)
ReceiveRefresh(r) ==
  LET answer == req[r]
      waiters == {c \in Calls : call[c].at = "waiting" /\ call[c].on = r}
  IN
  /\ answer.at = "answered"
  /\ answer.kind = "refresh"
  /\ Store(answer)
  /\ IF answer.answer = "ok"
     THEN /\ call' = [c \in Calls |-> IF c \in waiters
                        THEN [call[c] EXCEPT !.at = "retried", !.on = None] ELSE call[c]]
          /\ req' = [x \in Slots |-> IF x \in waiters THEN Sent("read", JarAfter(answer))
                                     ELSE IF x = r THEN NoRequest ELSE req[x]]
          /\ UNCHANGED screen
     ELSE /\ call' = [c \in Calls |-> IF c \in waiters THEN NoCall ELSE call[c]]
          /\ req' = [req EXCEPT ![r] = NoRequest]
          /\ IF answer.answer \in SignedOut THEN Show(TabOfSlot(r), "ended") ELSE UNCHANGED screen
  /\ UNCHANGED <<clock, row, lock, denied, started>>

(* A sign in that was accepted goes on to ask who that is.                 *)
ReceiveLogIn(c) ==
  /\ req[c].at = "answered"
  /\ req[c].kind = "login"
  /\ Store(req[c])
  /\ IF req[c].answer = "ok"
     THEN /\ call' = [call EXCEPT ![c].kind = "me"]
          /\ req' = [req EXCEPT ![c] = Sent("read", JarAfter(req[c]))]
     ELSE Settled(c)
  /\ UNCHANGED <<clock, row, lock, denied, screen, started>>

(* A requested sign out clears the screen whatever the api answered.       *)
ReceiveLogOut(c) ==
  /\ req[c].at = "answered"
  /\ req[c].kind = "logout"
  /\ Store(req[c])
  /\ Settled(c)
  /\ Show(TabOf[c], "out")
  /\ UNCHANGED <<clock, row, lock, denied, started>>
-----------------------------------------------------------------------------
ClientVars == <<jar, reached, screen, call, started>>

Receive(r) ==
  \/ ReceiveRefresh(r)
  \/ r \in Calls /\ (ReceiveRead(r) \/ ReceiveLogIn(r) \/ ReceiveLogOut(r))

Next ==
  \/ Tick /\ UNCHANGED ClientVars
  \/ \E c \in Calls : StartRead(c) \/ StartRestore(c) \/ StartLogIn(c) \/ StartLogOut(c)
  \/ \E r \in Slots :
       \/ Receive(r)
       \/ (ServerStep(r) \/ LockStep(r) \/ Failure(r)) /\ UNCHANGED ClientVars

Spec == Init /\ [][Next]_vars

(* A handler runs to its end, the browser hands over what arrives, and     *)
(* Postgres serves the waiters of a row in order.                          *)
Fairness ==
  \A r \in Slots :
    /\ WF_vars(ServerStep(r) /\ UNCHANGED ClientVars)
    /\ SF_vars(LockStep(r) /\ UNCHANGED ClientVars)
    /\ WF_vars(Receive(r))

FairSpec == Spec /\ Fairness
-----------------------------------------------------------------------------
(* An access token a sign out has withdrawn is never admitted again while  *)
(* it would still verify: the denylist entry outlives the signature.       *)
WithdrawnIsRefused ==
  [][\A r \in Slots :
       /\ req[r].at = "denylist"
       /\ req'[r].at = "withdraw" \/ req'[r].answer = "ok"
       /\ ~AccessExpired(req[r].access, clock)
       => denied[req[r].access] = 0]_vars

(* A tab whose refresh was answered never presents the spent token again,  *)
(* however many of its calls found the access token expired: a token found *)
(* spent was spent by another tab, or its successor never arrived, or a    *)
(* sign out ended it.  Reuse would end the whole family.                   *)
OwnRefreshIsNoReuse ==
  [][\A r \in Slots :
       req[r].at = "lock" /\ req'[r].at = "family" =>
         LET heir == row[req[r].refresh].heir IN
         \/ heir = None
         \/ TabOfSlot(row[heir].by) # TabOfSlot(r)
         \/ heir \notin reached]_vars

(* Every call of the api client comes back, with an answer or a failure:   *)
(* none is left waiting on a refresh that has settled or on a row lock.    *)
EveryCallSettles ==
  \A c \in Calls : call[c].at # "idle" ~> call[c].at = "idle"

-----------------------------------------------------------------------------
(***************************************************************************)
(* What the documentation says, and the two halves together do not keep:   *)
(* the browser drops the access cookie no later than its token expires, a  *)
(* request without it is token_invalid, and only token_expired refreshes.  *)
(***************************************************************************)
WouldBeAccepted(p) == p # None /\ IsLive(p) /\ ~RefreshExpired(p, clock)

(* "The long one is how long a parent stays signed in across visits": no   *)
(* tab is told the session ended while the jar holds a refresh token that  *)
(* would still be accepted.                                                *)
StaysSignedIn ==
  [][\A tab \in Tabs :
       screen[tab] = "in" /\ screen'[tab] = "ended" =>
         ~WouldBeAccepted(RefreshCookie(jar'))]_vars

(* "Ends the session everywhere": a sign out that the api answered leaves  *)
(* no refresh token in the jar that would still be accepted.               *)
SignOutEndsTheSession ==
  [][\A c \in Calls :
       call[c].kind = "logout" /\ call'[c].kind = "none" /\ req[c].answer # "lost" =>
         ~WouldBeAccepted(RefreshCookie(jar'))]_vars

(* "The whole family is revoked by the time" a reuse is reported: the      *)
(* update misses the successor that a rotation has not committed yet.      *)
ReuseEndsTheFamily ==
  [][\A r \in Slots :
       req[r].at = "revoke" /\ req'[r].answer = "token_reused" =>
         \A p \in Tokens :
           row'[p].family = row[req[r].refresh].family => row'[p].state # "live"]_vars
=============================================================================
