--------------------------- MODULE SessionProofs ---------------------------
(***************************************************************************)
(* What the two halves of a session promise each other, for any number of  *)
(* tabs, calls, tokens and sessions, and any lives of the tokens.          *)
(***************************************************************************)
EXTENDS SessionAgreement, TLAPS

USE TokensAssumption, SessionAssumption

-----------------------------------------------------------------------------
Exists(p) == row[p].state # "absent"

(* A request that mints, or brings a token the jar has not seen.           *)
InFlight(r) ==
  \/ req[r].at \in {"lock", "rotate", "sign"}
  \/ req[r].at = "answered" /\ req[r].cookies = "write"

(* What a handler may count on at each of its statements.                  *)
RequestFits(r) ==
  /\ req[r].kind = "refresh" => r \in Tabs
  /\ req[r].at \in {"begin", "lock", "rotate"} => req[r].kind = "refresh"
  /\ req[r].at \in {"denylist", "withdraw"} => req[r].access # None
  /\ req[r].at \in {"lock", "rotate", "family", "revoke"} => req[r].refresh # None
  /\ req[r].refresh \in reached \union {None}
  /\ req[r].at = "revoke" => \A p \in req[r].targets : Exists(p)

(* A token that is about to be minted exists nowhere; one that was minted  *)
(* names its slot, is signed once, and is in nobody's jar yet.             *)
MintFits(r) ==
  InFlight(r) =>
    /\ req[r].token # None /\ req[r].token \notin reached
    /\ IF req[r].at \in {"lock", "rotate"} THEN ~Exists(req[r].token)
       ELSE Exists(req[r].token) /\ row[req[r].token].by = r
    /\ req[r].at = "sign" => row[req[r].token].signed = 0

(* A judgement on a token stands until its successor is written, because   *)
(* its row is locked.                                                      *)
JudgementStands(r) ==
  req[r].at = "rotate" =>
    /\ lock[req[r].refresh] = r
    /\ IsLive(req[r].refresh) /\ ~RefreshExpired(req[r].refresh, req[r].now)

(* A tab that presents a token has not received a successor of its own.    *)
PresentsUnspent(r) ==
  req[r].at \in {"begin", "lock"} /\ req[r].refresh # None =>
    LET heir == row[req[r].refresh].heir IN
    heir = None \/ row[heir].by # r \/ heir \notin reached

TokensDiffer ==
  \A r, s \in Slots : r # s /\ InFlight(r) /\ InFlight(s) => req[r].token # req[s].token

LocksAreHeld ==
  \A p \in Tokens, r \in Slots :
    lock[p] = r => req[r].at \in {"rotate", "family", "revoke"} /\ req[r].refresh = p

(* A family is a token that exists; what a token was spent for exists, was *)
(* minted by a tab, and once it reached the jar the token is not in it.  A *)
(* token is denied for as long as it was signed, or not at all.            *)
RowFits(p) ==
  /\ ~Exists(p) => row[p] = NoToken /\ p \notin reached
  /\ Exists(p) => row[p].family # None /\ Exists(row[p].family)
  /\ row[p].heir # None =>
       /\ p \in reached /\ Exists(row[p].heir) /\ row[row[p].heir].by \in Tabs
       /\ row[p].heir \in reached => jar.refresh # p
  /\ denied[p] \in {0, row[p].signed}

JarFits == jar.refresh \in reached \union {None}

CallFits(c) == call[c].at \in {"idle", "waiting"} => req[c].at = "idle"

SessionInv ==
  /\ SessionTypeOK
  /\ \A r \in Slots : RequestFits(r) /\ MintFits(r) /\ JudgementStands(r) /\ PresentsUnspent(r)
  /\ TokensDiffer /\ LocksAreHeld
  /\ \A p \in Tokens : RowFits(p)
  /\ JarFits
  /\ \A c \in Calls : CallFits(c)
  /\ OneLiveTokenPerFamily

LEMMA SessionInit == Init => SessionInv
<1> SUFFICES ASSUME Init PROVE SessionInv
  OBVIOUS
<1> USE DEF Init, ServerInit
<1>1. SessionTypeOK
  BY DEF SessionTypeOK, ServerTypeOK, TokenRow, NoToken, Request, NoRequest, Kind, Stage, Code,
         EmptyJar, Call, NoCall
<1>2. \A r \in Slots : RequestFits(r) /\ MintFits(r) /\ JudgementStands(r) /\ PresentsUnspent(r)
  BY DEF RequestFits, MintFits, InFlight, JudgementStands, PresentsUnspent, NoRequest
<1>3. TokensDiffer /\ LocksAreHeld
  BY DEF TokensDiffer, InFlight, LocksAreHeld, NoRequest
<1>4. \A p \in Tokens : RowFits(p)
  BY DEF RowFits, Exists, NoToken
<1>5. JarFits /\ OneLiveTokenPerFamily /\ \A c \in Calls : CallFits(c)
  BY DEF JarFits, EmptyJar, OneLiveTokenPerFamily, IsLive, NoToken, CallFits, NoRequest
<1>6. QED
  BY <1>1, <1>2, <1>3, <1>4, <1>5 DEF SessionInv

-----------------------------------------------------------------------------
(* A statement that writes no row: request r moves on to what mints        *)
(* nothing, and may give its lock back or keep one.                        *)
Quiet(r) ==
  /\ req[r].at # "idle"
  /\ req'[r] \in Request /\ req' = [req EXCEPT ![r] = req'[r]]
  /\ req'[r].kind = req[r].kind /\ req'[r].refresh \in {None, req[r].refresh}
  /\ req'[r].at \in {"denylist", "withdraw", "family", "revoke", "answered"}
  /\ req'[r].at = "answered" => req'[r].cookies # "write"
  /\ req'[r].at \in {"denylist", "withdraw"} => req'[r].access # None
  /\ req'[r].at \in {"family", "revoke"} => req'[r].refresh # None
  /\ req'[r].at = "revoke" => \A p \in req'[r].targets : Exists(p)
  /\ lock' \in [Tokens -> Slots \union {None}]
  /\ \A p \in Tokens : \/ lock'[p] = lock[p] /\ lock[p] # r
                       \/ lock'[p] = None /\ lock[p] \in {None, r}
                       \/ /\ lock'[p] = r /\ lock[p] \in {None, r}
                          /\ req'[r].at \in {"family", "revoke"} /\ req'[r].refresh = p
  /\ \/ denied' = denied
     \/ \E p \in Tokens : denied' = [denied EXCEPT ![p] = row[p].signed]
  /\ UNCHANGED <<clock, row, ClientVars>>

LEMMA QuietStep ==
  ASSUME SessionInv, NEW r \in Slots, Quiet(r)
  PROVE  SessionInv'
<1> USE DEF SessionInv, ClientVars, Quiet
<1> DEFINE new == req'[r]
<1>0. req \in [Slots -> Request] /\ lock \in [Tokens -> Slots \union {None}]
  BY DEF SessionTypeOK, ServerTypeOK
<1>a. /\ denied' \in [Tokens -> Nat]
      /\ \A p \in Tokens : denied'[p] \in {denied[p], row[p].signed}
  BY DEF SessionTypeOK, ServerTypeOK, TokenRow
<1>1. SessionTypeOK'
  BY <1>0, <1>a DEF SessionTypeOK, ServerTypeOK
<1>2. req'[r] = new /\ \A s \in Slots \ {r} : req'[s] = req[s]
  BY <1>0
<1>3. ~InFlight(r)' /\ \A s \in Slots \ {r} : InFlight(s)' <=> InFlight(s)
  BY <1>2 DEF InFlight
<1>4. ASSUME NEW s \in Slots
      PROVE  RequestFits(s)' /\ MintFits(s)' /\ PresentsUnspent(s)'
  <2>1. CASE s = r
    <3>1. RequestFits(r)
      OBVIOUS
    <3>2. RequestFits(r)'
      BY <1>2, <3>1 DEF RequestFits, Exists
    <3>3. QED
      BY <1>2, <1>3, <2>1, <3>2 DEF MintFits, PresentsUnspent
  <2>2. CASE s # r
    <3>1. RequestFits(s) /\ MintFits(s) /\ PresentsUnspent(s)
      OBVIOUS
    <3>2. QED
      BY <1>2, <1>3, <2>2, <3>1 DEF RequestFits, MintFits, PresentsUnspent, Exists
  <2>3. QED
    BY <2>1, <2>2
<1>5. ASSUME NEW s \in Slots PROVE JudgementStands(s)'
  <2>1. CASE s = r
    BY <1>2, <2>1 DEF JudgementStands
  <2>2. CASE s # r /\ req[s].at = "rotate"
    <3>1. JudgementStands(s) /\ RequestFits(s)
      OBVIOUS
    <3>2. req[s].refresh \in Tokens /\ lock[req[s].refresh] = s /\ s # None
      BY <1>0, <2>2, <3>1 DEF JudgementStands, RequestFits, Request
    <3>3. lock'[req[s].refresh] = s
      BY <2>2, <3>2
    <3>4. QED
      BY <1>2, <2>2, <3>1, <3>3 DEF JudgementStands, IsLive, RefreshExpired
  <2>3. CASE s # r /\ req[s].at # "rotate"
    BY <1>2, <2>3 DEF JudgementStands
  <2>4. QED
    BY <2>1, <2>2, <2>3
<1>6. TokensDiffer'
  BY <1>2, <1>3 DEF TokensDiffer
<1>7. LocksAreHeld'
  BY <1>0, <1>2 DEF LocksAreHeld
<1>8. /\ \A p \in Tokens : RowFits(p)'
      /\ JarFits' /\ OneLiveTokenPerFamily'
  BY <1>a DEF RowFits, Exists, JarFits, OneLiveTokenPerFamily, IsLive
<1>9. \A c \in Calls : CallFits(c)'
  BY <1>2 DEF CallFits
<1>10. QED
  BY <1>1, <1>4, <1>5, <1>6, <1>7, <1>8, <1>9

(* The statements that are quiet in this sense.                            *)
LEMMA Answers ==
  ASSUME SessionInv, NEW r \in Slots, NEW code \in Code
  PROVE  /\ Answered(r, code) \in Request
         /\ Answered(r, code).kind = req[r].kind /\ Answered(r, code).refresh = None
         /\ Answered(r, code).at = "answered" /\ Answered(r, code).cookies = "keep"
<1>1. req[r].kind \in Kind \union {"none"}
  BY DEF SessionInv, SessionTypeOK, ServerTypeOK, Request
<1>2. QED
  BY <1>1 DEF Answered, NoRequest, Request, Code

(* An answer that sets no cookies.                                         *)
PlainAnswer(r) ==
  /\ req'[r] \in Request /\ req' = [req EXCEPT ![r] = req'[r]]
  /\ req'[r].kind = req[r].kind /\ req'[r].refresh = None
  /\ req'[r].at = "answered" /\ req'[r].cookies # "write"

LEMMA RefuseIsPlain ==
  ASSUME SessionInv, NEW r \in Slots, NEW code \in Code,
         Refuse(r, code) \/ req' = [req EXCEPT ![r] = Answered(r, code)]
  PROVE  PlainAnswer(r)
<1>0. req \in [Slots -> Request]
  BY DEF SessionInv, SessionTypeOK, ServerTypeOK
<1>1. PICK cookies \in {"keep", "clear"} :
        \/ req' = [req EXCEPT ![r] = [Answered(r, code) EXCEPT !.cookies = cookies]]
        \/ req' = [req EXCEPT ![r] = Answered(r, code)]
  BY DEF Refuse
<1>2. \A x \in Request : /\ [x EXCEPT !.cookies = cookies] \in Request
                         /\ [x EXCEPT !.cookies = cookies].kind = x.kind
                         /\ [x EXCEPT !.cookies = cookies].refresh = x.refresh
                         /\ [x EXCEPT !.cookies = cookies].at = x.at
                         /\ [x EXCEPT !.cookies = cookies].cookies = cookies
  BY DEF Request
<1>3. /\ Answered(r, code) \in Request
      /\ Answered(r, code).kind = req[r].kind /\ Answered(r, code).refresh = None
      /\ Answered(r, code).at = "answered" /\ Answered(r, code).cookies = "keep"
  BY Answers
<1>4. \E x \in Request : /\ req' = [req EXCEPT ![r] = x]
                          /\ x.kind = req[r].kind /\ x.refresh = None
                          /\ x.at = "answered" /\ x.cookies # "write"
  BY <1>1, <1>2, <1>3
<1>5. QED
  BY <1>0, <1>4 DEF PlainAnswer

LEMMA PlainAnswerIsQuiet ==
  ASSUME SessionInv, NEW r \in Slots, PlainAnswer(r), req[r].at # "idle",
         lock' \in [Tokens -> Slots \union {None}],
         \A p \in Tokens : \/ lock'[p] = lock[p] /\ lock[p] # r
                           \/ lock'[p] = None /\ lock[p] \in {None, r},
         denied' = denied \/ \E p \in Tokens : denied' = [denied EXCEPT ![p] = row[p].signed],
         UNCHANGED <<clock, row, ClientVars>>
  PROVE  SessionInv'
<1>1. Quiet(r)
  BY DEF Quiet, PlainAnswer
<1>2. QED
  BY <1>1, QuietStep

LEMMA NoLockHeld ==
  ASSUME SessionInv, NEW r \in Slots, req[r].at \notin {"rotate", "family", "revoke"}
  PROVE  \A p \in Tokens : lock[p] # r
BY DEF SessionInv, LocksAreHeld

LEMMA LocksGivenBack ==
  ASSUME SessionInv, NEW r \in Slots, GiveBackLocks(r)
  PROVE  /\ lock' \in [Tokens -> Slots \union {None}]
         /\ \A p \in Tokens : \/ lock'[p] = lock[p] /\ lock[p] # r
                              \/ lock'[p] = None /\ lock[p] \in {None, r}
BY DEF GiveBackLocks, SessionInv, SessionTypeOK, ServerTypeOK

LEMMA GuardStep ==
  ASSUME SessionInv, NEW r \in Slots,
         Verify(r) \/ CheckDenylist(r) \/ DenylistUnreachable(r) \/ RefuseLogIn(r) \/ Lose(r) \/ Fault(r),
         UNCHANGED ClientVars
  PROVE  SessionInv'
<1>0. req[r] \in Request /\ lock \in [Tokens -> Slots \union {None}] /\ RequestFits(r)
  BY DEF SessionInv, SessionTypeOK, ServerTypeOK
<1>1. {"token_invalid", "token_expired", "invalid_request", "internal_error", "lost", "ok"} \subseteq Code
  BY DEF Code
<1>2. ASSUME NEW code \in Code, Refuse(r, code), UNCHANGED <<clock, row, lock, denied>>,
             req[r].at \in {"verify", "denylist", "withdraw", "issue"}
      PROVE  SessionInv'
  <2>1. \A p \in Tokens : lock[p] # r
    BY <1>2, NoLockHeld
  <2>2. PlainAnswer(r)
    BY <1>2, RefuseIsPlain
  <2>3. QED
    BY <1>0, <1>2, <2>1, <2>2, PlainAnswerIsQuiet
<1>3. ASSUME NEW code \in Code, req' = [req EXCEPT ![r] = Answered(r, code)],
             UNCHANGED <<clock, row, lock, denied>>, req[r].at \in {"denylist", "answered"}
      PROVE  SessionInv'
  <2>1. \A p \in Tokens : lock[p] # r
    BY <1>3, NoLockHeld
  <2>2. PlainAnswer(r)
    BY <1>3, RefuseIsPlain
  <2>3. QED
    BY <1>0, <1>3, <2>1, <2>2, PlainAnswerIsQuiet
<1>4. ASSUME NEW stage \in {"denylist", "withdraw"}, req' = [req EXCEPT ![r].at = stage],
             UNCHANGED <<clock, row, lock, denied>>,
             req[r].access # None, req[r].at \in {"verify", "denylist"}
      PROVE  SessionInv'
  <2>1. \A p \in Tokens : lock[p] # r
    BY <1>4, NoLockHeld
  <2> DEFINE new == [req[r] EXCEPT !.at = stage]
  <2>2. /\ new \in Request /\ new.kind = req[r].kind /\ new.refresh = req[r].refresh
        /\ new.at = stage /\ new.access = req[r].access /\ new.cookies = req[r].cookies
    BY <1>0, <1>4 DEF Request, Stage
  <2>3. req' = [req EXCEPT ![r] = new]
    BY <1>4
  <2>4. req'[r] = new /\ req \in [Slots -> Request]
    BY <2>3 DEF SessionInv, SessionTypeOK, ServerTypeOK
  <2> HIDE DEF new
  <2>5. Quiet(r)
    BY <1>0, <1>4, <2>1, <2>2, <2>3, <2>4 DEF Quiet
  <2>6. QED
    BY <2>5, QuietStep
<1>5. CASE Verify(r)
  BY <1>1, <1>2, <1>4, <1>5 DEF Verify, To
<1>6. CASE CheckDenylist(r)
  <2>1. req[r].access # None
    BY <1>0, <1>6 DEF CheckDenylist, RequestFits
  <2>2. QED
    BY <1>1, <1>2, <1>3, <1>4, <1>6, <2>1 DEF CheckDenylist, Admit
<1>7. CASE DenylistUnreachable(r) \/ RefuseLogIn(r)
  BY <1>1, <1>2, <1>7 DEF DenylistUnreachable, RefuseLogIn
<1>8. CASE Lose(r)
  BY <1>1, <1>3, <1>8 DEF Lose
<1>9. CASE Fault(r)
  <2>1. lock' \in [Tokens -> Slots \union {None}]
        /\ \A p \in Tokens : \/ lock'[p] = lock[p] /\ lock[p] # r
                             \/ lock'[p] = None /\ lock[p] \in {None, r}
    BY <1>9, LocksGivenBack DEF Fault
  <2>2. PlainAnswer(r)
    BY <1>1, <1>9, RefuseIsPlain DEF Fault
  <2>3. QED
    BY <1>1, <1>9, <2>1, <2>2, PlainAnswerIsQuiet DEF Fault
<1>10. QED
  BY <1>5, <1>6, <1>7, <1>8, <1>9

LEMMA WithdrawStep ==
  ASSUME SessionInv, NEW r \in Slots, Withdraw(r) \/ StartRevoke(r), UNCHANGED ClientVars
  PROVE  SessionInv'
<1>0. /\ req[r] \in Request /\ lock \in [Tokens -> Slots \union {None}] /\ RequestFits(r)
      /\ req \in [Slots -> Request] /\ \A p \in Tokens : lock[p] = r => req[r].refresh = p
  BY DEF SessionInv, SessionTypeOK, ServerTypeOK, LocksAreHeld
<1>1. CASE Withdraw(r)
  <2>1. req[r].access \in Tokens
    BY <1>0, <1>1 DEF Withdraw, RequestFits, Request
  <2>2. denied' = denied \/ \E p \in Tokens : denied' = [denied EXCEPT ![p] = row[p].signed]
    BY <1>1, <2>1 DEF Withdraw
  <2>3. \A p \in Tokens : lock[p] # r
    BY <1>1, NoLockHeld DEF Withdraw
  <2>4. CASE req[r].refresh = None
    <3>1. PlainAnswer(r)
      BY <1>1, <2>4, RefuseIsPlain DEF Withdraw, Code
    <3>2. QED
      BY <1>0, <1>1, <2>2, <2>3, <3>1, PlainAnswerIsQuiet DEF Withdraw
  <2>5. CASE req[r].refresh # None
    <3>1. req' = [req EXCEPT ![r].at = "family"]
      BY <1>1, <2>5 DEF Withdraw, To
    <3>2. /\ req'[r] \in Request /\ req' = [req EXCEPT ![r] = req'[r]]
          /\ req'[r].kind = req[r].kind /\ req'[r].refresh = req[r].refresh /\ req'[r].at = "family"
      BY <1>0, <3>1 DEF Request, Stage
    <3>3. Quiet(r)
      BY <1>0, <1>1, <2>2, <2>3, <2>5, <3>2 DEF Quiet, Withdraw
    <3>4. QED
      BY <3>3, QuietStep
  <2>6. QED
    BY <2>4, <2>5
<1>2. CASE StartRevoke(r)
  <2>1. /\ LiveInFamily(req[r].refresh) \in SUBSET Tokens
        /\ \A p \in LiveInFamily(req[r].refresh) : Exists(p)
    BY DEF LiveInFamily, IsLive, Exists
  <2>2. /\ req'[r] \in Request /\ req' = [req EXCEPT ![r] = req'[r]]
        /\ req'[r].kind = req[r].kind /\ req'[r].refresh = req[r].refresh /\ req'[r].at = "revoke"
        /\ req'[r].targets = LiveInFamily(req[r].refresh)
    BY <1>0, <1>2, <2>1 DEF StartRevoke, Request, Stage
  <2>3. req[r].refresh # None
    BY <1>0, <1>2 DEF StartRevoke, RequestFits
  <2>4. Quiet(r)
    BY <1>0, <1>2, <2>1, <2>2, <2>3 DEF Quiet, StartRevoke
  <2>5. QED
    BY <2>4, QuietStep
<1>3. QED
  BY <1>1, <1>2

-----------------------------------------------------------------------------
(* A refresh from its beginning to the judgement: it chooses a successor   *)
(* nobody else has, and the row it judged stays as it was judged.          *)
LEMMA BeginStep ==
  ASSUME SessionInv, NEW r \in Slots, BeginRefresh(r), UNCHANGED ClientVars
  PROVE  SessionInv'
<1> USE DEF ClientVars
<1>0. /\ req[r] \in Request /\ req \in [Slots -> Request] /\ clock \in Nat
      /\ lock \in [Tokens -> Slots \union {None}] /\ UNCHANGED <<clock, row, lock, denied>>
      /\ req[r].at = "begin"
  BY DEF SessionInv, SessionTypeOK, ServerTypeOK, BeginRefresh
<1>00. \A x \in Tokens : lock[x] # r
  BY <1>0, NoLockHeld
<1>1. ASSUME NEW code \in Code, Refuse(r, code) PROVE SessionInv'
  <2>1. \A p \in Tokens : lock[p] # r
    BY NoLockHeld DEF BeginRefresh
  <2>2. PlainAnswer(r)
    BY <1>1, RefuseIsPlain
  <2>3. QED
    BY <1>0, <2>1, <2>2, PlainAnswerIsQuiet DEF BeginRefresh
<1>2. ASSUME req[r].refresh # None, NEW q \in Unminted,
             req' = [req EXCEPT ![r].at = "lock", ![r].token = q, ![r].now = clock]
      PROVE  SessionInv'
  <2>1. /\ q \in Tokens /\ ~Exists(q) /\ q \notin reached /\ \A s \in Slots : req[s].token # q
    BY <1>2 DEF Unminted, Exists, SessionInv, RowFits
  <2>2. /\ req'[r] \in Request /\ req'[r].at = "lock" /\ req'[r].token = q
        /\ req'[r].kind = req[r].kind /\ req'[r].refresh = req[r].refresh
        /\ req'[r].cookies = req[r].cookies
        /\ \A s \in Slots \ {r} : req'[s] = req[s]
    BY <1>0, <1>2, <2>1 DEF Request, Stage
  <2>3. SessionTypeOK'
    BY <1>0, <1>2, <2>2 DEF SessionInv, SessionTypeOK, ServerTypeOK
  <2>4. ASSUME NEW s \in Slots
        PROVE  RequestFits(s)' /\ MintFits(s)' /\ JudgementStands(s)' /\ PresentsUnspent(s)'
    <3>1. RequestFits(s) /\ MintFits(s) /\ JudgementStands(s) /\ PresentsUnspent(s)
      BY DEF SessionInv
    <3>2. CASE s # r
      BY <1>0, <2>2, <3>1, <3>2 DEF RequestFits, MintFits, JudgementStands, PresentsUnspent, InFlight,
                                    Exists, IsLive, RefreshExpired
    <3>3. CASE s = r
      <4>1. RequestFits(r)'
        BY <1>0, <1>2, <2>2, <3>1, <3>3 DEF RequestFits
      <4>2. MintFits(r)' /\ JudgementStands(r)'
        BY <1>0, <2>1, <2>2 DEF MintFits, JudgementStands, Exists
      <4>3. PresentsUnspent(r)'
        BY <1>0, <1>2, <2>2, <3>1, <3>3 DEF PresentsUnspent
      <4>4. QED
        BY <3>3, <4>1, <4>2, <4>3
    <3>4. QED
      BY <3>2, <3>3
  <2>5. TokensDiffer'
    BY <2>1, <2>2 DEF SessionInv, TokensDiffer, InFlight
  <2>6. LocksAreHeld'
    BY <1>0, <1>00, <2>2 DEF SessionInv, LocksAreHeld
  <2>7. /\ \A p \in Tokens : RowFits(p)'
        /\ JarFits' /\ OneLiveTokenPerFamily'
    BY <1>0 DEF SessionInv, RowFits, Exists, JarFits, OneLiveTokenPerFamily, IsLive
  <2>8. \A c \in Calls : CallFits(c)'
    BY <1>0, <2>2 DEF SessionInv, CallFits
  <2>9. QED
    BY <2>3, <2>4, <2>5, <2>6, <2>7, <2>8 DEF SessionInv
<1>3. QED
  BY <1>1, <1>2 DEF BeginRefresh, Code

LEMMA JudgeStep ==
  ASSUME SessionInv, NEW r \in Slots, LockAndJudge(r), UNCHANGED ClientVars
  PROVE  SessionInv'
<1> USE DEF ClientVars
<1> DEFINE p == req[r].refresh
<1>0. /\ req[r] \in Request /\ req \in [Slots -> Request]
      /\ lock \in [Tokens -> Slots \union {None}] /\ UNCHANGED <<clock, row, denied>>
      /\ RequestFits(r) /\ p \in Tokens /\ lock[p] = None /\ req[r].at = "lock"
      /\ \A x \in Tokens : lock[x] # r
  BY NoLockHeld DEF SessionInv, SessionTypeOK, ServerTypeOK, LockAndJudge, RequestFits, Request
<1>1. CASE IsLive(p) /\ RefreshExpired(p, req[r].now)
  <2>1. Refuse(r, "token_expired") /\ lock' = lock
    BY <1>1 DEF LockAndJudge
  <2>2. PlainAnswer(r)
    BY <2>1, RefuseIsPlain DEF Code
  <2>3. QED
    BY <1>0, <2>1, <2>2, PlainAnswerIsQuiet
<1>2. CASE ~IsLive(p)
  <2>1. req' = [req EXCEPT ![r].at = "family"] /\ lock' = [lock EXCEPT ![p] = r]
    BY <1>2 DEF LockAndJudge, To
  <2>2. /\ req'[r] \in Request /\ req' = [req EXCEPT ![r] = req'[r]]
        /\ req'[r].kind = req[r].kind /\ req'[r].refresh = p /\ req'[r].at = "family"
    BY <1>0, <2>1 DEF Request, Stage
  <2>3. Quiet(r)
    BY <1>0, <2>1, <2>2 DEF Quiet
  <2>4. QED
    BY <2>3, QuietStep
<1>3. CASE IsLive(p) /\ ~RefreshExpired(p, req[r].now)
  <2>1. req' = [req EXCEPT ![r].at = "rotate"] /\ lock' = [lock EXCEPT ![p] = r]
    BY <1>3 DEF LockAndJudge, To
  <2>2. /\ req'[r] \in Request /\ req'[r].at = "rotate" /\ req'[r].token = req[r].token
        /\ req'[r].kind = req[r].kind /\ req'[r].refresh = p /\ req'[r].now = req[r].now
        /\ \A s \in Slots \ {r} : req'[s] = req[s]
    BY <1>0, <2>1 DEF Request, Stage
  <2>3. /\ lock' \in [Tokens -> Slots \union {None}] /\ lock'[p] = r
        /\ \A x \in Tokens \ {p} : lock'[x] = lock[x]
    BY <1>0, <2>1
  <2>4. SessionTypeOK'
    BY <1>0, <2>1, <2>2, <2>3 DEF SessionInv, SessionTypeOK, ServerTypeOK
  <2>5. ASSUME NEW s \in Slots
        PROVE  RequestFits(s)' /\ MintFits(s)' /\ JudgementStands(s)' /\ PresentsUnspent(s)'
    <3>1. RequestFits(s) /\ MintFits(s) /\ JudgementStands(s) /\ PresentsUnspent(s)
      BY DEF SessionInv
    <3>2. RequestFits(s)'
      BY <1>0, <2>2, <3>1 DEF RequestFits, Exists
    <3>3. MintFits(s)'
      BY <1>0, <2>2, <3>1 DEF MintFits, InFlight, Exists
    <3>4. PresentsUnspent(s)'
      BY <1>0, <2>2, <3>1 DEF PresentsUnspent
    <3>5. JudgementStands(s)'
      <4>1. CASE s = r
        BY <1>0, <1>3, <2>2, <2>3, <4>1 DEF JudgementStands, IsLive, RefreshExpired
      <4>2. CASE s # r /\ req[s].at = "rotate"
        <5>1. req[s].refresh \in Tokens /\ lock[req[s].refresh] = s /\ s # None
          BY <1>0, <3>1, <4>2 DEF RequestFits, JudgementStands, Request
        <5>2. req[s].refresh # p
          BY <1>0, <5>1
        <5>3. QED
          BY <1>0, <2>2, <2>3, <3>1, <4>2, <5>1, <5>2 DEF JudgementStands, IsLive, RefreshExpired
      <4>3. CASE s # r /\ req[s].at # "rotate"
        BY <2>2, <4>3 DEF JudgementStands
      <4>4. QED
        BY <4>1, <4>2, <4>3
    <3>6. QED
      BY <3>2, <3>3, <3>4, <3>5
  <2>6. TokensDiffer'
    BY <1>0, <2>2 DEF SessionInv, TokensDiffer, InFlight
  <2>7. LocksAreHeld'
    BY <1>0, <2>2, <2>3 DEF SessionInv, LocksAreHeld
  <2>8. /\ \A x \in Tokens : RowFits(x)'
        /\ JarFits' /\ OneLiveTokenPerFamily'
    BY <1>0 DEF SessionInv, RowFits, Exists, JarFits, OneLiveTokenPerFamily, IsLive
  <2>9. \A c \in Calls : CallFits(c)'
    BY <1>0, <2>2 DEF SessionInv, CallFits
  <2>10. QED
    BY <2>4, <2>5, <2>6, <2>7, <2>8, <2>9 DEF SessionInv
<1>4. QED
  BY <1>1, <1>2, <1>3

-----------------------------------------------------------------------------
(* A step that writes rows keeps what is said of a row it leaves alone, and*)
(* a successor that is not committed is no other token's heir.             *)
LEMMA RotateStep ==
  ASSUME SessionInv, NEW r \in Slots, Rotate(r), UNCHANGED ClientVars
  PROVE  SessionInv'
<1> USE DEF ClientVars
<1> DEFINE p == req[r].refresh
           q == req[r].token
<1>0. /\ req[r] \in Request /\ req \in [Slots -> Request] /\ row \in [Tokens -> TokenRow]
      /\ lock \in [Tokens -> Slots \union {None}] /\ UNCHANGED <<clock, denied>>
      /\ RequestFits(r) /\ MintFits(r) /\ JudgementStands(r) /\ req[r].at = "rotate"
      /\ denied \in [Tokens -> Nat]
  BY DEF SessionInv, SessionTypeOK, ServerTypeOK, Rotate
<1>1. /\ p \in Tokens /\ p \in reached /\ r \in Tabs /\ lock[p] = r /\ IsLive(p) /\ Exists(p)
      /\ q \in Tokens /\ q \notin reached /\ ~Exists(q) /\ q # p
  BY <1>0 DEF RequestFits, MintFits, InFlight, JudgementStands, Exists, IsLive, Request
<1>2. /\ req' = [req EXCEPT ![r].at = "sign"]
      /\ row' = [row EXCEPT ![p].state = "revoked", ![p].heir = q,
                            ![q] = Minted(r, row[p].family)]
  BY DEF Rotate, To
<1>3. /\ req'[r] \in Request /\ req'[r].at = "sign" /\ req'[r].token = q
      /\ req'[r].kind = req[r].kind /\ req'[r].refresh = p
      /\ \A s \in Slots \ {r} : req'[s] = req[s]
  BY <1>0, <1>2 DEF Request, Stage
<1>4. row[p] \in TokenRow /\ row[p].family \in Tokens \union {None} /\ req[r].now + RefreshTTL \in Nat
  BY <1>0, <1>1 DEF TokenRow, Request
<1>5. Minted(r, row[p].family) \in TokenRow
  BY <1>4 DEF Minted, TokenRow
<1>6. /\ row'[q].state = "live" /\ row'[q].family = row[p].family /\ row'[q].signed = 0
      /\ row'[q].heir = None /\ row'[q].by = r
      /\ row'[p].state = "revoked" /\ row'[p].family = row[p].family
      /\ row'[p].signed = row[p].signed /\ row'[p].heir = q /\ row'[p].by = row[p].by
      /\ \A x \in Tokens \ {p, q} : row'[x] = row[x]
  BY <1>0, <1>1, <1>2 DEF Minted, TokenRow
<1>7. row' \in [Tokens -> TokenRow]
  <2>1. [row[p] EXCEPT !.state = "revoked", !.heir = q] \in TokenRow
    BY <1>1, <1>4 DEF TokenRow
  <2>2. row' = [[row EXCEPT ![p] = [row[p] EXCEPT !.state = "revoked", !.heir = q]]
                  EXCEPT ![q] = Minted(r, row[p].family)]
    BY <1>0, <1>1, <1>2
  <2>3. QED
    BY <1>0, <1>5, <2>1, <2>2
<1>8. /\ lock' \in [Tokens -> Slots \union {None}]
      /\ \A x \in Tokens : \/ lock'[x] = lock[x] /\ lock[x] # r
                           \/ lock'[x] = None /\ lock[x] \in {None, r}
  BY LocksGivenBack DEF Rotate
<1>9. SessionTypeOK'
  BY <1>0, <1>2, <1>3, <1>7, <1>8 DEF SessionInv, SessionTypeOK, ServerTypeOK
<1>10. \A x \in Tokens : Exists(x)' <=> Exists(x) \/ x = q
  BY <1>1, <1>6 DEF Exists
<1>11. \A x \in Tokens : IsLive(x)' <=> (IsLive(x) /\ x # p) \/ x = q
  BY <1>1, <1>6 DEF IsLive
<1>12. \A x \in Tokens : /\ x # q => row'[x].family = row[x].family
                         /\ x # q => row'[x].by = row[x].by
                         /\ x # q => row'[x].signed = row[x].signed
                         /\ x \notin {p, q} => row'[x].heir = row[x].heir
  BY <1>1, <1>6
<1>13. row[q] = NoToken
  BY <1>1 DEF SessionInv, RowFits
<1>14. \A x \in Tokens : row[x].heir # q
  BY <1>1 DEF SessionInv, RowFits
<1> HIDE DEF p, q
<1>15. ASSUME NEW s \in Slots
       PROVE  RequestFits(s)' /\ MintFits(s)' /\ JudgementStands(s)' /\ PresentsUnspent(s)'
  <2>1. RequestFits(s) /\ MintFits(s) /\ JudgementStands(s) /\ PresentsUnspent(s)
    BY DEF SessionInv
  <2>2. CASE s = r
    <3>1. RequestFits(r)'
      BY <1>0, <1>1, <1>3 DEF RequestFits, p
    <3>2. MintFits(r)'
      BY <1>0, <1>1, <1>3, <1>6, <1>10 DEF MintFits, InFlight
    <3>3. QED
      BY <1>3, <2>2, <3>1, <3>2 DEF JudgementStands, PresentsUnspent
  <2>3. CASE s # r
    <3>0. req'[s] = req[s] /\ req[s] \in Request
      BY <1>0, <1>3, <2>3
    <3>1. RequestFits(s)'
      <4>1. \A x \in req[s].targets : x \in Tokens
        BY <3>0 DEF Request
      <4>2. QED
        BY <1>10, <2>1, <3>0, <4>1 DEF RequestFits
    <3>2. MintFits(s)'
      <4>1. CASE InFlight(s)
        <5>1. /\ req[s].token \in Tokens /\ req[s].token # q /\ req[s].token # p
          BY <1>0, <1>1, <2>1, <2>3, <3>0, <4>1
             DEF MintFits, SessionInv, TokensDiffer, InFlight, Request, q
        <5>2. QED
          BY <1>10, <1>12, <2>1, <3>0, <5>1 DEF MintFits, InFlight
      <4>2. CASE ~InFlight(s)
        BY <3>0, <4>2 DEF MintFits, InFlight
      <4>3. QED
        BY <4>1, <4>2
    <3>3. JudgementStands(s)'
      <4>1. CASE req[s].at = "rotate"
        <5>1. /\ req[s].refresh \in Tokens /\ lock[req[s].refresh] = s
              /\ IsLive(req[s].refresh) /\ s # None
          BY <2>1, <3>0, <4>1 DEF RequestFits, JudgementStands, Request
        <5>2. req[s].refresh # p /\ req[s].refresh # q
          BY <1>1, <2>3, <5>1 DEF IsLive, Exists
        <5>3. row'[req[s].refresh] = row[req[s].refresh] /\ lock'[req[s].refresh] = s
          BY <1>6, <1>8, <2>3, <5>1, <5>2
        <5>4. QED
          BY <2>1, <3>0, <4>1, <5>3 DEF JudgementStands, IsLive, RefreshExpired
      <4>2. CASE req[s].at # "rotate"
        BY <3>0, <4>2 DEF JudgementStands
      <4>3. QED
        BY <4>1, <4>2
    <3>4. PresentsUnspent(s)'
      <4>1. CASE req[s].at \in {"begin", "lock"} /\ req[s].refresh # None
        <5>1. req[s].refresh \in Tokens /\ req[s].refresh # q
          BY <1>1, <2>1, <3>0, <4>1 DEF RequestFits, Request
        <5>2. CASE req[s].refresh = p
          BY <1>6, <2>3, <3>0, <5>2 DEF PresentsUnspent
        <5>3. CASE req[s].refresh # p
          <6>1. row'[req[s].refresh].heir = row[req[s].refresh].heir
            BY <1>12, <5>1, <5>3
          <6>2. row[req[s].refresh].heir \in Tokens \union {None}
            BY <1>0, <5>1 DEF TokenRow
          <6>3. QED
            BY <1>12, <1>14, <2>1, <3>0, <4>1, <5>1, <6>1, <6>2 DEF PresentsUnspent
        <5>4. QED
          BY <5>2, <5>3
      <4>2. CASE ~(req[s].at \in {"begin", "lock"} /\ req[s].refresh # None)
        BY <3>0, <4>2 DEF PresentsUnspent
      <4>3. QED
        BY <4>1, <4>2
    <3>5. QED
      BY <3>1, <3>2, <3>3, <3>4
  <2>4. QED
    BY <2>2, <2>3
<1>16. TokensDiffer'
  <2>1. \A s \in Slots : req'[s].token = req[s].token /\ (InFlight(s)' => InFlight(s))
    BY <1>0, <1>3 DEF InFlight, q
  <2>2. QED
    BY <2>1 DEF SessionInv, TokensDiffer
<1>17. LocksAreHeld'
  BY <1>0, <1>3, <1>8 DEF SessionInv, LocksAreHeld
<1>18. ASSUME NEW x \in Tokens PROVE RowFits(x)'
  <2>1. RowFits(x) /\ RowFits(p)
    BY <1>1 DEF SessionInv
  <2>2. row[x].heir \in Tokens \union {None} /\ row[x].family \in Tokens \union {None}
    BY <1>0 DEF TokenRow
  <2>3. CASE x = q
    BY <1>0, <1>1, <1>4, <1>6, <1>10, <1>13, <2>1, <2>3 DEF RowFits, NoToken
  <2>4. CASE x = p
    BY <1>0, <1>1, <1>6, <1>10, <2>1, <2>2, <2>4 DEF RowFits
  <2>5. CASE x \notin {p, q}
    BY <1>0, <1>6, <1>10, <1>12, <1>14, <2>1, <2>2, <2>5 DEF RowFits
  <2>6. QED
    BY <2>3, <2>4, <2>5
<1>19. OneLiveTokenPerFamily'
  BY <1>1, <1>6, <1>11, <1>12 DEF SessionInv, OneLiveTokenPerFamily
<1>20. \A c \in Calls : CallFits(c)'
  BY <1>0, <1>3 DEF SessionInv, CallFits
<1>21. JarFits'
  BY DEF SessionInv, JarFits
<1>22. QED
  BY <1>9, <1>15, <1>16, <1>17, <1>18, <1>19, <1>20, <1>21 DEF SessionInv

(* A family begins with a token nobody has, so nobody else is in it.       *)
LEMMA IssueStep ==
  ASSUME SessionInv, NEW r \in Slots, Issue(r), UNCHANGED ClientVars
  PROVE  SessionInv'
<1> USE DEF ClientVars
<1>0. /\ req[r] \in Request /\ req \in [Slots -> Request] /\ row \in [Tokens -> TokenRow]
      /\ clock \in Nat /\ UNCHANGED <<clock, lock, denied>>
      /\ RequestFits(r) /\ req[r].at = "issue"
  BY DEF SessionInv, SessionTypeOK, ServerTypeOK, Issue
<1>1. PICK p \in Unminted :
        /\ row' = [row EXCEPT ![p] = [Minted(r, p) EXCEPT !.expires = clock + RefreshTTL]]
        /\ req' = [req EXCEPT ![r].at = "sign", ![r].token = p, ![r].now = clock]
  BY DEF Issue
<1>2. /\ p \in Tokens /\ ~Exists(p) /\ p \notin reached /\ \A s \in Slots : req[s].token # p
      /\ row[p] = NoToken /\ p # None
  BY DEF Unminted, Exists, SessionInv, RowFits
<1>3. /\ req'[r] \in Request /\ req'[r].at = "sign" /\ req'[r].token = p
      /\ req'[r].kind = req[r].kind /\ req'[r].refresh = req[r].refresh
      /\ \A s \in Slots \ {r} : req'[s] = req[s]
  BY <1>0, <1>1, <1>2 DEF Request, Stage
<1>4. [Minted(r, p) EXCEPT !.expires = clock + RefreshTTL] \in TokenRow
  <2>1. req[r].now + RefreshTTL \in Nat /\ clock + RefreshTTL \in Nat
    BY <1>0 DEF Request
  <2>2. QED
    BY <1>2, <2>1 DEF Minted, TokenRow
<1>5. /\ row'[p].state = "live" /\ row'[p].family = p /\ row'[p].signed = 0
      /\ row'[p].heir = None /\ row'[p].by = r
      /\ \A x \in Tokens \ {p} : row'[x] = row[x]
  BY <1>0, <1>1, <1>2 DEF Minted
<1>6. row' \in [Tokens -> TokenRow]
  BY <1>0, <1>1, <1>4
<1>7. SessionTypeOK'
  BY <1>0, <1>1, <1>3, <1>6 DEF SessionInv, SessionTypeOK, ServerTypeOK
<1>8. /\ \A x \in Tokens : Exists(x)' <=> Exists(x) \/ x = p
      /\ \A x \in Tokens : IsLive(x)' <=> IsLive(x) \/ x = p
  BY <1>2, <1>5 DEF Exists, IsLive
<1>9. \A x \in Tokens : row[x].heir # p /\ row[x].family # p
  <2>1. ASSUME NEW x \in Tokens PROVE row[x].heir # p /\ row[x].family # p
    <3>1. RowFits(x)
      BY DEF SessionInv
    <3>2. CASE Exists(x)
      BY <1>2, <3>1, <3>2 DEF RowFits
    <3>3. CASE ~Exists(x)
      BY <1>2, <3>1, <3>3 DEF RowFits, NoToken
    <3>4. QED
      BY <3>2, <3>3
  <2>2. QED
    BY <2>1
<1>10. ASSUME NEW s \in Slots
       PROVE  RequestFits(s)' /\ MintFits(s)' /\ JudgementStands(s)' /\ PresentsUnspent(s)'
  <2>1. RequestFits(s) /\ MintFits(s) /\ JudgementStands(s) /\ PresentsUnspent(s)
    BY DEF SessionInv
  <2>2. CASE s = r
    <3>1. RequestFits(r)'
      BY <1>0, <1>3 DEF RequestFits
    <3>2. MintFits(r)'
      BY <1>2, <1>3, <1>5, <1>8 DEF MintFits, InFlight
    <3>3. QED
      BY <1>3, <2>2, <3>1, <3>2 DEF JudgementStands, PresentsUnspent
  <2>3. CASE s # r
    <3>0. req'[s] = req[s] /\ req[s] \in Request
      BY <1>0, <1>3, <2>3
    <3>1. RequestFits(s)'
      <4>1. \A x \in req[s].targets : x \in Tokens
        BY <3>0 DEF Request
      <4>2. QED
        BY <1>8, <2>1, <3>0, <4>1 DEF RequestFits
    <3>2. MintFits(s)'
      <4>1. CASE InFlight(s)
        <5>1. /\ req[s].token \in Tokens /\ req[s].token # p
          BY <1>2, <2>1, <3>0, <4>1 DEF MintFits, Request
        <5>2. QED
          BY <1>5, <1>8, <2>1, <3>0, <5>1 DEF MintFits, InFlight
      <4>2. CASE ~InFlight(s)
        BY <3>0, <4>2 DEF MintFits, InFlight
      <4>3. QED
        BY <4>1, <4>2
    <3>3. JudgementStands(s)'
      <4>1. CASE req[s].at = "rotate"
        <5>1. req[s].refresh \in Tokens /\ IsLive(req[s].refresh)
          BY <2>1, <3>0, <4>1 DEF RequestFits, JudgementStands, Request
        <5>2. req[s].refresh # p
          BY <1>2, <5>1 DEF IsLive, Exists
        <5>3. QED
          BY <1>0, <1>5, <2>1, <3>0, <4>1, <5>1, <5>2 DEF JudgementStands, IsLive, RefreshExpired
      <4>2. CASE req[s].at # "rotate"
        BY <3>0, <4>2 DEF JudgementStands
      <4>3. QED
        BY <4>1, <4>2
    <3>4. PresentsUnspent(s)'
      <4>1. CASE req[s].at \in {"begin", "lock"} /\ req[s].refresh # None
        <5>1. req[s].refresh \in Tokens /\ req[s].refresh # p
          BY <1>2, <2>1, <3>0, <4>1 DEF RequestFits, Request
        <5>2. /\ row'[req[s].refresh] = row[req[s].refresh]
              /\ row[req[s].refresh].heir \in Tokens \union {None}
          BY <1>0, <1>5, <5>1 DEF TokenRow
        <5>3. QED
          BY <1>5, <1>9, <2>1, <3>0, <4>1, <5>1, <5>2 DEF PresentsUnspent
      <4>2. CASE ~(req[s].at \in {"begin", "lock"} /\ req[s].refresh # None)
        BY <3>0, <4>2 DEF PresentsUnspent
      <4>3. QED
        BY <4>1, <4>2
    <3>5. QED
      BY <3>1, <3>2, <3>3, <3>4
  <2>4. QED
    BY <2>2, <2>3
<1>11. TokensDiffer'
  <2>1. \A s \in Slots \ {r} : /\ req'[s].token = req[s].token /\ (InFlight(s)' => InFlight(s))
                               /\ req[s].token # p
    BY <1>2, <1>3 DEF InFlight
  <2>2. QED
    BY <1>3, <2>1 DEF SessionInv, TokensDiffer
<1>12. LocksAreHeld'
  <2>1. \A x \in Tokens : lock[x] # r
    BY <1>0, NoLockHeld
  <2>2. QED
    BY <1>0, <1>3, <2>1 DEF SessionInv, LocksAreHeld
<1>13. ASSUME NEW x \in Tokens PROVE RowFits(x)'
  <2>1. RowFits(x) /\ RowFits(p)
    BY <1>2 DEF SessionInv
  <2>2. row[x].heir \in Tokens \union {None} /\ row[x].family \in Tokens \union {None}
    BY <1>0 DEF TokenRow
  <2>3. CASE x = p
    BY <1>0, <1>2, <1>5, <1>8, <2>1, <2>3 DEF RowFits, NoToken
  <2>4. CASE x # p
    BY <1>0, <1>5, <1>8, <1>9, <2>1, <2>2, <2>4 DEF RowFits
  <2>5. QED
    BY <2>3, <2>4
<1>14. OneLiveTokenPerFamily'
  BY <1>5, <1>8, <1>9 DEF SessionInv, OneLiveTokenPerFamily
<1>15. (\A c \in Calls : CallFits(c)') /\ JarFits'
  BY <1>0, <1>3 DEF SessionInv, CallFits, JarFits
<1>16. QED
  BY <1>7, <1>10, <1>11, <1>12, <1>13, <1>14, <1>15 DEF SessionInv

-----------------------------------------------------------------------------
(* A step in which every row keeps all but its state and its signature,    *)
(* none comes into being or to life, and the rows being rotated stay as    *)
(* they are.                                                               *)
RowsSettle(r) ==
  /\ row' \in [Tokens -> TokenRow]
  /\ \A x \in Tokens : /\ row'[x].family = row[x].family /\ row'[x].heir = row[x].heir
                       /\ row'[x].by = row[x].by /\ row'[x].expires = row[x].expires
                       /\ Exists(x)' <=> Exists(x)
                       /\ IsLive(x)' => IsLive(x)
                       /\ lock[x] \notin {None, r} => row'[x] = row[x]
                       /\ row'[x].signed = row[x].signed \/ (x = req[r].token /\ req[r].at = "sign")
  /\ lock' \in [Tokens -> Slots \union {None}]
  /\ \A p \in Tokens : \/ lock'[p] = lock[p] /\ lock[p] # r
                       \/ lock'[p] = None /\ lock[p] \in {None, r}
  /\ req'[r] \in Request /\ req' = [req EXCEPT ![r] = req'[r]]
  /\ req'[r].kind = req[r].kind /\ req'[r].refresh = None /\ req'[r].at = "answered"
  /\ req[r].at # "idle"
  /\ req'[r].cookies = "write" => req[r].at = "sign" /\ req'[r].token = req[r].token
  /\ UNCHANGED <<clock, denied, ClientVars>>

LEMMA RowsStep ==
  ASSUME SessionInv, NEW r \in Slots, RowsSettle(r)
  PROVE  SessionInv'
<1> USE DEF ClientVars
<1>0. /\ req[r] \in Request /\ req \in [Slots -> Request] /\ row \in [Tokens -> TokenRow]
      /\ denied \in [Tokens -> Nat] /\ MintFits(r)
  BY DEF SessionInv, SessionTypeOK, ServerTypeOK
<1>1. SessionTypeOK'
  BY <1>0 DEF SessionInv, SessionTypeOK, ServerTypeOK, RowsSettle
<1>2. /\ req'[r].at = "answered" /\ \A s \in Slots \ {r} : req'[s] = req[s]
      /\ req'[r].refresh = None /\ req'[r].kind = req[r].kind
  BY <1>0 DEF RowsSettle
<1>3. InFlight(r)' => req[r].at = "sign" /\ InFlight(r) /\ req'[r].token = req[r].token
  BY <1>2 DEF InFlight, RowsSettle
<1>4. /\ \A x \in Tokens : Exists(x)' <=> Exists(x)
      /\ \A x \in Tokens : row'[x].by = row[x].by /\ row'[x].heir = row[x].heir
      /\ \A x \in Tokens : row[x].heir \in Tokens \union {None}
  BY <1>0 DEF RowsSettle, TokenRow
<1>5. ASSUME NEW s \in Slots
      PROVE  RequestFits(s)' /\ MintFits(s)' /\ JudgementStands(s)' /\ PresentsUnspent(s)'
  <2>1. RequestFits(s) /\ MintFits(s) /\ JudgementStands(s) /\ PresentsUnspent(s)
    BY DEF SessionInv
  <2>2. CASE s = r
    <3>1. RequestFits(r)'
      BY <1>2, <2>1, <2>2 DEF RequestFits, RowsSettle
    <3>2. MintFits(r)'
      <4>1. CASE InFlight(r)'
        <5>1. /\ req[r].token \in Tokens /\ req[r].token \notin reached
              /\ Exists(req[r].token) /\ row[req[r].token].by = r
          BY <1>0, <1>3, <4>1 DEF MintFits, Request
        <5>2. QED
          BY <1>2, <1>3, <1>4, <4>1, <5>1 DEF MintFits, RowsSettle
      <4>2. CASE ~InFlight(r)'
        BY <4>2 DEF MintFits
      <4>3. QED
        BY <4>1, <4>2
    <3>3. QED
      BY <1>2, <2>2, <3>1, <3>2 DEF JudgementStands, PresentsUnspent
  <2>3. CASE s # r
    <3>0. req'[s] = req[s] /\ req[s] \in Request
      BY <1>0, <1>2, <2>3
    <3>1. RequestFits(s)'
      <4>1. \A x \in req[s].targets : x \in Tokens
        BY <3>0 DEF Request
      <4>2. QED
        BY <1>4, <2>1, <3>0, <4>1 DEF RequestFits, RowsSettle
    <3>2. MintFits(s)'
      <4>1. CASE InFlight(s)
        <5>1. /\ req[s].token \in Tokens
              /\ row'[req[s].token].signed = row[req[s].token].signed
          BY <2>1, <2>3, <3>0, <4>1
             DEF MintFits, Request, RowsSettle, SessionInv, TokensDiffer, InFlight
        <5>2. QED
          BY <1>4, <2>1, <3>0, <5>1 DEF MintFits, InFlight, RowsSettle
      <4>2. CASE ~InFlight(s)
        BY <3>0, <4>2 DEF MintFits, InFlight
      <4>3. QED
        BY <4>1, <4>2
    <3>3. JudgementStands(s)'
      <4>1. CASE req[s].at = "rotate"
        <5>1. /\ req[s].refresh \in Tokens /\ lock[req[s].refresh] = s /\ s # None
          BY <2>1, <3>0, <4>1 DEF RequestFits, JudgementStands, Request
        <5>2. row'[req[s].refresh] = row[req[s].refresh] /\ lock'[req[s].refresh] = s
          BY <2>3, <5>1 DEF RowsSettle
        <5>3. QED
          BY <2>1, <3>0, <4>1, <5>2 DEF JudgementStands, IsLive, RefreshExpired
      <4>2. CASE req[s].at # "rotate"
        BY <3>0, <4>2 DEF JudgementStands
      <4>3. QED
        BY <4>1, <4>2
    <3>4. PresentsUnspent(s)'
      <4>1. CASE req[s].at \in {"begin", "lock"} /\ req[s].refresh # None
        <5>1. req[s].refresh \in Tokens
          BY <3>0, <4>1 DEF Request
        <5>2. QED
          BY <1>4, <2>1, <3>0, <4>1, <5>1 DEF PresentsUnspent, RowsSettle
      <4>2. CASE ~(req[s].at \in {"begin", "lock"} /\ req[s].refresh # None)
        BY <3>0, <4>2 DEF PresentsUnspent
      <4>3. QED
        BY <4>1, <4>2
    <3>5. QED
      BY <3>1, <3>2, <3>3, <3>4
  <2>4. QED
    BY <2>2, <2>3
<1>6. TokensDiffer'
  <2>1. \A s \in Slots : InFlight(s)' => InFlight(s) /\ req'[s].token = req[s].token
    BY <1>2, <1>3 DEF InFlight
  <2>2. QED
    BY <2>1 DEF SessionInv, TokensDiffer
<1>7. LocksAreHeld'
  BY <1>0, <1>2 DEF SessionInv, LocksAreHeld, RowsSettle
<1>8. ASSUME NEW x \in Tokens PROVE RowFits(x)'
  <2>1. RowFits(x) /\ jar' = jar /\ reached' = reached /\ denied' = denied
    BY DEF SessionInv, RowsSettle
  <2>2. row[x].heir \in Tokens \union {None} /\ row[x].family \in Tokens \union {None}
    BY <1>0 DEF TokenRow
  <2>3. ~Exists(x)' => row'[x] = NoToken
    <3>1. CASE ~Exists(x)
      <4>1. row[x] = NoToken /\ row'[x].state = "absent" /\ row'[x] \in TokenRow
        BY <2>1, <3>1 DEF RowFits, RowsSettle, Exists
      <4>2. row'[x].signed = 0
        BY <1>0, <3>1, <4>1 DEF RowsSettle, MintFits, InFlight, NoToken
      <4>3. QED
        BY <4>1, <4>2 DEF RowsSettle, TokenRow, NoToken
    <3>2. CASE Exists(x)
      BY <1>4, <3>2
    <3>3. QED
      BY <3>1, <3>2
  <2>4. denied'[x] \in {0, row'[x].signed}
    BY <1>0, <2>1 DEF RowFits, RowsSettle, MintFits, InFlight
  <2>5. QED
    BY <1>4, <2>1, <2>2, <2>3, <2>4 DEF RowFits, RowsSettle
<1>9. OneLiveTokenPerFamily'
  BY DEF SessionInv, OneLiveTokenPerFamily, RowsSettle
<1>10. (\A c \in Calls : CallFits(c)') /\ JarFits'
  BY <1>0, <1>2 DEF SessionInv, CallFits, JarFits, RowsSettle
<1>11. QED
  BY <1>1, <1>5, <1>6, <1>7, <1>8, <1>9, <1>10 DEF SessionInv

LEMMA RevokeStep ==
  ASSUME SessionInv, NEW r \in Slots, Revoke(r), UNCHANGED ClientVars
  PROVE  SessionInv'
<1>0. /\ req[r] \in Request /\ row \in [Tokens -> TokenRow] /\ RequestFits(r)
      /\ req[r].at = "revoke" /\ \A p \in req[r].targets : lock[p] \in {None, r}
      /\ row' = [p \in Tokens |-> IF p \in req[r].targets
                                  THEN [row[p] EXCEPT !.state = "revoked"] ELSE row[p]]
      /\ GiveBackLocks(r) /\ UNCHANGED <<clock, denied>>
      /\ \E code \in {"ok", "token_reused"} : Refuse(r, code)
  BY DEF SessionInv, SessionTypeOK, ServerTypeOK, Revoke
<1>1. PlainAnswer(r)
  BY <1>0, RefuseIsPlain DEF Code
<1>2. /\ lock' \in [Tokens -> Slots \union {None}]
      /\ \A p \in Tokens : \/ lock'[p] = lock[p] /\ lock[p] # r
                           \/ lock'[p] = None /\ lock[p] \in {None, r}
  BY <1>0, LocksGivenBack
<1>3. ASSUME NEW x \in Tokens
      PROVE  /\ row'[x] \in TokenRow
             /\ row'[x].family = row[x].family /\ row'[x].heir = row[x].heir
             /\ row'[x].by = row[x].by /\ row'[x].expires = row[x].expires
             /\ Exists(x)' <=> Exists(x)
             /\ IsLive(x)' => IsLive(x)
             /\ lock[x] \notin {None, r} => row'[x] = row[x]
             /\ row'[x].signed = row[x].signed
  <2>0. row[x] \in TokenRow
    BY <1>0
  <2>1. CASE x \in req[r].targets
    <3>1. row'[x] = [row[x] EXCEPT !.state = "revoked"] /\ lock[x] \in {None, r} /\ Exists(x)
      BY <1>0, <2>1 DEF RequestFits
    <3>2. QED
      BY <2>0, <3>1 DEF TokenRow, Exists, IsLive
  <2>2. CASE x \notin req[r].targets
    <3>1. row'[x] = row[x]
      BY <1>0, <2>2
    <3>2. QED
      BY <2>0, <3>1 DEF Exists, IsLive
  <2>3. QED
    BY <2>1, <2>2
<1>4. row' \in [Tokens -> TokenRow]
  BY <1>0, <1>3
<1>5. RowsSettle(r)
  BY <1>0, <1>1, <1>2, <1>3, <1>4 DEF RowsSettle, PlainAnswer
<1>6. QED
  BY <1>5, RowsStep

LEMMA SignStep ==
  ASSUME SessionInv, NEW r \in Slots, Sign(r), UNCHANGED ClientVars
  PROVE  SessionInv'
<1> DEFINE p == req[r].token
           ends == req[r].now + AccessTTL
           answer == [Answered(r, "ok") EXCEPT !.cookies = "write", !.token = p,
                        !.accessAge = SecondsUntil(ends),
                        !.refreshAge = SecondsUntil(row[p].expires)]
<1>0. /\ req[r] \in Request /\ req \in [Slots -> Request] /\ row \in [Tokens -> TokenRow]
      /\ lock \in [Tokens -> Slots \union {None}] /\ clock \in Nat
      /\ MintFits(r) /\ req[r].at = "sign" /\ UNCHANGED <<clock, lock, denied>>
      /\ row' = [row EXCEPT ![p].signed = ends] /\ req' = [req EXCEPT ![r] = answer]
  BY DEF SessionInv, SessionTypeOK, ServerTypeOK, Sign
<1>1. p \in Tokens /\ ends \in Nat /\ row[p] \in TokenRow
  BY <1>0 DEF MintFits, InFlight, Request
<1>2. SecondsUntil(ends) \in Nat /\ SecondsUntil(row[p].expires) \in Nat
  BY <1>0, <1>1 DEF SecondsUntil, TokenRow
<1>3. /\ Answered(r, "ok") \in Request
      /\ Answered(r, "ok").kind = req[r].kind /\ Answered(r, "ok").refresh = None
      /\ Answered(r, "ok").at = "answered"
  BY Answers DEF Code
<1>4. /\ answer \in Request /\ answer.kind = req[r].kind /\ answer.refresh = None
      /\ answer.at = "answered" /\ answer.token = p
  <2>1. ASSUME NEW x \in Request, NEW m \in Nat, NEW n \in Nat
        PROVE  LET y == [x EXCEPT !.cookies = "write", !.token = p,
                           !.accessAge = m, !.refreshAge = n]
               IN  /\ y \in Request /\ y.kind = x.kind /\ y.refresh = x.refresh
                   /\ y.at = x.at /\ y.token = p
    BY <1>1 DEF Request
  <2> DEFINE old == Answered(r, "ok")
             accessAge == SecondsUntil(ends)
             refreshAge == SecondsUntil(row[p].expires)
  <2>2. answer = [old EXCEPT !.cookies = "write", !.token = p,
                    !.accessAge = accessAge, !.refreshAge = refreshAge]
    OBVIOUS
  <2>3. /\ old \in Request /\ old.kind = req[r].kind /\ old.refresh = None /\ old.at = "answered"
        /\ accessAge \in Nat /\ refreshAge \in Nat
    BY <1>2, <1>3
  <2> HIDE DEF old, accessAge, refreshAge, answer
  <2>4. \A x \in Request, m, n \in Nat :
          LET y == [x EXCEPT !.cookies = "write", !.token = p, !.accessAge = m, !.refreshAge = n]
          IN  /\ y \in Request /\ y.kind = x.kind /\ y.refresh = x.refresh
              /\ y.at = x.at /\ y.token = p
    BY <2>1
  <2>5. LET y == [old EXCEPT !.cookies = "write", !.token = p,
                    !.accessAge = accessAge, !.refreshAge = refreshAge]
        IN  /\ y \in Request /\ y.kind = old.kind /\ y.refresh = old.refresh
            /\ y.at = old.at /\ y.token = p
    BY ONLY <2>3, <2>4
  <2>6. QED
    BY ONLY <2>2, <2>3, <2>5
<1>5. req'[r] = answer
  BY <1>0
<1> HIDE DEF answer
<1>6. \A x \in Tokens : lock[x] # r
  BY <1>0, NoLockHeld
<1>7. /\ row' \in [Tokens -> TokenRow] /\ row'[p].family = row[p].family
      /\ row'[p].heir = row[p].heir /\ row'[p].by = row[p].by
      /\ row'[p].expires = row[p].expires /\ row'[p].state = row[p].state
      /\ \A x \in Tokens \ {p} : row'[x] = row[x]
  <2>1. [row[p] EXCEPT !.signed = ends] \in TokenRow
    BY <1>1 DEF TokenRow
  <2>2. QED
    BY <1>0, <1>1, <2>1 DEF TokenRow
<1>8. lock[p] \in {None, r}
  <2>1. ~(lock[p] \in Slots)
    <3>1. ASSUME NEW s \in Slots, lock[p] = s PROVE FALSE
      <4>1. req[s].refresh = p /\ RequestFits(s)
        BY <1>1, <3>1 DEF SessionInv, LocksAreHeld
      <4>2. p \in reached /\ p \notin reached
        BY <1>0, <1>1, <4>1 DEF RequestFits, MintFits, InFlight
      <4>3. QED
        BY <4>2
    <3>2. QED
      BY <3>1
  <2>2. QED
    BY <1>0, <1>1, <2>1
<1>9. RowsSettle(r)
  <2>1. req' = [req EXCEPT ![r] = req'[r]]
    BY <1>0, <1>5
  <2>2. ASSUME NEW x \in Tokens
        PROVE  /\ row'[x].family = row[x].family /\ row'[x].heir = row[x].heir
               /\ row'[x].by = row[x].by /\ row'[x].expires = row[x].expires
               /\ Exists(x)' <=> Exists(x)
               /\ IsLive(x)' => IsLive(x)
               /\ lock[x] \notin {None, r} => row'[x] = row[x]
               /\ row'[x].signed = row[x].signed \/ x = p
    BY <1>7, <1>8 DEF Exists, IsLive
  <2>3. /\ lock' \in [Tokens -> Slots \union {None}]
        /\ \A x \in Tokens : lock'[x] = lock[x] /\ lock[x] # r
    BY <1>0, <1>6
  <2>4. QED
    BY <1>0, <1>4, <1>5, <1>7, <2>1, <2>2, <2>3 DEF RowsSettle
<1>10. QED
  BY <1>9, RowsStep

LEMMA TickStep ==
  ASSUME SessionInv, Tick, UNCHANGED ClientVars
  PROVE  SessionInv'
<1> USE DEF ClientVars, Tick
<1>1. SessionTypeOK'
  BY DEF SessionInv, SessionTypeOK, ServerTypeOK
<1>2. ASSUME NEW s \in Slots
      PROVE  RequestFits(s)' /\ MintFits(s)' /\ JudgementStands(s)' /\ PresentsUnspent(s)'
  BY DEF SessionInv, RequestFits, MintFits, InFlight, JudgementStands, PresentsUnspent, Exists,
         IsLive, RefreshExpired
<1>3. TokensDiffer' /\ LocksAreHeld' /\ JarFits' /\ OneLiveTokenPerFamily'
  BY DEF SessionInv, TokensDiffer, InFlight, LocksAreHeld, JarFits, OneLiveTokenPerFamily, IsLive
<1>4. (\A p \in Tokens : RowFits(p)') /\ (\A c \in Calls : CallFits(c)')
  BY DEF SessionInv, RowFits, Exists, CallFits
<1>5. QED
  BY <1>1, <1>2, <1>3, <1>4 DEF SessionInv

-----------------------------------------------------------------------------
(* What an answer does to the jar: nothing, or the pair it brings replaces *)
(* the one that was there, or both cookies are taken off.                  *)
JarSettles ==
  \/ jar'.refresh \in {jar.refresh, None} /\ reached' = reached
  \/ \E r \in Slots :
       /\ req[r].at = "answered" /\ req[r].cookies = "write" /\ req'[r].at # "answered"
       /\ jar'.refresh = req[r].token /\ reached' = reached \union {req[r].token}

(* A request as a tab sends it, with what is in the jar by then.           *)
Fresh(s) ==
  /\ req[s].at \in {"idle", "answered"}
  /\ req'[s].at \in {"idle", "verify", "begin", "issue"}
  /\ req'[s].kind = "refresh" => s \in Tabs
  /\ req'[s].at = "begin" => req'[s].kind = "refresh"
  /\ req'[s].refresh \in {None, jar'.refresh}
  /\ req'[s].answer = "none"

(* A step of the browser: it writes nothing of the server's, hands answers *)
(* over and sends requests.                                                *)
ClientStep ==
  /\ UNCHANGED <<clock, row, lock, denied>>
  /\ SessionTypeOK'
  /\ JarSettles
  /\ \A s \in Slots : req'[s] = req[s] \/ Fresh(s)
  /\ \A c \in Calls : CallFits(c)'

LEMMA ClientPreserves ==
  ASSUME SessionInv, ClientStep
  PROVE  SessionInv'
<1>0. /\ UNCHANGED <<clock, row, lock, denied>> /\ row \in [Tokens -> TokenRow]
      /\ \A s \in Slots : req[s] \in Request /\ req'[s] \in Request
  BY DEF ClientStep, SessionInv, SessionTypeOK, ServerTypeOK
<1>1. \A s \in Slots : req'[s] = req[s] \/ Fresh(s)
  BY DEF ClientStep
<1>2. \A x \in Tokens : /\ Exists(x)' <=> Exists(x)
                        /\ IsLive(x)' <=> IsLive(x)
  BY <1>0 DEF Exists, IsLive
<1>3. /\ reached \subseteq reached'
      /\ \A x \in Tokens : x \in reached' \ reached =>
           /\ jar'.refresh = x /\ Exists(x)
           /\ \E r \in Slots : /\ InFlight(r) /\ req[r].at = "answered" /\ req[r].token = x
                               /\ row[x].by = r /\ ~InFlight(r)'
      /\ jar'.refresh \in {None, jar.refresh} \/ jar'.refresh \notin reached
  <2>1. CASE jar'.refresh \in {jar.refresh, None} /\ reached' = reached
    BY <2>1
  <2>2. ASSUME NEW r \in Slots,
               req[r].at = "answered", req[r].cookies = "write", req'[r].at # "answered",
               jar'.refresh = req[r].token, reached' = reached \union {req[r].token}
        PROVE  <1>3!:
    <3>1. InFlight(r) /\ MintFits(r)
      BY <2>2 DEF InFlight, SessionInv
    <3>2. /\ req[r].token \notin reached /\ Exists(req[r].token) /\ row[req[r].token].by = r
      BY <2>2, <3>1 DEF MintFits
    <3>3. ~InFlight(r)'
      BY <1>1, <2>2 DEF InFlight, Fresh
    <3>4. QED
      BY <2>2, <3>1, <3>2, <3>3
  <2>3. QED
    BY <2>1, <2>2 DEF ClientStep, JarSettles
<1>4. JarFits'
  BY DEF ClientStep, JarSettles, SessionInv, JarFits
<1>5. ASSUME NEW x \in Tokens PROVE RowFits(x)'
  <2>1. RowFits(x) /\ row[x].heir \in Tokens \union {None}
    BY <1>0 DEF SessionInv, TokenRow
  <2>2. ~Exists(x) => x \notin reached'
    BY <1>3, <2>1 DEF RowFits
  <2>3. row[x].heir # None /\ row[x].heir \in reached' => jar'.refresh # x
    BY <1>3, <2>1 DEF RowFits
  <2>4. /\ row[x].heir # None => x \in reached' /\ Exists(row[x].heir)'
        /\ Exists(x) => Exists(row[x].family)'
    BY <1>0, <1>3, <2>1 DEF RowFits, Exists
  <2>5. QED
    BY <1>0, <1>2, <2>1, <2>2, <2>3, <2>4 DEF RowFits
<1>50. \A x \in Tokens : row'[x].heir # None /\ row'[x].heir \in reached' => jar'.refresh # x
  BY <1>5 DEF RowFits
<1>6. ASSUME NEW s \in Slots
      PROVE  RequestFits(s)' /\ MintFits(s)' /\ JudgementStands(s)' /\ PresentsUnspent(s)'
  <2>1. RequestFits(s) /\ MintFits(s) /\ JudgementStands(s) /\ PresentsUnspent(s)
    BY DEF SessionInv
  <2>2. CASE Fresh(s)
    <3>1. RequestFits(s)'
      BY <1>4, <2>2 DEF RequestFits, Fresh, JarFits
    <3>2. MintFits(s)' /\ JudgementStands(s)'
      BY <2>2 DEF MintFits, JudgementStands, InFlight, Fresh
    <3>3. PresentsUnspent(s)'
      <4>1. CASE req'[s].refresh # None
        <5>1. req'[s].refresh \in Tokens /\ req'[s].refresh = jar'.refresh
          BY <1>0, <2>2, <4>1 DEF Fresh, Request
        <5>2. QED
          BY <1>50, <5>1 DEF PresentsUnspent
      <4>2. CASE req'[s].refresh = None
        BY <4>2 DEF PresentsUnspent
      <4>3. QED
        BY <4>1, <4>2
    <3>4. QED
      BY <3>1, <3>2, <3>3
  <2>3. CASE req'[s] = req[s]
    <3>0. req[s] \in Request
      BY <1>0
    <3>1. RequestFits(s)'
      BY <1>0, <1>3, <2>1, <2>3 DEF RequestFits, Exists
    <3>2. MintFits(s)'
      <4>1. CASE InFlight(s)
        <5>1. /\ req[s].token \in Tokens /\ req[s].token \notin reached
          BY <2>1, <3>0, <4>1 DEF MintFits, Request
        <5>2. req[s].token \notin reached'
          <6>1. SUFFICES ASSUME req[s].token \in reached' PROVE FALSE
            OBVIOUS
          <6>2. PICK r \in Slots : InFlight(r) /\ req[r].token = req[s].token /\ ~InFlight(r)'
            BY <1>3, <5>1, <6>1
          <6>3. r = s
            BY <4>1, <6>2 DEF SessionInv, TokensDiffer
          <6>4. InFlight(s)'
            BY <2>3, <4>1 DEF InFlight
          <6>5. QED
            BY <6>2, <6>3, <6>4
        <5>3. QED
          BY <1>0, <2>1, <2>3, <4>1, <5>2 DEF MintFits, InFlight, Exists
      <4>2. CASE ~InFlight(s)
        BY <2>3, <4>2 DEF MintFits, InFlight
      <4>3. QED
        BY <4>1, <4>2
    <3>3. JudgementStands(s)'
      BY <1>0, <2>1, <2>3 DEF JudgementStands, IsLive, RefreshExpired
    <3>4. PresentsUnspent(s)'
      <4>1. CASE req[s].at \in {"begin", "lock"} /\ req[s].refresh # None
        <5> DEFINE heir == row[req[s].refresh].heir
        <5>1. heir \in Tokens \union {None}
          BY <1>0, <3>0, <4>1 DEF TokenRow, Request
        <5>2. heir = None \/ row[heir].by # s \/ heir \notin reached
          BY <2>1, <4>1 DEF PresentsUnspent
        <5>3. heir # None /\ row[heir].by = s => heir \notin reached'
          BY <1>3, <4>1, <5>1, <5>2
        <5>4. QED
          BY <1>0, <2>3, <5>3 DEF PresentsUnspent
      <4>2. CASE ~(req[s].at \in {"begin", "lock"} /\ req[s].refresh # None)
        BY <2>3, <4>2 DEF PresentsUnspent
      <4>3. QED
        BY <4>1, <4>2
    <3>5. QED
      BY <3>1, <3>2, <3>3, <3>4
  <2>4. QED
    BY <1>1, <2>2, <2>3
<1>7. TokensDiffer'
  <2>1. \A s \in Slots : InFlight(s)' => InFlight(s) /\ req'[s].token = req[s].token
    BY <1>1 DEF InFlight, Fresh
  <2>2. QED
    BY <2>1 DEF SessionInv, TokensDiffer
<1>8. LocksAreHeld'
  <2>1. ASSUME NEW p \in Tokens, NEW r \in Slots, lock[p] = r
        PROVE  req'[r].at \in {"rotate", "family", "revoke"} /\ req'[r].refresh = p
    <3>1. req[r].at \in {"rotate", "family", "revoke"} /\ req[r].refresh = p
      BY <2>1 DEF SessionInv, LocksAreHeld
    <3>2. QED
      BY <1>1, <3>1 DEF Fresh
  <2>2. QED
    BY <1>0, <2>1 DEF LocksAreHeld
<1>9. OneLiveTokenPerFamily'
  BY <1>0 DEF SessionInv, OneLiveTokenPerFamily, IsLive
<1>10. SessionTypeOK' /\ \A c \in Calls : CallFits(c)'
  BY DEF ClientStep
<1>11. QED
  BY <1>4, <1>5, <1>6, <1>7, <1>8, <1>9, <1>10 DEF SessionInv

(* What a tab sends, and what the jar becomes.                             *)
Jar == [access : Tokens \union {None}, accessEnd : Nat,
        refresh : Tokens \union {None}, refreshEnd : Nat]

LEMMA SentFits ==
  ASSUME clock \in Nat, NEW cookies \in Jar, NEW kind \in Kind
  PROVE  /\ Sent(kind, cookies) \in Request
         /\ Sent(kind, cookies).kind = kind
         /\ Sent(kind, cookies).at \in {"verify", "begin", "issue"}
         /\ Sent(kind, cookies).at = "begin" => kind = "refresh"
         /\ Sent(kind, cookies).refresh \in {None, cookies.refresh}
         /\ Sent(kind, cookies).answer = "none"
BY DEF Sent, Arrived, AccessCookie, RefreshCookie, NoRequest, Request, Kind, Stage, Jar

LEMMA NoRequestFits ==
  /\ NoRequest \in Request /\ NoRequest.at = "idle" /\ NoRequest.kind = "none"
  /\ NoRequest.refresh = None /\ NoRequest.answer = "none"
BY DEF NoRequest, Request

LEMMA StoreFits ==
  ASSUME SessionInv, NEW r \in Slots, Store(req[r]), UNCHANGED clock,
         req[r].at = "answered", req'[r].at # "answered"
  PROVE  /\ jar' \in Jar /\ jar' = JarAfter(req[r]) /\ reached' \subseteq Tokens /\ JarSettles
<1>0. req[r] \in Request /\ jar \in Jar /\ clock \in Nat /\ reached \subseteq Tokens /\ MintFits(r)
  BY DEF SessionInv, SessionTypeOK, ServerTypeOK, Jar
<1>1. CASE req[r].cookies = "write"
  <2>1. req[r].token \in Tokens
    BY <1>0, <1>1 DEF MintFits, InFlight, Request
  <2>2. /\ jar' = [access |-> req[r].token, accessEnd |-> clock + req[r].accessAge,
                   refresh |-> req[r].token, refreshEnd |-> clock + req[r].refreshAge]
        /\ reached' = reached \union {req[r].token}
    BY <1>1 DEF Store, JarAfter
  <2>3. clock + req[r].accessAge \in Nat /\ clock + req[r].refreshAge \in Nat
    BY <1>0 DEF Request
  <2>4. QED
    BY <1>0, <1>1, <2>1, <2>2, <2>3 DEF Jar, Store, JarSettles
<1>2. CASE req[r].cookies = "clear"
  BY <1>0, <1>2 DEF Store, JarAfter, EmptyJar, Jar, JarSettles
<1>3. CASE req[r].cookies \notin {"write", "clear"}
  BY <1>0, <1>3 DEF Store, JarAfter, JarSettles
<1>4. QED
  BY <1>1, <1>2, <1>3

(* The calls of the api client: every request a slot gains is one a tab    *)
(* sent, and a slot that has one under way keeps it.                       *)
LEMMA StartStep ==
  ASSUME SessionInv, NEW c \in Calls,
         StartRead(c) \/ StartRestore(c) \/ StartLogIn(c) \/ StartLogOut(c)
  PROVE  ClientStep
<1>0. /\ c \in Slots /\ c \notin Tabs /\ clock \in Nat /\ jar \in Jar /\ started \in Nat
      /\ req \in [Slots -> Request] /\ call \in [Calls -> Call] /\ CallFits(c)
  BY DEF SessionInv, SessionTypeOK, ServerTypeOK, Jar
<1>1. PICK kind \in {"read", "restore", "login", "logout"}, request \in {"read", "login", "logout"} :
        Start(c, kind, request)
  BY DEF StartRead, StartRestore, StartLogIn, StartLogOut
<1> DEFINE sent == Sent(request, jar)
           asked == [NoCall EXCEPT !.kind = kind, !.at = "asked"]
<1>2. /\ sent \in Request /\ sent.kind = request /\ sent.at \in {"verify", "begin", "issue"}
      /\ sent.at = "begin" => request = "refresh"
      /\ sent.refresh \in {None, jar.refresh} /\ sent.answer = "none"
  BY <1>0, SentFits DEF Kind
<1>3. /\ req' = [req EXCEPT ![c] = sent] /\ call' = [call EXCEPT ![c] = asked]
      /\ call[c].at = "idle" /\ started < MaxCalls /\ started' = started + 1
      /\ UNCHANGED <<clock, row, lock, denied, jar, reached, screen>>
  BY <1>1 DEF Start
<1>4. asked \in Call /\ asked.at = "asked"
  BY DEF NoCall, Call
<1> HIDE DEF sent, asked
<1>5. /\ req' \in [Slots -> Request] /\ req'[c] = sent
      /\ \A s \in Slots \ {c} : req'[s] = req[s]
      /\ call' \in [Calls -> Call] /\ call'[c] = asked
      /\ \A d \in Calls \ {c} : call'[d] = call[d]
  BY <1>0, <1>2, <1>3, <1>4
<1>6. req[c].at = "idle"
  BY <1>0, <1>3 DEF CallFits
<1>7. Fresh(c)
  BY <1>0, <1>2, <1>3, <1>5, <1>6 DEF Fresh
<1>8. SessionTypeOK'
  BY <1>0, <1>3, <1>5 DEF SessionInv, SessionTypeOK, ServerTypeOK
<1>9. \A d \in Calls : CallFits(d)'
  BY <1>0, <1>4, <1>5 DEF SessionInv, CallFits
<1>10. QED
  BY <1>3, <1>5, <1>7, <1>8, <1>9 DEF ClientStep, JarSettles

LEMMA ReadStep ==
  ASSUME SessionInv, NEW c \in Calls, ReceiveRead(c)
  PROVE  ClientStep
<1> DEFINE tab == TabOf[c]
<1>0. /\ c \in Slots /\ c \notin Tabs /\ tab \in Tabs /\ tab \in Slots /\ tab # c
      /\ tab \notin Calls /\ clock \in Nat /\ jar \in Jar
      /\ req \in [Slots -> Request] /\ call \in [Calls -> Call] /\ req[c].at = "answered"
      /\ screen \in [Tabs -> {"in", "out", "ended"}]
      /\ UNCHANGED <<clock, row, lock, denied, jar, reached, started>>
  BY DEF SessionInv, SessionTypeOK, ServerTypeOK, Jar, ReceiveRead
<1>1. CASE AskRefresh(c) /\ UNCHANGED screen
  <2> DEFINE sent == Sent("refresh", jar)
             waits == [call[c] EXCEPT !.at = "waiting", !.on = tab]
  <2>1. /\ sent \in Request /\ sent.kind = "refresh" /\ sent.at \in {"verify", "begin", "issue"}
        /\ sent.refresh \in {None, jar.refresh} /\ sent.answer = "none"
    BY <1>0, SentFits DEF Kind
  <2>2. waits \in Call /\ waits.at = "waiting"
    <3>1. call[c] \in Call
      BY <1>0
    <3>2. QED
      BY <1>0, <3>1 DEF Call
  <2>3. /\ call' = [call EXCEPT ![c] = waits]
        /\ req' = [req EXCEPT ![c] = NoRequest,
                              ![tab] = IF req[tab].at = "idle" THEN sent ELSE req[tab]]
    BY <1>0, <1>1 DEF AskRefresh
  <2> HIDE DEF sent, waits
  <2>4. /\ req' \in [Slots -> Request] /\ req'[c] = NoRequest
        /\ req'[tab] = req[tab] \/ (req[tab].at = "idle" /\ req'[tab] = sent)
        /\ \A s \in Slots \ {c, tab} : req'[s] = req[s]
        /\ call' \in [Calls -> Call] /\ call'[c] = waits
        /\ \A d \in Calls \ {c} : call'[d] = call[d]
    BY <1>0, <2>1, <2>2, <2>3, NoRequestFits
  <2>5. Fresh(c) /\ (req'[tab] = req[tab] \/ Fresh(tab))
    BY <1>0, <2>1, <2>4, NoRequestFits DEF Fresh
  <2>6. SessionTypeOK'
    BY <1>0, <1>1, <2>4 DEF SessionInv, SessionTypeOK, ServerTypeOK
  <2>7. \A d \in Calls : CallFits(d)'
    BY <1>0, <2>4, NoRequestFits DEF SessionInv, CallFits
  <2>8. QED
    BY <1>0, <2>4, <2>5, <2>6, <2>7 DEF ClientStep, JarSettles
<1>2. CASE Settled(c)
  <2>1. screen' \in [Tabs -> {"in", "out", "ended"}]
    <3>1. screen' = screen \/ \E what \in {"in", "ended"} : Show(tab, what)
      BY <1>2 DEF ReceiveRead
    <3>2. QED
      BY <1>0, <3>1 DEF Show
  <2>2. NoCall \in Call
    BY DEF NoCall, Call
  <2>3. /\ req' \in [Slots -> Request] /\ req'[c] = NoRequest
        /\ \A s \in Slots \ {c} : req'[s] = req[s]
        /\ call' \in [Calls -> Call] /\ \A d \in Calls \ {c} : call'[d] = call[d]
    BY <1>0, <1>2, <2>2, NoRequestFits DEF Settled
  <2>4. Fresh(c)
    BY <1>0, <2>3, NoRequestFits DEF Fresh
  <2>5. SessionTypeOK'
    BY <1>0, <2>1, <2>3 DEF SessionInv, SessionTypeOK, ServerTypeOK
  <2>6. \A d \in Calls : CallFits(d)'
    BY <1>0, <2>3, NoRequestFits DEF SessionInv, CallFits
  <2>7. QED
    BY <1>0, <2>3, <2>4, <2>5, <2>6 DEF ClientStep, JarSettles
<1>3. QED
  BY <1>1, <1>2 DEF ReceiveRead

LEMMA RefreshStep ==
  ASSUME SessionInv, NEW r \in Slots, ReceiveRefresh(r)
  PROVE  ClientStep
<1> DEFINE answer == req[r]
           waiters == {c \in Calls : call[c].at = "waiting" /\ call[c].on = r}
           sent == Sent("read", JarAfter(answer))
<1>0. /\ answer.at = "answered" /\ answer.kind = "refresh" /\ clock \in Nat
      /\ req \in [Slots -> Request] /\ call \in [Calls -> Call]
      /\ screen \in [Tabs -> {"in", "out", "ended"}]
      /\ Store(answer) /\ UNCHANGED <<clock, row, lock, denied, started>>
      /\ RequestFits(r) /\ \A c \in Calls : CallFits(c)
  BY DEF SessionInv, SessionTypeOK, ServerTypeOK, ReceiveRefresh
<1>1. /\ r \in Tabs /\ r \notin Calls /\ waiters \subseteq Calls /\ Calls \subseteq Slots
      /\ \A c \in waiters : req[c].at = "idle" /\ call[c] \in Call
  BY <1>0 DEF RequestFits, CallFits
<1>2. ASSUME req'[r].at # "answered",
             \A s \in Slots : req'[s] = req[s] \/ Fresh(s), req' \in [Slots -> Request],
             call' \in [Calls -> Call], \A c \in Calls : CallFits(c)',
             screen' \in [Tabs -> {"in", "out", "ended"}]
      PROVE  ClientStep
  <2>1. jar' \in Jar /\ reached' \subseteq Tokens /\ JarSettles
    BY <1>0, <1>2, StoreFits
  <2>2. SessionTypeOK'
    BY <1>0, <1>2, <2>1 DEF SessionInv, SessionTypeOK, ServerTypeOK, Jar
  <2>3. QED
    BY <1>0, <1>2, <2>1, <2>2 DEF ClientStep
<1>3. CASE answer.answer = "ok"
  <2>1. /\ call' = [c \in Calls |-> IF c \in waiters
                      THEN [call[c] EXCEPT !.at = "retried", !.on = None] ELSE call[c]]
        /\ req' = [x \in Slots |-> IF x \in waiters THEN sent
                                   ELSE IF x = r THEN NoRequest ELSE req[x]]
        /\ UNCHANGED screen
    BY <1>3 DEF ReceiveRefresh
  <2>2. req'[r] = NoRequest /\ req'[r].at # "answered"
    BY <1>1, <2>1, NoRequestFits
  <2>3. jar' \in Jar /\ jar' = JarAfter(answer)
    BY <1>0, <2>2, StoreFits
  <2>4. /\ sent \in Request /\ sent.kind = "read" /\ sent.at \in {"verify", "begin", "issue"}
        /\ sent.at # "begin" /\ sent.refresh \in {None, jar'.refresh} /\ sent.answer = "none"
    BY <1>0, <2>3, SentFits DEF Kind
  <2> HIDE DEF sent, waiters, answer
  <2>5. /\ req' \in [Slots -> Request]
        /\ \A s \in Slots : req'[s] = req[s] \/ s = r \/ (s \in waiters /\ req'[s] = sent)
    BY <1>0, <1>1, <2>1, <2>4, NoRequestFits
  <2>6. Fresh(r) /\ \A s \in waiters : req'[s] = sent => Fresh(s)
    BY <1>0, <1>1, <2>2, <2>4, NoRequestFits DEF Fresh, answer
  <2>7. ASSUME NEW c \in Calls
        PROVE  /\ call'[c] \in Call
               /\ call'[c] = call[c] \/ (c \in waiters /\ call'[c].at = "retried")
    BY <1>0, <1>1, <2>1 DEF Call
  <2>8. call' \in [Calls -> Call]
    BY <2>1, <2>7
  <2>9. ASSUME NEW c \in Calls PROVE CallFits(c)'
    <3>1. CASE c \in waiters
      BY <1>1, <2>1, <3>1 DEF CallFits, Call
    <3>2. CASE c \notin waiters
      BY <1>0, <1>1, <2>1, <3>2 DEF CallFits
    <3>3. QED
      BY <3>1, <3>2
  <2>10. QED
    BY <1>0, <1>2, <2>1, <2>2, <2>5, <2>6, <2>8, <2>9
<1>4. CASE answer.answer # "ok"
  <2>1. /\ call' = [c \in Calls |-> IF c \in waiters THEN NoCall ELSE call[c]]
        /\ req' = [req EXCEPT ![r] = NoRequest]
        /\ screen' = screen \/ Show(TabOfSlot(r), "ended")
    BY <1>4 DEF ReceiveRefresh
  <2>2. /\ req' \in [Slots -> Request] /\ req'[r] = NoRequest
        /\ \A s \in Slots \ {r} : req'[s] = req[s]
    BY <1>0, <2>1, NoRequestFits
  <2>3. Fresh(r) /\ req'[r].at # "answered"
    BY <1>0, <2>2, NoRequestFits DEF Fresh
  <2>4. call' \in [Calls -> Call]
    BY <1>0, <2>1 DEF NoCall, Call
  <2>5. screen' \in [Tabs -> {"in", "out", "ended"}]
    BY <1>0, <2>1 DEF Show
  <2>6. \A c \in Calls : CallFits(c)'
    BY <1>0, <1>1, <2>1, <2>2 DEF CallFits
  <2>7. QED
    BY <1>2, <2>2, <2>3, <2>4, <2>5, <2>6
<1>5. QED
  BY <1>3, <1>4

LEMMA SignStepOfTheTab ==
  ASSUME SessionInv, NEW c \in Calls, ReceiveLogIn(c) \/ ReceiveLogOut(c)
  PROVE  ClientStep
<1>0. /\ c \in Slots /\ req[c].at = "answered" /\ clock \in Nat
      /\ req \in [Slots -> Request] /\ call \in [Calls -> Call]
      /\ screen \in [Tabs -> {"in", "out", "ended"}]
      /\ Store(req[c]) /\ UNCHANGED <<clock, row, lock, denied, started>>
      /\ \A d \in Calls : CallFits(d)
  BY DEF SessionInv, SessionTypeOK, ServerTypeOK, ReceiveLogIn, ReceiveLogOut
<1>1. screen' \in [Tabs -> {"in", "out", "ended"}]
  BY <1>0 DEF ReceiveLogIn, ReceiveLogOut, Show
<1>2. ASSUME NEW sent, req' = [req EXCEPT ![c] = sent],
             sent \in Request, sent.kind # "refresh",
             sent.at \in {"idle", "verify", "issue"}, sent.refresh \in {None, jar'.refresh},
             sent.answer = "none",
             NEW after \in Call, call' = [call EXCEPT ![c] = after],
             after.at \in {"idle", "waiting"} => sent.at = "idle"
      PROVE  ClientStep
  <2>1. /\ req' \in [Slots -> Request] /\ req'[c] = sent
        /\ \A s \in Slots \ {c} : req'[s] = req[s]
        /\ call' \in [Calls -> Call] /\ call'[c] = after
        /\ \A d \in Calls \ {c} : call'[d] = call[d]
    BY <1>0, <1>2
  <2>2. jar' \in Jar /\ reached' \subseteq Tokens /\ JarSettles
    BY <1>0, <1>2, <2>1, StoreFits
  <2>3. Fresh(c)
    BY <1>0, <1>2, <2>1 DEF Fresh
  <2>4. SessionTypeOK'
    BY <1>0, <1>1, <2>1, <2>2 DEF SessionInv, SessionTypeOK, ServerTypeOK, Jar
  <2>5. \A d \in Calls : CallFits(d)'
    BY <1>0, <1>2, <2>1 DEF CallFits
  <2>6. QED
    BY <1>0, <2>1, <2>2, <2>3, <2>4, <2>5 DEF ClientStep
<1>3. CASE Settled(c)
  <2>1. NoCall \in Call /\ NoCall.at = "idle"
    BY DEF NoCall, Call
  <2>2. QED
    BY <1>2, <1>3, <2>1, NoRequestFits DEF Settled
<1>4. CASE ReceiveLogIn(c) /\ req[c].answer = "ok"
  <2> DEFINE sent == Sent("read", JarAfter(req[c]))
             me == [call[c] EXCEPT !.kind = "me"]
  <2>1. /\ call' = [call EXCEPT ![c] = me] /\ req' = [req EXCEPT ![c] = sent]
    BY <1>0, <1>4 DEF ReceiveLogIn
  <2>2. req'[c] = sent /\ Sent("read", JarAfter(req[c])).at # "answered"
    BY <1>0, <2>1 DEF Sent, Arrived, NoRequest
  <2>3. jar' \in Jar /\ jar' = JarAfter(req[c])
    BY <1>0, <2>2, StoreFits
  <2>4. /\ sent \in Request /\ sent.kind = "read" /\ sent.at \in {"verify", "begin", "issue"}
        /\ sent.at # "begin" /\ sent.refresh \in {None, jar'.refresh} /\ sent.answer = "none"
    BY <1>0, <2>3, SentFits DEF Kind
  <2>5. me \in Call /\ me.at = call[c].at /\ call[c].at \notin {"idle", "waiting"}
    <3>1. call[c] \in Call /\ CallFits(c)
      BY <1>0
    <3>2. QED
      BY <1>0, <3>1 DEF Call, CallFits
  <2> HIDE DEF sent, me
  <2>6. QED
    BY <1>2, <2>1, <2>4, <2>5
<1>5. QED
  BY <1>3, <1>4 DEF ReceiveLogIn, ReceiveLogOut

-----------------------------------------------------------------------------
LEMMA SessionStep == SessionInv /\ [Next]_vars => SessionInv'
<1> SUFFICES ASSUME SessionInv, [Next]_vars PROVE SessionInv'
  OBVIOUS
<1>1. CASE Tick /\ UNCHANGED ClientVars
  BY <1>1, TickStep
<1>2. ASSUME NEW c \in Calls, StartRead(c) \/ StartRestore(c) \/ StartLogIn(c) \/ StartLogOut(c)
      PROVE  SessionInv'
  BY <1>2, StartStep, ClientPreserves
<1>3. ASSUME NEW r \in Slots, Receive(r) PROVE SessionInv'
  BY <1>3, ReadStep, RefreshStep, SignStepOfTheTab, ClientPreserves DEF Receive
<1>4. ASSUME NEW r \in Slots, ServerStep(r) \/ LockStep(r) \/ Failure(r), UNCHANGED ClientVars
      PROVE  SessionInv'
  BY <1>4, GuardStep, WithdrawStep, BeginStep, JudgeStep, RotateStep, IssueStep, SignStep, RevokeStep
     DEF ServerStep, LockStep, Failure
<1>5. CASE UNCHANGED vars
  BY <1>5 DEF vars, SessionInv, SessionTypeOK, ServerTypeOK, RequestFits, MintFits, InFlight,
              JudgementStands, PresentsUnspent, TokensDiffer, LocksAreHeld, RowFits, JarFits,
              CallFits, OneLiveTokenPerFamily, Exists, IsLive, RefreshExpired
<1>6. QED
  BY <1>1, <1>2, <1>3, <1>4, <1>5 DEF Next

LEMMA SessionInvariance == Spec => []SessionInv
<1>1. QED
  BY SessionInit, SessionStep, PTL DEF Spec

(* Every variable keeps its type: tokens, rows, requests, cookies, calls.  *)
THEOREM SessionTypeCorrect == Spec => []SessionTypeOK
<1>1. SessionInv => SessionTypeOK
  BY DEF SessionInv
<1>2. QED
  BY <1>1, SessionInvariance, PTL

(* "There is only ever one live link in the chain", whatever refreshes,    *)
(* sign outs and faults run at once: repository.go rotates under the lock  *)
(* of the presented row.                                                   *)
THEOREM OneLiveLink == Spec => []OneLiveTokenPerFamily
<1>1. SessionInv => OneLiveTokenPerFamily
  BY DEF SessionInv
<1>2. QED
  BY <1>1, SessionInvariance, PTL

-----------------------------------------------------------------------------
(* Only its own handler moves a request that is under way.                 *)
LEMMA ServerMovesItsOwn ==
  ASSUME SessionInv, NEW s \in Slots, ServerStep(s) \/ LockStep(s) \/ Failure(s)
  PROVE  \A r \in Slots \ {s} : req'[r] = req[r]
<1>0. req \in [Slots -> Request]
  BY DEF SessionInv, SessionTypeOK, ServerTypeOK
<1>1. \E new \in {req'[s]} : req' = [req EXCEPT ![s] = new]
  BY <1>0 DEF ServerStep, LockStep, Failure, Verify, CheckDenylist, Withdraw, StartRevoke, BeginRefresh,
              Rotate, Issue, RefuseLogIn, Sign, LockAndJudge, Revoke, DenylistUnreachable, Fault,
              Lose, Refuse, To, Admit
<1>2. QED
  BY <1>0, <1>1

LEMMA OwnHandler ==
  ASSUME SessionInv, [Next]_vars, NEW r \in Slots, req[r].at \notin {"idle", "answered"},
         req'[r] # req[r]
  PROVE  ServerStep(r) \/ LockStep(r) \/ Failure(r)
<1>1. CASE Tick \/ UNCHANGED vars
  BY <1>1 DEF Tick, vars
<1>2. ASSUME ClientStep PROVE FALSE
  BY <1>2 DEF ClientStep, Fresh
<1>3. ASSUME NEW c \in Calls, StartRead(c) \/ StartRestore(c) \/ StartLogIn(c) \/ StartLogOut(c)
      PROVE  FALSE
  BY <1>2, <1>3, StartStep
<1>4. ASSUME NEW s \in Slots, Receive(s) PROVE FALSE
  BY <1>2, <1>4, ReadStep, RefreshStep, SignStepOfTheTab DEF Receive
<1>5. ASSUME NEW s \in Slots, ServerStep(s) \/ LockStep(s) \/ Failure(s)
      PROVE  ServerStep(r) \/ LockStep(r) \/ Failure(r)
  BY <1>5, ServerMovesItsOwn
<1>6. QED
  BY <1>1, <1>3, <1>4, <1>5 DEF Next

(* A tab that presents a token which was spent did not spend it and hear   *)
(* about it: auth_client.go shares one refresh, so its own heir is in the  *)
(* jar by the time anything in that tab refreshes again.                   *)
THEOREM OwnRefreshIsSpentOnce == Spec => OwnRefreshIsNoReuse
<1> DEFINE NoReuse ==
             \A r \in Slots :
               req[r].at = "lock" /\ req'[r].at = "family" =>
                 LET heir == row[req[r].refresh].heir IN
                 \/ heir = None
                 \/ TabOfSlot(row[heir].by) # TabOfSlot(r)
                 \/ heir \notin reached
<1>1. SessionInv /\ [Next]_vars => [NoReuse]_vars
  <2> SUFFICES ASSUME SessionInv, NEW r \in Slots, req[r].at = "lock"
                 PROVE  LET heir == row[req[r].refresh].heir IN
                        \/ heir = None
                        \/ TabOfSlot(row[heir].by) # TabOfSlot(r)
                        \/ heir \notin reached
    OBVIOUS
  <2>2. RequestFits(r) /\ PresentsUnspent(r) /\ req[r] \in Request
    BY DEF SessionInv, SessionTypeOK, ServerTypeOK
  <2>3. r \in Tabs /\ req[r].refresh \in Tokens
    BY <2>2 DEF RequestFits, Request
  <2>4. RowFits(req[r].refresh)
    BY <2>3 DEF SessionInv
  <2>5. QED
    BY <2>2, <2>3, <2>4 DEF PresentsUnspent, RowFits, TabOfSlot
<1> HIDE DEF NoReuse
<1>2. Spec => [][NoReuse]_vars
  BY <1>1, SessionInvariance, PTL DEF Spec
<1>3. QED
  BY <1>2 DEF OwnRefreshIsNoReuse, NoReuse

-----------------------------------------------------------------------------
(* A request carries an answer only once it is answered.                   *)
Unanswered == \A r \in Slots : req[r].at # "answered" => req[r].answer = "none"

LEMMA UnansweredStep ==
  ASSUME SessionInv, Unanswered, [Next]_vars
  PROVE  Unanswered'
<1> SUFFICES ASSUME NEW r \in Slots, req'[r].at # "answered" PROVE req'[r].answer = "none"
  BY DEF Unanswered
<1>0. /\ req \in [Slots -> Request]
      /\ req[r].at # "answered" => req[r].answer = "none"
  BY DEF SessionInv, SessionTypeOK, ServerTypeOK, Unanswered
<1>1. CASE Tick \/ UNCHANGED vars
  BY <1>0, <1>1 DEF Tick, vars
<1>2. ASSUME ClientStep PROVE req'[r].answer = "none"
  <2>1. CASE Fresh(r)
    BY <2>1 DEF Fresh
  <2>2. CASE req'[r] = req[r]
    BY <1>0, <2>2
  <2>3. QED
    BY <1>2, <2>1, <2>2 DEF ClientStep
<1>3. ASSUME NEW c \in Calls, StartRead(c) \/ StartRestore(c) \/ StartLogIn(c) \/ StartLogOut(c)
      PROVE  req'[r].answer = "none"
  BY <1>2, <1>3, StartStep
<1>4. ASSUME NEW s \in Slots, Receive(s) PROVE req'[r].answer = "none"
  BY <1>2, <1>4, ReadStep, RefreshStep, SignStepOfTheTab DEF Receive
<1>5. ASSUME NEW s \in Slots, ServerStep(s) \/ LockStep(s) \/ Failure(s), UNCHANGED ClientVars
      PROVE  req'[r].answer = "none"
  <2>1. CASE s # r
    BY <1>0, <1>5, <2>1, ServerMovesItsOwn
  <2>2. CASE s = r
    <3>1. /\ Answered(r, "ok").at = "answered" /\ Answered(r, "lost").at = "answered"
          /\ \A code \in Code : Answered(r, code) \in Request /\ Answered(r, code).at = "answered"
      BY Answers DEF Code
    <3>2. ASSUME NEW code \in Code, Refuse(r, code) PROVE FALSE
      <4>1. PlainAnswer(r)
        BY <3>2, RefuseIsPlain
      <4>2. QED
        BY <4>1 DEF PlainAnswer
    <3>3. ASSUME NEW code \in Code, req' = [req EXCEPT ![r] = Answered(r, code)] PROVE FALSE
      <4>1. PlainAnswer(r)
        BY <3>3, RefuseIsPlain
      <4>2. QED
        BY <4>1 DEF PlainAnswer
    <3>4. ASSUME NEW stage \in Stage, req[r].at # "answered", req' = [req EXCEPT ![r].at = stage]
          PROVE  req'[r].answer = "none"
      BY <1>0, <3>4 DEF Request
    <3>5. CASE \/ Verify(r) \/ CheckDenylist(r) \/ Withdraw(r) \/ RefuseLogIn(r) \/ LockAndJudge(r)
               \/ Revoke(r) \/ Failure(r)
      BY <3>2, <3>3, <3>4, <3>5
         DEF Verify, CheckDenylist, Withdraw, RefuseLogIn, LockAndJudge, Revoke, Failure,
             DenylistUnreachable, Fault, Lose, To, Admit, Code, Stage
    <3>6. CASE StartRevoke(r) \/ Rotate(r)
      <4>1. CASE Rotate(r)
        BY <3>4, <4>1 DEF Rotate, To, Stage
      <4>2. CASE StartRevoke(r)
        <5>1. req' = [req EXCEPT ![r].at = "revoke", ![r].targets = LiveInFamily(req[r].refresh)]
          BY <4>2 DEF StartRevoke
        <5>2. req'[r].answer = req[r].answer
          BY ONLY <1>0, <5>1 DEF Request
        <5>3. QED
          BY <1>0, <4>2, <5>2 DEF StartRevoke
      <4>3. QED
        BY <3>6, <4>1, <4>2
    <3>7. CASE BeginRefresh(r) \/ Issue(r)
      <4>1. ASSUME NEW stage \in Stage, NEW p,
                   req' = [req EXCEPT ![r].at = stage, ![r].token = p, ![r].now = clock]
            PROVE  req'[r].answer = req[r].answer
        BY <1>0, <4>1 DEF Request
      <4>2. req'[r].answer = req[r].answer
        BY <3>2, <3>7, <4>1 DEF BeginRefresh, Issue, Code, Stage
      <4>3. QED
        BY <1>0, <3>7, <4>2 DEF BeginRefresh, Issue
    <3>8. CASE Sign(r)
      <4>1. req'[r].at = Answered(r, "ok").at
        BY <1>0, <3>8 DEF Sign, Answered, NoRequest
      <4>2. QED
        BY <3>1, <4>1
    <3>9. QED
      BY <1>5, <2>2, <3>5, <3>6, <3>7, <3>8 DEF ServerStep, LockStep
  <2>3. QED
    BY <2>1, <2>2
<1>6. QED
  BY <1>1, <1>3, <1>4, <1>5 DEF Next

(* A token on the denylist is refused while it would verify: redis.go is   *)
(* asked with the instant the entry was written for, and an entry is       *)
(* written for as long as its token is signed.                             *)
THEOREM WithdrawnStaysRefused == Spec => WithdrawnIsRefused
<1> DEFINE Refused ==
             \A r \in Slots :
               /\ req[r].at = "denylist"
               /\ req'[r].at = "withdraw" \/ req'[r].answer = "ok"
               /\ ~AccessExpired(req[r].access, clock)
               => denied[req[r].access] = 0
<1>1. Init => Unanswered
  BY DEF Init, ServerInit, Unanswered, NoRequest
<1>2. Spec => []Unanswered
  BY <1>1, UnansweredStep, SessionInvariance, PTL DEF Spec
<1>3. SessionInv /\ Unanswered /\ [Next]_vars => [Refused]_vars
  <2> SUFFICES ASSUME SessionInv, Unanswered, [Next]_vars, NEW r \in Slots,
                      req[r].at = "denylist", req'[r].at = "withdraw" \/ req'[r].answer = "ok",
                      ~AccessExpired(req[r].access, clock)
               PROVE  denied[req[r].access] = 0
    OBVIOUS
  <2>0. /\ req \in [Slots -> Request] /\ req[r] \in Request /\ RequestFits(r)
        /\ row \in [Tokens -> TokenRow] /\ denied \in [Tokens -> Nat] /\ clock \in Nat
    BY DEF SessionInv, SessionTypeOK, ServerTypeOK
  <2>1. req'[r] # req[r] /\ req[r].answer = "none"
    BY DEF Unanswered
  <2>2. ServerStep(r) \/ LockStep(r) \/ Failure(r)
    BY <2>1, OwnHandler
  <2>3. CheckDenylist(r) \/ DenylistUnreachable(r)
    BY <2>2 DEF ServerStep, LockStep, Failure, Verify, CheckDenylist, Withdraw, StartRevoke,
                BeginRefresh, Rotate, Issue, RefuseLogIn, Sign, LockAndJudge, Revoke, Fault, Lose
  <2>4. ASSUME Refuse(r, "token_invalid") PROVE FALSE
    BY <2>0, <2>4 DEF Refuse, Answered, NoRequest
  <2>5. ~IsDenied(req[r].access)
    BY <2>3, <2>4 DEF CheckDenylist, DenylistUnreachable
  <2>6. req[r].access \in Tokens
    BY <2>0 DEF RequestFits, Request
  <2>7. denied[req[r].access] \in {0, row[req[r].access].signed}
    BY <2>6 DEF SessionInv, RowFits
  <2>8. row[req[r].access].signed \in Nat
    BY <2>0, <2>6 DEF TokenRow
  <2>9. QED
    BY <2>0, <2>5, <2>6, <2>7, <2>8 DEF IsDenied, AccessExpired
<1> HIDE DEF Refused
<1>4. Spec => [][Refused]_vars
  BY <1>2, <1>3, SessionInvariance, PTL DEF Spec
<1>5. QED
  BY <1>4 DEF WithdrawnIsRefused, Refused

-----------------------------------------------------------------------------
(* The same requests put to the map.  A token's row as the map keeps it:   *)
LEMMA StoredRow ==
  ASSUME NEW p \in Tokens
  PROVE  /\ Stored[p].state = row[p].state /\ Stored[p].family = row[p].family
         /\ Stored[p].expires = row[p].expires
BY DEF Stored

(* The map judges a token as the locked row is judged.                     *)
LEMMA JudgedAlike ==
  ASSUME SessionInv, NEW r \in Slots, req[r].at \in {"lock", "rotate"}
  PROVE  LET p == req[r].refresh
             q == req[r].token IN
         /\ p \in Tokens /\ q \in Tokens /\ p # q
         /\ ~IsLive(p) => Rotated(r).answer = "ErrTokenReused"
         /\ IsLive(p) /\ RefreshExpired(p, req[r].now) => Rotated(r).answer = "ErrTokenExpired"
         /\ IsLive(p) /\ ~RefreshExpired(p, req[r].now) =>
              /\ Rotated(r).answer = "stored"
              /\ Rotated(r).store =
                   [Stored EXCEPT ![p].state = "revoked",
                                  ![q] = [state |-> "live", family |-> row[p].family,
                                          expires |-> req[r].now + RefreshTTL]]
<1> DEFINE p == req[r].refresh
           q == req[r].token
           next == [state |-> "live", family |-> row[p].family, expires |-> req[r].now + RefreshTTL]
           spent == [Stored EXCEPT ![p].state = "revoked"]
<1>0. /\ req[r] \in Request /\ RequestFits(r) /\ MintFits(r) /\ row \in [Tokens -> TokenRow]
  BY DEF SessionInv, SessionTypeOK, ServerTypeOK
<1>1. p \in Tokens /\ q \in Tokens /\ p \in reached /\ ~Exists(q)
  BY <1>0 DEF RequestFits, MintFits, InFlight, Request
<1>2. Exists(p) /\ p # q
  BY <1>1 DEF SessionInv, RowFits
<1>3. row[p].state \in {"live", "revoked"} /\ row[q].state = "absent"
  BY <1>0, <1>1, <1>2 DEF Exists, TokenRow
<1>4. Memory!Found(Stored, p) /\ (Memory!IsRevoked(Stored[p]) <=> ~IsLive(p))
  BY <1>1, <1>3, StoredRow DEF Memory!Found, Memory!IsRevoked, IsLive
<1>5. Memory!IsExpired(Stored[p], req[r].now) <=> RefreshExpired(p, req[r].now)
  BY <1>1, StoredRow DEF Memory!IsExpired, RefreshExpired
<1>6. ~Memory!Found(spent, q)
  BY <1>1, <1>2, <1>3, StoredRow DEF Memory!Found, Stored
<1>7. Stored[p].family = row[p].family
  BY <1>1, StoredRow
<1> DEFINE rotated == Rotated(r)
<1>8. rotated = IF ~IsLive(p)
                  THEN [answer |-> "ErrTokenReused", store |-> Memory!revokeFamily(Stored, row[p].family)]
                ELSE IF RefreshExpired(p, req[r].now)
                  THEN [answer |-> "ErrTokenExpired", store |-> Stored]
                ELSE [answer |-> "stored", store |-> [spent EXCEPT ![q] = next]]
  BY <1>4, <1>5, <1>6, <1>7 DEF Rotated, Memory!Rotate, Memory!insert
<1>9. [spent EXCEPT ![q] = next] = [Stored EXCEPT ![p].state = "revoked", ![q] = next]
  OBVIOUS
<1> HIDE DEF rotated
<1>10. /\ ~IsLive(p) => rotated.answer = "ErrTokenReused"
       /\ IsLive(p) /\ RefreshExpired(p, req[r].now) => rotated.answer = "ErrTokenExpired"
       /\ IsLive(p) /\ ~RefreshExpired(p, req[r].now) =>
            /\ rotated.answer = "stored"
            /\ rotated.store = [Stored EXCEPT ![p].state = "revoked", ![q] = next]
  BY <1>8, <1>9
<1>11. QED
  BY <1>1, <1>2, <1>10 DEF rotated

LEMMA OwnStatement ==
  ASSUME SessionInv, [Next]_vars, NEW r \in Slots, req'[r] # req[r]
  PROVE  /\ req[r].at = "lock" => LockAndJudge(r) \/ Fault(r)
         /\ req[r].at = "rotate" => Rotate(r) \/ Fault(r)
         /\ req[r].at = "issue" => Issue(r) \/ RefuseLogIn(r) \/ Fault(r)
         /\ req[r].at = "family" => StartRevoke(r) \/ Fault(r)
         /\ req[r].at = "withdraw" => Withdraw(r) \/ DenylistUnreachable(r)
<1>1. SUFFICES ASSUME req[r].at \in {"lock", "rotate", "issue", "family", "withdraw"}
               PROVE  \/ req[r].at = "lock" /\ (LockAndJudge(r) \/ Fault(r))
                      \/ req[r].at = "rotate" /\ (Rotate(r) \/ Fault(r))
                      \/ req[r].at = "issue" /\ (Issue(r) \/ RefuseLogIn(r) \/ Fault(r))
                      \/ req[r].at = "family" /\ (StartRevoke(r) \/ Fault(r))
                      \/ req[r].at = "withdraw" /\ (Withdraw(r) \/ DenylistUnreachable(r))
  OBVIOUS
<1>2. ServerStep(r) \/ LockStep(r) \/ Failure(r)
  BY <1>1, OwnHandler
<1>3. /\ Verify(r) => req[r].at = "verify"
      /\ CheckDenylist(r) => req[r].at = "denylist"
      /\ BeginRefresh(r) => req[r].at = "begin"
      /\ Sign(r) => req[r].at = "sign"
      /\ Revoke(r) => req[r].at = "revoke"
      /\ Lose(r) => req[r].at = "answered"
  BY DEF Verify, CheckDenylist, BeginRefresh, Sign, Revoke, Lose
<1>4. /\ Withdraw(r) => req[r].at = "withdraw"
      /\ StartRevoke(r) => req[r].at = "family"
      /\ Rotate(r) => req[r].at = "rotate"
      /\ Issue(r) => req[r].at = "issue"
      /\ RefuseLogIn(r) => req[r].at = "issue"
      /\ LockAndJudge(r) => req[r].at = "lock"
      /\ DenylistUnreachable(r) => req[r].at \in {"denylist", "withdraw"}
      /\ Fault(r) => req[r].at \in {"family", "revoke", "lock", "rotate", "issue", "sign"}
  BY DEF Withdraw, StartRevoke, Rotate, Issue, RefuseLogIn, LockAndJudge, DenylistUnreachable, Fault
<1>5. QED
  BY <1>1, <1>2, <1>3, <1>4 DEF ServerStep, LockStep, Failure

LEMMA RefusedWith ==
  ASSUME SessionInv, NEW r \in Slots, NEW code \in Code, Refuse(r, code)
  PROVE  req'[r].at = "answered" /\ req'[r].answer = code
<1>0. req \in [Slots -> Request]
  BY DEF SessionInv, SessionTypeOK, ServerTypeOK
<1>1. QED
  BY <1>0 DEF Refuse, Answered, NoRequest

LEMMA JudgeAgrees ==
  ASSUME SessionInv, [Next]_vars, NEW r \in Slots, req'[r] # req[r],
         req[r].at = "lock", req'[r].answer # "internal_error"
  PROVE  Rotated(r).answer \in DOMAIN Verdict /\ req'[r].at = Verdict[Rotated(r).answer]
<1> DEFINE p == req[r].refresh
<1>0. req \in [Slots -> Request]
  BY DEF SessionInv, SessionTypeOK, ServerTypeOK
<1>1. LockAndJudge(r)
  BY OwnStatement, RefusedWith DEF Fault, Code
<1>2. /\ ~IsLive(p) => Rotated(r).answer = "ErrTokenReused"
      /\ IsLive(p) /\ RefreshExpired(p, req[r].now) => Rotated(r).answer = "ErrTokenExpired"
      /\ IsLive(p) /\ ~RefreshExpired(p, req[r].now) => Rotated(r).answer = "stored"
  BY JudgedAlike
<1>3. /\ ~IsLive(p) => req'[r].at = "family"
      /\ IsLive(p) /\ RefreshExpired(p, req[r].now) => req'[r].at = "answered"
      /\ IsLive(p) /\ ~RefreshExpired(p, req[r].now) => req'[r].at = "rotate"
  BY <1>0, <1>1, RefusedWith DEF LockAndJudge, To, Request, Code
<1>4. /\ {"ErrTokenReused", "ErrTokenExpired", "stored"} \subseteq DOMAIN Verdict
      /\ Verdict["ErrTokenReused"] = "family" /\ Verdict["ErrTokenExpired"] = "answered"
      /\ Verdict["stored"] = "rotate"
  BY DEF Verdict
<1>5. QED
  BY <1>2, <1>3, <1>4

LEMMA RotateAgrees ==
  ASSUME SessionInv, [Next]_vars, NEW r \in Slots, req[r].at = "rotate", req'[r].at = "sign"
  PROVE  Rotated(r).answer = "stored" /\ Stored' = Rotated(r).store
<1> DEFINE p == req[r].refresh
           q == req[r].token
           next == [state |-> "live", family |-> row[p].family, expires |-> req[r].now + RefreshTTL]
           store == Rotated(r).store
<1>0. /\ req \in [Slots -> Request] /\ row \in [Tokens -> TokenRow] /\ JudgementStands(r)
  BY DEF SessionInv, SessionTypeOK, ServerTypeOK
<1>1. Rotate(r)
  BY OwnStatement, RefusedWith DEF Fault, Code
<1>2. /\ p \in Tokens /\ q \in Tokens /\ p # q /\ Rotated(r).answer = "stored"
      /\ store = [Stored EXCEPT ![p].state = "revoked", ![q] = next]
  BY <1>0, JudgedAlike DEF JudgementStands
<1> HIDE DEF store
<1>3. row' = [row EXCEPT ![p].state = "revoked", ![p].heir = q, ![q] = Minted(r, row[p].family)]
  BY <1>1 DEF Rotate
<1>4. ASSUME NEW x \in Tokens PROVE Stored'[x] = store[x]
  <2>1. Stored'[x] = [state |-> row'[x].state, family |-> row'[x].family, expires |-> row'[x].expires]
    BY DEF Stored
  <2>2. Stored[x] = [state |-> row[x].state, family |-> row[x].family, expires |-> row[x].expires]
    BY DEF Stored
  <2>3. Stored = [y \in Tokens |-> Stored[y]]
    BY DEF Stored
  <2>4. CASE x = q
    <3>1. row'[q] = Minted(r, row[p].family)
      BY <1>0, <1>2, <1>3
    <3>2. store[q] = next
      BY <1>2, <2>3
    <3>3. QED
      BY <2>1, <2>4, <3>1, <3>2 DEF Minted
  <2>5. CASE x = p
    <3>1. /\ row'[p].state = "revoked" /\ row'[p].family = row[p].family
          /\ row'[p].expires = row[p].expires
      BY <1>0, <1>2, <1>3 DEF TokenRow
    <3>2. store[p] = [Stored[p] EXCEPT !.state = "revoked"]
      BY <1>2, <2>3
    <3>3. QED
      BY <2>1, <2>2, <2>5, <3>1, <3>2
  <2>6. CASE x \notin {p, q}
    <3>1. row'[x] = row[x]
      BY <1>0, <1>2, <1>3, <2>6
    <3>2. store[x] = Stored[x]
      BY <1>2, <2>3, <2>6
    <3>3. QED
      BY <2>1, <2>2, <3>1, <3>2
  <2>7. QED
    BY <2>4, <2>5, <2>6
<1>5. store = [x \in Tokens |-> store[x]] /\ Stored' = [x \in Tokens |-> Stored'[x]]
  BY <1>2 DEF Stored
<1>6. QED
  BY <1>2, <1>4, <1>5 DEF store

LEMMA IssueAgrees ==
  ASSUME SessionInv, [Next]_vars, NEW r \in Slots, req[r].at = "issue", req'[r].at = "sign"
  PROVE  Opened(r).answer = "stored" /\ Stored' = Opened(r).store
<1>0. req \in [Slots -> Request] /\ row \in [Tokens -> TokenRow]
  BY DEF SessionInv, SessionTypeOK, ServerTypeOK
<1>1. Issue(r)
  BY OwnStatement, RefusedWith DEF Fault, RefuseLogIn, Code
<1>2. PICK p \in Unminted :
        /\ row' = [row EXCEPT ![p] = [Minted(r, p) EXCEPT !.expires = clock + RefreshTTL]]
        /\ req' = [req EXCEPT ![r].at = "sign", ![r].token = p, ![r].now = clock]
  BY <1>1 DEF Issue
<1> DEFINE opened == [state |-> "live", family |-> p, expires |-> clock + RefreshTTL]
<1>3. p \in Tokens /\ row[p].state = "absent"
  BY DEF Unminted
<1>4. req'[r].token = p /\ req'[r].now = clock
  BY <1>0, <1>2 DEF Request
<1>5. ~Memory!Found(Stored, p)
  BY <1>3, StoredRow DEF Memory!Found
<1>6. Opened(r) = [answer |-> "stored", store |-> [Stored EXCEPT ![p] = opened]]
  BY <1>4, <1>5 DEF Opened, Memory!Issue, Memory!insert
<1>7. ASSUME NEW x \in Tokens PROVE Stored'[x] = [Stored EXCEPT ![p] = opened][x]
  <2>1. Stored'[x] = [state |-> row'[x].state, family |-> row'[x].family, expires |-> row'[x].expires]
    BY DEF Stored
  <2>2. CASE x = p
    <3>1. row'[p] = [Minted(r, p) EXCEPT !.expires = clock + RefreshTTL]
      BY <1>0, <1>2, <1>3
    <3>2. Stored'[x] = opened
      BY <2>1, <2>2, <3>1 DEF Minted
    <3>3. QED
      BY <1>3, <2>2, <3>2 DEF Stored
  <2>3. CASE x # p
    <3>1. row'[x] = row[x]
      BY <1>0, <1>2, <1>3, <2>3
    <3>2. QED
      BY <2>1, <2>3, <3>1 DEF Stored
  <2>4. QED
    BY <2>2, <2>3
<1>8. Stored' = [Stored EXCEPT ![p] = opened]
  BY <1>7 DEF Stored
<1>9. QED
  BY <1>6, <1>8

LEMMA FamilyAgrees ==
  ASSUME SessionInv, [Next]_vars, NEW r \in Slots, req[r].at = "family", req'[r].at = "revoke"
  PROVE  req'[r].targets = {p \in Tokens : Ended(r)[p] # Stored[p]}
<1>0. req \in [Slots -> Request] /\ RequestFits(r)
  BY DEF SessionInv, SessionTypeOK, ServerTypeOK
<1>1. StartRevoke(r)
  BY OwnStatement, RefusedWith DEF Fault, Code
<1> DEFINE family == row[req[r].refresh].family
<1>2. req'[r].targets = LiveInFamily(req[r].refresh)
  BY <1>0, <1>1 DEF StartRevoke, Request
<1>3. ASSUME NEW p \in Tokens
      PROVE  Ended(r)[p] # Stored[p] <=> IsLive(p) /\ row[p].family = family
  <2>1. Stored[p] = [state |-> row[p].state, family |-> row[p].family, expires |-> row[p].expires]
    BY DEF Stored
  <2>2. Ended(r)[p] = IF Stored[p].family = family /\ Stored[p].state = "live"
                      THEN [Stored[p] EXCEPT !.state = "revoked"] ELSE Stored[p]
    BY DEF Ended, Memory!RevokeFamily, Memory!revokeFamily
  <2>3. QED
    BY <2>1, <2>2 DEF IsLive
<1>4. QED
  BY <1>2, <1>3 DEF LiveInFamily

LEMMA WithdrawAgrees ==
  ASSUME SessionInv, [Next]_vars, NEW r \in Slots, req'[r] # req[r],
         req[r].at = "withdraw", req'[r].answer # "token_invalid",
         NEW p \in Tokens, NEW now \in clock .. MaxTime
  PROVE  Memory!IsDenied(Memory!Deny(denied, req[r].access, row[req[r].access].signed), p, now)
           = (now < denied'[p])
<1> DEFINE a == req[r].access
<1>0. /\ req \in [Slots -> Request] /\ RequestFits(r) /\ denied \in [Tokens -> Nat]
      /\ row \in [Tokens -> TokenRow] /\ clock \in Nat /\ MaxTime \in Nat
  BY DEF SessionInv, SessionTypeOK, ServerTypeOK
<1>1. Withdraw(r)
  BY OwnStatement, RefusedWith DEF DenylistUnreachable, Code
<1>2. a \in Tokens
  BY <1>0, <1>1 DEF RequestFits, Request, Withdraw
<1>3. RowFits(a) /\ row[a] \in TokenRow /\ row[a].signed \in Nat
  BY <1>0, <1>2 DEF SessionInv, TokenRow
<1>4. now \in Nat /\ clock <= now
  BY <1>0
<1>5. denied' = IF AccessExpired(a, clock) THEN denied ELSE [denied EXCEPT ![a] = row[a].signed]
  BY <1>1 DEF Withdraw
<1> DEFINE until == [denied EXCEPT ![a] = row[a].signed]
<1>6. Memory!IsDenied(Memory!Deny(denied, a, row[a].signed), p, now) = (until[p] # 0 /\ now < until[p])
  BY DEF Memory!IsDenied, Memory!Deny
<1>7. until[p] \in Nat /\ denied[p] \in Nat /\ (p # a => until[p] = denied[p]) /\ until[a] = row[a].signed
  BY <1>0, <1>2, <1>3
<1>8. (until[p] # 0 /\ now < until[p]) <=> now < denied'[p]
  <2>1. CASE AccessExpired(a, clock)
    <3>1. row[a].signed <= clock /\ denied[a] <= row[a].signed
      BY <1>0, <1>2, <1>3, <2>1 DEF AccessExpired, RowFits
    <3>2. denied'[p] = denied[p]
      BY <1>5, <2>1
    <3>3. CASE p = a
      BY <1>3, <1>4, <1>0, <1>7, <3>1, <3>2, <3>3
    <3>4. CASE p # a
      BY <1>4, <1>7, <3>2, <3>4
    <3>5. QED
      BY <3>3, <3>4
  <2>2. CASE ~AccessExpired(a, clock)
    BY <1>4, <1>5, <1>7, <2>2
  <2>3. QED
    BY <2>1, <2>2
<1>9. QED
  BY <1>6, <1>8

(* A refresh, a sign in and a sign out do what the maps of the fast tests  *)
(* would do in one piece, though repository_postgres.go judges, writes and *)
(* ends a family in statements of their own and others run in between.     *)
THEOREM SessionAgrees == Spec => AgreesWithMemoryTokens
<1> DEFINE Agrees ==
             \A r \in Slots : req'[r] # req[r] =>
               /\ req[r].at = "lock" /\ req'[r].answer # "internal_error" =>
                    Rotated(r).answer \in DOMAIN Verdict /\ req'[r].at = Verdict[Rotated(r).answer]
               /\ req[r].at = "rotate" /\ req'[r].at = "sign" =>
                    Rotated(r).answer = "stored" /\ Stored' = Rotated(r).store
               /\ req[r].at = "issue" /\ req'[r].at = "sign" =>
                    Opened(r).answer = "stored" /\ Stored' = Opened(r).store
               /\ req[r].at = "family" /\ req'[r].at = "revoke" =>
                    req'[r].targets = {p \in Tokens : Ended(r)[p] # Stored[p]}
               /\ req[r].at = "withdraw" /\ req'[r].answer # "token_invalid" =>
                    \A p \in Tokens, now \in clock .. MaxTime :
                      Memory!IsDenied(Memory!Deny(denied, req[r].access, row[req[r].access].signed), p, now)
                        = (now < denied'[p])
<1>1. SessionInv /\ [Next]_vars => [Agrees]_vars
  BY JudgeAgrees, RotateAgrees, IssueAgrees, FamilyAgrees, WithdrawAgrees
<1>2. QED
  BY <1>1, SessionInvariance, PTL DEF Spec, AgreesWithMemoryTokens
=============================================================================
