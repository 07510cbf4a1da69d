----------------------------- MODULE ReadCache -----------------------------
(***************************************************************************)
(* The class list on one screen: stores/classes.ts reads it through        *)
(* cache/read_through.ts, over the api's response cache.  A load serves a  *)
(* fresh entry, serves a stale one and confirms it in the background, or   *)
(* asks first and waits.  A write of this browser ages every entry to      *)
(* cold; a sign-out drops them.                                            *)
(*                                                                         *)
(* Beneath it is the cache the browser keeps itself, which the api invites *)
(* with max-age and stale-while-revalidate: it may answer a load that      *)
(* carries no tag, and no code of the screen can empty it.  A load that    *)
(* carries a tag goes round it.                                            *)
(*                                                                         *)
(* Loads are not single flight, the background confirmation is, and each   *)
(* of them applies its answer to whatever the entry is by then.            *)
(***************************************************************************)
EXTENDS ResponseCache

CONSTANTS
  Background,   \* the one confirmation in flight, a member of Reads
  Revalidation, \* the browser's own, of its copy, a member of Reads
  Own,          \* the write of this browser, a member of Writes
  Fresh,        \* freshWindowMilliseconds, in ticks
  Stale,        \* staleWindowMilliseconds, in ticks
  MaxAge,       \* max-age, in ticks
  StaleWhileRevalidate   \* stale-while-revalidate, in ticks

ASSUME ClientAssumption ==
  /\ Background \in Reads /\ Own \in Writes
  /\ Revalidation \in Reads /\ Revalidation # Background
  /\ Fresh \in Nat \ {0} /\ Stale \in Nat /\ Fresh < Stale
  /\ MaxAge \in Nat \ {0} /\ StaleWhileRevalidate \in Nat

VARIABLES
  entry,        \* what the cache store holds for the list
  held,         \* the copy each waiting read asked about
  shown,        \* the list on the screen
  browser       \* the answer the browser's own cache keeps

clientVars == <<entry, held, shown, browser>>
vars == <<serverVars, clientVars>>

Loads == Reads \ {Background, Revalidation}

(* For how long a kept answer may stand in for the api (cacheableReadPolicy). *)
CopyLife == MaxAge + StaleWhileRevalidate

NoEntry == [tag |-> NoTag, body |-> None, age |-> Stale]
NoCopy == [tag |-> NoTag, body |-> None, age |-> CopyLife]

(* tierForAge; an age at or past the stale window is cold.                 *)
Tier(age) == IF age < Fresh THEN "fresh" ELSE IF age < Stale THEN "stale" ELSE "cold"

Saved(tag, body) == [tag |-> tag, body |-> body, age |-> 0]
Restamped(age) == IF entry = NoEntry THEN NoEntry ELSE [entry EXCEPT !.age = age]
Touched == Restamped(0)

Invalidated == Restamped(Stale)

(* Every variable stays in its type, and a stored body keeps its tag.      *)
TypeOK ==
  /\ ServerTypeOK
  /\ entry \in [tag : Tags \cup {NoTag}, body : Contents \cup {None}, age : 0..Stale]
  /\ held \in [Reads -> Contents \cup {None}]
  /\ shown \in Contents \cup {None}
  /\ browser \in [tag : Tags \cup {NoTag}, body : Contents \cup {None}, age : 0..CopyLife]

Init ==
  /\ ServerInit
  /\ entry = NoEntry /\ held = [r \in Reads |-> None] /\ shown = None /\ browser = NoCopy

Ask(r, tag, copy) ==
  /\ read' = [read EXCEPT ![r] = [IdleRead EXCEPT !.at = "asked", !.presented = tag]]
  /\ held' = [held EXCEPT ![r] = copy]

Done(r) ==
  /\ read' = [read EXCEPT ![r] = IdleRead]
  /\ held' = [held EXCEPT ![r] = None]

serverRest == <<seats, replica, commits, version, stored, write, gone>>

(* read, by tier: rendered as it is, rendered and confirmed, or asked.     *)
ServeFresh(l) ==
  /\ read[l].at = "idle" /\ Tier(entry.age) = "fresh"
  /\ shown' = entry.body
  /\ UNCHANGED <<serverRest, read, entry, held, browser>>

ServeStale(l) ==
  /\ read[l].at = "idle" /\ Tier(entry.age) = "stale"
  /\ shown' = entry.body
  /\ IF read[Background].at = "idle"
       THEN Ask(Background, entry.tag, None)
       ELSE UNCHANGED <<read, held>>
  /\ UNCHANGED <<serverRest, entry, browser>>

AskFirst(l) ==
  /\ read[l].at = "idle" /\ Tier(entry.age) = "cold"
  /\ Ask(l, entry.tag, entry.body)
  /\ UNCHANGED <<serverRest, entry, shown, browser>>

(* With no entry there is no tag to ask under, and the browser may answer  *)
(* from its own copy without the api.  Past its max-age it asks meanwhile. *)
AnswerFromBrowser(l) ==
  /\ read[l].at = "idle" /\ entry = NoEntry
  /\ browser.age < CopyLife
  /\ read' = [r \in Reads |->
       IF r = l THEN [IdleRead EXCEPT !.at = "cached", !.tag = browser.tag, !.body = browser.body]
       ELSE IF r = Revalidation /\ read[r].at = "idle" /\ browser.age >= MaxAge
              THEN [IdleRead EXCEPT !.at = "asked"] ELSE read[r]]
  /\ UNCHANGED <<serverRest, clientVars>>

Load(l) == ServeFresh(l) \/ ServeStale(l) \/ AskFirst(l) \/ AnswerFromBrowser(l)

(* The browser may keep the answer of a call that carried no tag, its own  *)
(* confirmation among them; that a 304 answers it is the same to us, since *)
(* the tag of its copy names the body.  Whoever asked gets it as well.     *)
Keep(r) ==
  /\ read[r].at = "ok" /\ r # Background /\ held[r] = None
  /\ browser' = Saved(read[r].tag, read[r].body)
  /\ UNCHANGED <<serverVars, entry, held, shown>>

(***************************************************************************)
(* The answer of a read.  A body replaces the entry; a 304 restamps the    *)
(* entry the store holds by then, and a load renders the copy it asked     *)
(* about.  The background changes the entry and never the screen.          *)
(***************************************************************************)
Shows(r, body) == IF r = Background THEN UNCHANGED shown ELSE shown' = body

TakeBody(r) ==
  /\ read[r].at \in {"ok", "cached"} /\ r # Revalidation
  /\ entry' = Saved(read[r].tag, read[r].body)
  /\ Shows(r, read[r].body)
  /\ Done(r)
  /\ UNCHANGED <<serverRest, browser>>

TakeNotModified(r) ==
  /\ read[r].at = "same"
  /\ entry' = Touched
  /\ Shows(r, held[r])
  /\ Done(r)
  /\ UNCHANGED <<serverRest, browser>>

(* A failure, an answer that is lost, and what the browser asked for       *)
(* itself leave entry and screen alone.                                    *)
TakeFailure(r) ==
  /\ read[r].at \in {"ok", "same", "failed"}
  /\ Done(r)
  /\ UNCHANGED <<serverRest, entry, shown, browser>>

Receive(r) == TakeBody(r) \/ TakeNotModified(r) \/ TakeFailure(r)

(* The mutator: a success drops what the store holds, a failure nothing.   *)
StartWrite(w) ==
  /\ write[w].at = "idle" /\ commits < MaxCommits
  /\ write' = [write EXCEPT ![w] = [at |-> "asked", open |-> 0]]
  /\ UNCHANGED <<seats, replica, commits, version, stored, read, gone, clientVars>>

EndWrite(w) ==
  /\ write[w].at \in {"ok", "failed"}
  /\ write' = [write EXCEPT ![w] = IdleWrite]
  /\ entry' = IF w = Own /\ write[w].at = "ok" THEN Invalidated ELSE entry
  /\ UNCHANGED <<seats, replica, commits, version, stored, read, gone, held, shown, browser>>

(* hardSignOut drops the store and classes.reset the screen; the calls in  *)
(* flight are not stopped, and the browser's copy is out of its reach.     *)
SignOut ==
  /\ entry' = NoEntry /\ shown' = None
  /\ UNCHANGED <<serverVars, held, browser>>

(* A reload loses the page and its calls; the entry comes back from the    *)
(* session storage, unless storage refused to hold it.                     *)
Reload ==
  /\ write[Own].at = "idle"
  /\ read' = [r \in Reads |-> IF r = Revalidation THEN read[r] ELSE IdleRead]
  /\ held' = [r \in Reads |-> None]
  /\ entry' \in {entry, NoEntry} /\ shown' = None
  /\ UNCHANGED <<serverRest, browser>>

Tick ==
  /\ ServerTick
  /\ entry' = [entry EXCEPT !.age = IF @ < Stale THEN @ + 1 ELSE @]
  /\ browser' = IF browser.age + 1 < CopyLife THEN [browser EXCEPT !.age = @ + 1] ELSE NoCopy
  /\ UNCHANGED <<held, shown>>

ServerStep ==
  /\ \/ \E r \in Reads : ReadStep(r)
     \/ \E w \in Writes : WriteStep(w)
     \/ Replicate
  /\ UNCHANGED clientVars

ClientStep ==
  \/ \E l \in Loads : Load(l)
  \/ \E r \in Reads : Receive(r) \/ Keep(r)
  \/ \E w \in Writes : StartWrite(w) \/ EndWrite(w)
  \/ SignOut \/ Reload

Next == ServerStep \/ ClientStep \/ Tick

Spec == Init /\ [][Next]_vars

(***************************************************************************)
(* What a load would render without asking, and what an answer on its way  *)
(* would: the entry while it is warm, a body, the copy a 304 confirms.     *)
(***************************************************************************)
Renderable ==
  (IF Tier(entry.age) # "cold" THEN {entry.body} ELSE {})
    \cup {read[r].body : r \in {x \in Reads \ {Revalidation} : read[x].at \in {"ok", "cached"}}}
    \cup {held[l] : l \in {x \in Loads : read[x].at = "same"}}

(* The bound: the replica's lag, a body that waits to be stored, is stored *)
(* until its lifetime ends, is on its way, is the browser's copy until its *)
(* own ends, is on its way from there and then warm until the window ends, *)
(* and a 304 that restamps an entry it was not asked about.                *)
StaleBound ==
  Lag + Patience + (Lifetime - 1) + Patience + (CopyLife - 1) + Patience + (Stale - 1) + Patience

(***************************************************************************)
(* Whatever races with an invalidation, nothing a parent is shown is older *)
(* than every lifetime on its way added up: the three caches do not renew  *)
(* each other's stale copies (cache/store.go:8, response.go:20, policy.ts).*)
(***************************************************************************)
RenderedIsRecent == \A b \in Renderable : b \in Contents /\ gone[b] <= StaleBound

(***************************************************************************)
(* Once the writes are over, a parent who keeps opening the list ends up   *)
(* with the seat count the primary has.                                    *)
(***************************************************************************)
Takes(l) == TakeBody(l) \/ TakeNotModified(l)

Fairness ==
  /\ SF_vars(Tick) /\ WF_vars(Replicate /\ UNCHANGED clientVars)
  /\ \A r \in Reads : WF_vars(ReadStep(r) /\ UNCHANGED clientVars) /\ WF_vars(Receive(r))
  /\ \A l \in Loads :
       WF_vars(Load(l)) /\ SF_vars(Build(l) /\ UNCHANGED clientVars) /\ SF_vars(Takes(l))
  /\ \A w \in Writes : WF_vars(WriteStep(w) /\ UNCHANGED clientVars) /\ WF_vars(EndWrite(w))

FairSpec == Spec /\ Fairness

ScreenCatchesUp == <>[](shown \in {None, seats})

=============================================================================
