--------------------------- MODULE ResponseCache ---------------------------
(***************************************************************************)
(* The cached class list behind the api: httpx/conditional.go over         *)
(* cache/store_redis.go, built from a replica that lags the primary.       *)
(*                                                                         *)
(* A content is one answer of the seat count query, and stands for the     *)
(* bytes of the body: equal contents are equal bytes and so equal digests. *)
(* A read is several calls to Redis and one to the replica, and a write    *)
(* commits before it invalidates; every one of these is a step, so a write *)
(* can fall between any two steps of a read.                               *)
(*                                                                         *)
(* Time is counted in ticks and never stored: a stored body carries the    *)
(* lifetime it has left, and gone says how long ago the primary last had   *)
(* each content (a history variable, which no step of the code reads).     *)
(***************************************************************************)
EXTENDS Naturals, FiniteSets

CONSTANTS
  Reads,        \* calls of the class list, one at a time each
  Writes,       \* bookings, payments and cancellations, one at a time each
  Contents,     \* what the seat count query can answer
  Lifetime,     \* DefaultLifetime, in ticks
  Lag,          \* the replica is at most this far behind (external)
  Patience,     \* a call is answered or given up within this many ticks
  MaxCommits,   \* bound on the writes that move a seat
  Horizon,      \* where gone stops counting
  None          \* no content

ASSUME CacheAssumption ==
  /\ Reads \cap Writes = {} /\ None \notin Contents /\ IsFiniteSet(Writes)
  /\ Lifetime \in Nat \ {0} /\ Lag \in Nat /\ Patience \in Nat /\ Horizon \in Nat
  /\ MaxCommits \in Nat

VARIABLES
  seats,        \* what the primary would answer now
  replica,      \* what the replica would answer now
  commits,      \* how many writes moved a seat
  version,      \* cache:classes:version, zero while absent
  stored,       \* cache:classes:body
  read,         \* where each read is
  write,        \* where each write is
  gone          \* ticks since the primary last had this content

serverVars == <<seats, replica, commits, version, stored, read, write, gone>>

NoTag == <<>>
Tags == (0..MaxCommits) \X Contents

(* A tag is the version and the digest, and no tag is never a match. The   *)
(* second form leaves the digest out.                                      *)
BuildETagOfVersion(v, body) == <<v, CHOOSE c \in Contents : TRUE>>
BuildETag(v, body) == <<v, body>>
ETagMatches(presented, tag) == presented # NoTag /\ presented = tag

NoBody == [tag |-> NoTag, body |-> None, left |-> 0]
IdleRead == [at |-> "idle", presented |-> NoTag, tag |-> NoTag, body |-> None, open |-> 0]
IdleWrite == [at |-> "idle", open |-> 0]

StoredBody == [tag : Tags \cup {NoTag}, body : Contents \cup {None}, left : 0..Lifetime]
ReadCall == [at : {"idle", "asked", "missed", "built", "tagged", "ok", "same", "failed", "cached"},
             presented : Tags \cup {NoTag}, tag : Tags \cup {NoTag},
             body : Contents \cup {None}, open : 0..Patience]
WriteCall == [at : {"idle", "asked", "committed", "ok", "failed"}, open : 0..Patience]

ServerTypeOK ==
  /\ seats \in Contents /\ replica \in Contents
  /\ commits \in 0..MaxCommits /\ version \in 0..MaxCommits
  /\ stored \in StoredBody
  /\ stored.left > 0 => stored.body \in Contents /\ stored.tag \in Tags
  /\ read \in [Reads -> ReadCall] /\ write \in [Writes -> WriteCall]
  /\ gone \in [Contents -> 0..Horizon]

ServerInit ==
  /\ seats \in Contents /\ replica = seats /\ commits = 0
  /\ version = 0 /\ stored = NoBody
  /\ read = [r \in Reads |-> IdleRead] /\ write = [w \in Writes |-> IdleWrite]
  /\ gone = [c \in Contents |-> IF c = seats THEN 0 ELSE Horizon]

(* The answer of a read: a body with its tag, a 304, or a refusal.         *)
Answer(r, status, tag, body) ==
  read' = [read EXCEPT ![r] = [IdleRead EXCEPT !.at = status, !.tag = tag, !.body = body, !.open = read[r].open]]
AnswerBody(r, tag, body) ==
  IF ETagMatches(read[r].presented, tag) THEN Answer(r, "same", NoTag, None) ELSE Answer(r, "ok", tag, body)

(***************************************************************************)
(* Serve: a stored body answers, with 304 when the caller holds its tag; a *)
(* miss, or a store that cannot be reached, is built.                      *)
(***************************************************************************)
ServeStored(r) ==
  /\ read[r].at = "asked" /\ stored.left > 0
  /\ AnswerBody(r, stored.tag, stored.body)
  /\ UNCHANGED <<seats, replica, commits, version, stored, write, gone>>

Miss(r) ==
  /\ read[r].at = "asked"
  /\ read' = [read EXCEPT ![r].at = "missed"]
  /\ UNCHANGED <<seats, replica, commits, version, stored, write, gone>>

(* rebuild: the replica is read, or cannot be and the call is denied.      *)
Build(r) ==
  /\ read[r].at = "missed"
  /\ read' = [read EXCEPT ![r].at = "built", ![r].body = replica]
  /\ UNCHANGED <<seats, replica, commits, version, stored, write, gone>>

BuildFails(r) ==
  /\ read[r].at = "missed"
  /\ Answer(r, "failed", NoTag, None)
  /\ UNCHANGED <<seats, replica, commits, version, stored, write, gone>>

(* The version is read after the body; one that cannot be read is zero.    *)
ReadVersion(r) ==
  /\ read[r].at = "built"
  /\ \E v \in {version, 0} :
       read' = [read EXCEPT ![r].at = "tagged", ![r].tag = BuildETag(v, read[r].body)]
  /\ UNCHANGED <<seats, replica, commits, version, stored, write, gone>>

(* A body is stored with its tag and its lifetime.                         *)
Save(tag, body) == [tag |-> tag, body |-> body, left |-> Lifetime]

(* Storing is best effort; the caller is answered either way.              *)
Publish(r) ==
  /\ read[r].at = "tagged"
  /\ \/ stored' = Save(read[r].tag, read[r].body)
     \/ UNCHANGED stored
  /\ AnswerBody(r, read[r].tag, read[r].body)
  /\ UNCHANGED <<seats, replica, commits, version, write, gone>>

(***************************************************************************)
(* A write commits on the primary, then invalidates, then is answered. It  *)
(* may be refused before it commits, and the process may stop, or Redis be *)
(* out of reach, before the invalidation; the answer may be lost after.    *)
(***************************************************************************)
Commit(w) ==
  /\ write[w].at = "asked" /\ commits < MaxCommits
  /\ \E c \in Contents \ {seats} : seats' = c /\ gone' = [gone EXCEPT ![c] = 0]
  /\ commits' = commits + 1
  /\ write' = [write EXCEPT ![w].at = "committed"]
  /\ UNCHANGED <<replica, version, stored, read>>

RefuseWrite(w) ==
  /\ write[w].at = "asked"
  /\ write' = [write EXCEPT ![w].at = "failed"]
  /\ UNCHANGED <<seats, replica, commits, version, stored, read, gone>>

(* Invalidate: the counter and the body move in one transaction.           *)
Invalidate(w) ==
  /\ write[w].at = "committed"
  /\ \/ version' = version + 1 /\ stored' = NoBody
     \/ UNCHANGED <<version, stored>>
  /\ \E status \in {"ok", "failed"} : write' = [write EXCEPT ![w].at = status]
  /\ UNCHANGED <<seats, replica, commits, read, gone>>

(* The replica replays what the primary committed (external).              *)
Replicate ==
  /\ replica # seats
  /\ replica' = seats
  /\ UNCHANGED <<seats, commits, version, stored, read, write, gone>>

Sooner(n) == IF n < Horizon THEN n + 1 ELSE n

(* A stored body runs out, unless Save forgot the expiry.                  *)
NeverOlder(left) == left
Older(left) == IF left > 0 THEN left - 1 ELSE 0

(* What a tick does to the server: bodies run out, calls stay open.        *)
ServerTick ==
  /\ gone[replica] < Lag \/ replica = seats
  /\ \A r \in Reads : read[r].at # "idle" => read[r].open < Patience
  /\ \A w \in Writes : write[w].at # "idle" => write[w].open < Patience
  /\ gone' = [c \in Contents |-> IF c = seats THEN 0 ELSE Sooner(gone[c])]
  /\ stored' = IF Older(stored.left) > 0 THEN [stored EXCEPT !.left = Older(@)] ELSE NoBody
  /\ read' = [r \in Reads |-> IF read[r].at = "idle" THEN read[r] ELSE [read[r] EXCEPT !.open = @ + 1]]
  /\ write' = [w \in Writes |-> IF write[w].at = "idle" THEN write[w] ELSE [write[w] EXCEPT !.open = @ + 1]]
  /\ UNCHANGED <<seats, replica, commits, version>>

ReadStep(r) ==
  ServeStored(r) \/ Miss(r) \/ Build(r) \/ BuildFails(r) \/ ReadVersion(r) \/ Publish(r)
WriteStep(w) == Commit(w) \/ RefuseWrite(w) \/ Invalidate(w)
=============================================================================
