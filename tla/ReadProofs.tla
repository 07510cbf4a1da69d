----------------------------- MODULE ReadProofs -----------------------------
(***************************************************************************)
(* The class list of one screen is never older than the lifetimes it       *)
(* passes, for any number of calls, writes, contents and any lifetimes.    *)
(* ReadInv follows a content from the replica into the body a call built,  *)
(* into the stored body, into the answer, into the copy the browser keeps  *)
(* and into the entry, and says of each place how old what is there may be.*)
(***************************************************************************)
EXTENDS ReadCache, FiniteSetTheorems, TLAPS

USE CacheAssumption, ClientAssumption

(* The oldest a content is when the server answers with it.                *)
Served == Lag + Patience + (Lifetime - 1)

(* And the oldest it is when the browser answers with its copy.            *)
Kept == Served + Patience + (CopyLife - 1)

UnderWay == {"asked", "missed", "built", "tagged"}

(* The count that gives a version its bound: every version is of a write   *)
(* that has committed and invalidates no more.                             *)
Committed == {w \in Writes : write[w].at = "committed"}
VersionsAreOfCommits == version + Cardinality(Committed) <= commits

(* The replica is behind by the lag at most.                               *)
ReplicaIsRecent == gone[seats] = 0 /\ gone[replica] <= Lag

(* A stored body waited to be stored, and has aged since.                  *)
StoredIsRecent ==
  stored.left > 0 =>
    /\ stored.tag[2] = stored.body
    /\ gone[stored.body] <= Lag + Patience + (Lifetime - stored.left)

(* What a call has built, or is answered with.                             *)
AnswerIsRecent(r) ==
  /\ read[r].at \in {"built", "tagged"} =>
       read[r].body \in Contents /\ gone[read[r].body] <= Lag + read[r].open
  /\ read[r].at = "ok" =>
       read[r].body \in Contents /\ gone[read[r].body] <= Served + read[r].open
  /\ read[r].at = "cached" =>
       read[r].body \in Contents /\ gone[read[r].body] <= Kept + read[r].open
  /\ read[r].at \in {"tagged", "ok", "cached"} => read[r].tag \in Tags /\ read[r].tag[2] = read[r].body

(* The copy a load keeps is the one its tag names, and a 304 confirms it.  *)
CopyIsRecent(r) ==
  r \in Loads =>
    /\ read[r].at \in UnderWay /\ read[r].presented # NoTag => held[r] = read[r].presented[2]
    /\ read[r].at = "same" => held[r] \in Contents /\ gone[held[r]] <= Served + read[r].open

(* A call asks about the entry, or the entry is newer than the call is     *)
(* old; so a 304 only makes an entry young that is young enough.           *)
ConfirmsWhatIsRecent(r) ==
  entry # NoEntry =>
    /\ read[r].at \in UnderWay =>
         \/ read[r].presented # NoTag /\ read[r].presented[2] = entry.body
         \/ gone[entry.body] <= Kept + Patience + read[r].open
    /\ read[r].at = "same" => gone[entry.body] <= Kept + Patience + read[r].open

(* The entry has a body under its tag, and is as old as its age says.      *)
EntryIsRecent ==
  /\ entry # NoEntry => entry.body \in Contents /\ entry.tag \in Tags /\ entry.tag[2] = entry.body
  /\ entry.age < Stale => gone[entry.body] <= Kept + Patience + Patience + entry.age

(* The browser's copy was an answer on its way, and has aged since.        *)
BrowserIsRecent ==
  browser.age < CopyLife =>
    /\ browser.body \in Contents /\ browser.tag \in Tags /\ browser.tag[2] = browser.body
    /\ gone[browser.body] <= Served + Patience + browser.age

ReadIsTrue(r) == AnswerIsRecent(r) /\ CopyIsRecent(r) /\ ConfirmsWhatIsRecent(r)

ReadInv ==
  /\ TypeOK /\ VersionsAreOfCommits
  /\ ReplicaIsRecent /\ StoredIsRecent /\ EntryIsRecent /\ BrowserIsRecent
  /\ \A r \in Reads : ReadIsTrue(r)
-----------------------------------------------------------------------------
(* What every place of a well-typed state may be.                          *)
LEMMA Typed ==
  ASSUME TypeOK
  PROVE  /\ seats \in Contents /\ replica \in Contents /\ version \in Nat /\ commits \in Nat
         /\ stored \in StoredBody /\ stored.left \in 0 .. Lifetime
         /\ stored.left > 0 => stored.body \in Contents /\ stored.tag \in Tags
         /\ \A c \in Contents : gone[c] \in Nat
         /\ \A r \in Reads : read[r] \in ReadCall /\ read[r].open \in 0 .. Patience
         /\ entry.age \in 0 .. Stale /\ browser.age \in 0 .. CopyLife
BY DEF TypeOK, ServerTypeOK, StoredBody, ReadCall

LEMMA TheBounds ==
  /\ Served \in Nat /\ Lag <= Served /\ Lag + Patience <= Served /\ Patience \in Nat
  /\ CopyLife \in Nat \ {0} /\ Kept \in Nat /\ Served + Patience + (CopyLife - 1) = Kept /\ Served + Patience <= Kept
<1>1. Served \in Nat /\ Lag <= Served /\ Lag + Patience <= Served /\ Patience \in Nat
  BY DEF Served
<1>2. CopyLife \in Nat \ {0}
  BY DEF CopyLife
<1>3. QED
  BY <1>1, <1>2 DEF Kept

(* What the browser's cache may keep.                                      *)
Copies == [tag : Tags \cup {NoTag}, body : Contents \cup {None}, age : 0..CopyLife]

(* Nothing is known of any content at first but the one the primary has.   *)
LEMMA ReadInit == Init => ReadInv
<1> SUFFICES ASSUME Init PROVE ReadInv
  OBVIOUS
<1> USE DEF Init, ServerInit
<1>1. TypeOK
  BY TheBounds DEF TypeOK, ServerTypeOK, StoredBody, ReadCall, WriteCall, NoBody, IdleRead, IdleWrite, NoEntry, NoCopy
<1>2. VersionsAreOfCommits
  <2>1. Committed = {}
    BY DEF Committed, IdleWrite
  <2>2. QED
    BY <2>1, FS_EmptySet DEF VersionsAreOfCommits
<1>3. ReplicaIsRecent /\ StoredIsRecent
  BY DEF ReplicaIsRecent, StoredIsRecent, NoBody
<1>4. EntryIsRecent /\ BrowserIsRecent
  BY TheBounds DEF EntryIsRecent, NoEntry, BrowserIsRecent, NoCopy
<1>5. \A r \in Reads : ReadIsTrue(r)
  BY DEF ReadIsTrue, AnswerIsRecent, CopyIsRecent, ConfirmsWhatIsRecent, IdleRead, UnderWay
<1>6. QED
  BY <1>1, <1>2, <1>3, <1>4, <1>5 DEF ReadInv
-----------------------------------------------------------------------------
(* What is left of a call that is answered.                                *)
LEMMA AnswerIs ==
  ASSUME NEW r, NEW status, NEW tag, NEW body
  PROVE  Answer(r, status, tag, body) <=>
           read' = [read EXCEPT ![r] = [at |-> status, presented |-> NoTag, tag |-> tag, body |-> body, open |-> read[r].open]]
BY DEF Answer, IdleRead

(* A call of the server moves, and nothing else but the stored body.       *)
LEMMA CallMoves ==
  ASSUME ReadInv, NEW r \in Reads, NEW call \in ReadCall, read' = [read EXCEPT ![r] = call],
         UNCHANGED <<seats, replica, commits, version, write, gone, clientVars>>,
         stored' \in StoredBody, StoredIsRecent',
         stored'.left > 0 => stored'.body \in Contents /\ stored'.tag \in Tags,
         ReadIsTrue(r)'
  PROVE  ReadInv'
<1>1. TypeOK'
  BY DEF ReadInv, TypeOK, ServerTypeOK, clientVars
<1>2. VersionsAreOfCommits' /\ ReplicaIsRecent' /\ EntryIsRecent' /\ BrowserIsRecent'
  BY DEF ReadInv, VersionsAreOfCommits, Committed, ReplicaIsRecent, EntryIsRecent, BrowserIsRecent, clientVars
<1>3. ASSUME NEW q \in Reads, q # r PROVE ReadIsTrue(q)'
  <2>1. read'[q] = read[q] /\ ReadIsTrue(q)
    BY <1>3 DEF ReadInv, TypeOK, ServerTypeOK
  <2>2. QED
    BY <2>1 DEF ReadIsTrue, AnswerIsRecent, CopyIsRecent, ConfirmsWhatIsRecent, clientVars
<1>4. QED
  BY <1>1, <1>2, <1>3 DEF ReadInv

(* An answer with a body the server may serve: a 304 confirms the copy the *)
(* caller keeps under the tag, anything else carries the body.             *)
LEMMA Answering ==
  ASSUME ReadInv, NEW r \in Reads, read[r].at \in UnderWay,
         NEW tag \in Tags, NEW body \in Contents, tag[2] = body,
         gone[body] <= Served + read[r].open, AnswerBody(r, tag, body),
         UNCHANGED <<seats, replica, commits, version, write, gone, clientVars>>,
         stored' \in StoredBody, StoredIsRecent',
         stored'.left > 0 => stored'.body \in Contents /\ stored'.tag \in Tags
  PROVE  ReadInv'
<1>1. ReadIsTrue(r) /\ read[r].open \in 0 .. Patience /\ gone[body] \in Nat /\ read \in [Reads -> ReadCall]
  BY Typed DEF ReadInv, TypeOK, ServerTypeOK
<1>2. CASE ETagMatches(read[r].presented, tag)
  <2>1. PICK call \in ReadCall : call = [at |-> "same", presented |-> NoTag, tag |-> NoTag, body |-> None, open |-> read[r].open]
    BY <1>1 DEF ReadCall, IdleRead
  <2>2. read' = [read EXCEPT ![r] = call]
    BY <1>2, <2>1, AnswerIs DEF AnswerBody
  <2>3. read'[r].at = "same" /\ read'[r].open = read[r].open
    BY <1>1, <2>1, <2>2
  <2>4. AnswerIsRecent(r)'
    BY <2>3 DEF AnswerIsRecent
  <2>5. CopyIsRecent(r)'
    BY <1>1, <1>2, <2>3 DEF CopyIsRecent, ReadIsTrue, ETagMatches, UnderWay, clientVars
  <2>6. ConfirmsWhatIsRecent(r)'
    BY <1>1, <1>2, <2>3, TheBounds DEF ConfirmsWhatIsRecent, ReadIsTrue, ETagMatches, UnderWay, clientVars
  <2>7. QED
    BY <2>2, <2>4, <2>5, <2>6, CallMoves DEF ReadIsTrue
<1>3. CASE ~ETagMatches(read[r].presented, tag)
  <2>1. PICK call \in ReadCall : call = [at |-> "ok", presented |-> NoTag, tag |-> tag, body |-> body, open |-> read[r].open]
    BY <1>1 DEF ReadCall, IdleRead
  <2>2. read' = [read EXCEPT ![r] = call]
    BY <1>3, <2>1, AnswerIs DEF AnswerBody
  <2>3. read'[r].at = "ok" /\ read'[r].open = read[r].open /\ read'[r].tag = tag /\ read'[r].body = body
    BY <1>1, <2>1, <2>2
  <2>4. AnswerIsRecent(r)'
    BY <2>3 DEF AnswerIsRecent
  <2>5. CopyIsRecent(r)' /\ ConfirmsWhatIsRecent(r)'
    BY <2>3 DEF CopyIsRecent, ConfirmsWhatIsRecent, UnderWay
  <2>6. QED
    BY <2>2, <2>4, <2>5, CallMoves DEF ReadIsTrue
<1>4. QED
  BY <1>2, <1>3
-----------------------------------------------------------------------------
(* The calls on the server: what was built, or stored, is answered.        *)
LEMMA ReadStepInv ==
  ASSUME ReadInv, NEW r \in Reads, ReadStep(r), UNCHANGED clientVars
  PROVE  ReadInv'
<1>1. /\ ReadIsTrue(r) /\ read[r].open \in 0 .. Patience /\ read \in [Reads -> ReadCall]
      /\ stored \in StoredBody /\ StoredIsRecent /\ stored.left \in 0 .. Lifetime
      /\ stored.left > 0 => stored.body \in Contents /\ stored.tag \in Tags
      /\ \A c \in Contents : gone[c] \in Nat
  BY Typed DEF ReadInv, TypeOK, ServerTypeOK
<1>2. CASE ServeStored(r)
  <2>1. stored.body \in Contents /\ stored.tag \in Tags /\ gone[stored.body] <= Served + read[r].open
    BY <1>1, <1>2, TheBounds DEF ServeStored, StoredIsRecent, Served
  <2>2. QED
    BY <1>1, <1>2, <2>1, Answering DEF ServeStored, StoredIsRecent, UnderWay
<1>3. CASE Miss(r)
  <2>1. PICK call \in ReadCall : call = [read[r] EXCEPT !.at = "missed"]
    BY <1>1 DEF ReadCall
  <2>2. read' = [read EXCEPT ![r] = call] /\ read'[r] = call
    BY <1>1, <1>3, <2>1 DEF Miss
  <2>3. ReadIsTrue(r)'
    BY <1>1, <1>3, <2>1, <2>2 DEF Miss, ReadIsTrue, AnswerIsRecent, CopyIsRecent, ConfirmsWhatIsRecent,
       UnderWay, clientVars, ReadCall
  <2>4. QED
    BY <1>1, <1>3, <2>2, <2>3, CallMoves DEF Miss, StoredIsRecent
<1>4. CASE Build(r)
  <2>1. replica \in Contents /\ gone[replica] <= Lag
    BY Typed DEF ReadInv, ReplicaIsRecent
  <2>2. PICK call \in ReadCall : call = [read[r] EXCEPT !.at = "built", !.body = replica]
    BY <1>1, <2>1 DEF ReadCall
  <2>3. read' = [read EXCEPT ![r] = call] /\ read'[r] = call
    BY <1>1, <1>4, <2>2 DEF Build
  <2>4. ReadIsTrue(r)'
    BY <1>1, <1>4, <2>1, <2>2, <2>3 DEF Build, ReadIsTrue, AnswerIsRecent, CopyIsRecent, ConfirmsWhatIsRecent,
       UnderWay, clientVars, ReadCall
  <2>5. QED
    BY <1>1, <1>4, <2>3, <2>4, CallMoves DEF Build, StoredIsRecent
<1>5. CASE BuildFails(r)
  <2>1. PICK call \in ReadCall : call = [at |-> "failed", presented |-> NoTag, tag |-> NoTag, body |-> None, open |-> read[r].open]
    BY <1>1 DEF ReadCall
  <2>2. read' = [read EXCEPT ![r] = call] /\ read'[r] = call
    BY <1>1, <1>5, <2>1, AnswerIs DEF BuildFails
  <2>3. ReadIsTrue(r)'
    BY <2>1, <2>2 DEF ReadIsTrue, AnswerIsRecent, CopyIsRecent, ConfirmsWhatIsRecent, UnderWay
  <2>4. QED
    BY <1>1, <1>5, <2>2, <2>3, CallMoves DEF BuildFails, StoredIsRecent
<1>6. CASE ReadVersion(r)
  <2>1. PICK v \in {version, 0} : read' = [read EXCEPT ![r].at = "tagged", ![r].tag = <<v, read[r].body>>]
    BY <1>6 DEF ReadVersion, BuildETag
  <2>2. <<v, read[r].body>> \in Tags
    BY <1>1, <1>6, <2>1 DEF Tags, ReadVersion, ReadInv, TypeOK, ServerTypeOK, ReadIsTrue, AnswerIsRecent
  <2>3. PICK call \in ReadCall : call = [read[r] EXCEPT !.at = "tagged", !.tag = <<v, read[r].body>>]
    BY <1>1, <2>2 DEF ReadCall
  <2>4. read' = [read EXCEPT ![r] = call] /\ read'[r] = call
    BY <1>1, <2>1, <2>3
  <2>5. ReadIsTrue(r)'
    BY <1>1, <1>6, <2>2, <2>3, <2>4 DEF ReadVersion, ReadIsTrue, AnswerIsRecent, CopyIsRecent,
       ConfirmsWhatIsRecent, UnderWay, clientVars, ReadCall
  <2>6. QED
    BY <1>1, <1>6, <2>4, <2>5, CallMoves DEF ReadVersion, StoredIsRecent
<1>7. CASE Publish(r)
  <2>1. /\ read[r].body \in Contents /\ read[r].tag \in Tags /\ read[r].tag[2] = read[r].body
        /\ gone[read[r].body] <= Lag + read[r].open
    BY <1>1, <1>7 DEF Publish, ReadIsTrue, AnswerIsRecent
  <2>2. gone[read[r].body] <= Served + read[r].open /\ gone[read[r].body] <= Lag + Patience
    BY <1>1, <2>1, TheBounds
  <2>3. /\ stored' \in StoredBody /\ StoredIsRecent'
        /\ stored'.left > 0 => stored'.body \in Contents /\ stored'.tag \in Tags
    <3>1. CASE UNCHANGED stored
      BY <1>1, <1>7, <3>1 DEF Publish, StoredIsRecent
    <3>2. CASE stored' = Save(read[r].tag, read[r].body)
      BY <1>1, <1>7, <2>1, <2>2, <3>2 DEF Publish, StoredIsRecent, StoredBody, Save
    <3>3. QED
      BY <1>7, <3>1, <3>2 DEF Publish
  <2>4. QED
    BY <1>7, <2>1, <2>2, <2>3, Answering DEF Publish, UnderWay
<1>8. QED
  BY <1>2, <1>3, <1>4, <1>5, <1>6, <1>7 DEF ReadStep
-----------------------------------------------------------------------------
(* Contents get no older, an entry keeps its body or is dropped, and so    *)
(* does the stored body: what was recent stays so, whoever is asking.      *)
LEMMA NothingAges ==
  ASSUME ReadInv, UNCHANGED <<read, held, browser>>,
         \A c \in Contents : gone'[c] \in Nat /\ gone'[c] <= gone[c],
         stored' \in {stored, NoBody}, entry' \in {entry, Invalidated, NoEntry}
  PROVE  /\ stored' \in StoredBody /\ StoredIsRecent'
         /\ stored'.left > 0 => stored'.body \in Contents /\ stored'.tag \in Tags
         /\ entry' \in [tag : Tags \cup {NoTag}, body : Contents \cup {None}, age : 0..Stale] /\ EntryIsRecent'
         /\ BrowserIsRecent' /\ \A r \in Reads : ReadIsTrue(r)'
<1>1. /\ stored \in StoredBody /\ stored.left \in 0 .. Lifetime /\ StoredIsRecent /\ EntryIsRecent
      /\ BrowserIsRecent /\ browser.age \in 0 .. CopyLife
      /\ stored.left > 0 => stored.body \in Contents /\ stored.tag \in Tags
      /\ entry \in [tag : Tags \cup {NoTag}, body : Contents \cup {None}, age : 0..Stale]
      /\ \A c \in Contents : gone[c] \in Nat
  BY Typed DEF ReadInv, TypeOK
<1>2. /\ stored' \in StoredBody /\ StoredIsRecent'
      /\ stored'.left > 0 => stored'.body \in Contents /\ stored'.tag \in Tags
  <2>1. CASE stored' = NoBody
    BY <2>1 DEF NoBody, StoredBody, StoredIsRecent
  <2>2. CASE stored' = stored
    BY <1>1, <2>2 DEF StoredIsRecent
  <2>3. QED
    BY <2>1, <2>2
<1>3. /\ entry' \in [tag : Tags \cup {NoTag}, body : Contents \cup {None}, age : 0..Stale]
      /\ entry' # NoEntry => entry # NoEntry /\ entry'.body = entry.body /\ entry'.tag = entry.tag
      /\ entry'.age < Stale => entry' = entry
  <2>1. CASE entry' = NoEntry
    BY <2>1 DEF NoEntry
  <2>2. CASE entry' = Invalidated /\ entry # NoEntry
    BY <1>1, <2>2 DEF Invalidated, Restamped
  <2>3. QED
    BY <1>1, <2>1, <2>2 DEF Invalidated, Restamped
<1>4. EntryIsRecent'
  <2>1. entry' # NoEntry => entry'.body \in Contents /\ entry'.tag \in Tags /\ entry'.tag[2] = entry'.body
    BY <1>1, <1>3 DEF EntryIsRecent
  <2>2. ASSUME entry'.age < Stale PROVE gone'[entry'.body] <= Kept + Patience + Patience + entry'.age
    <3>1. entry' = entry /\ entry # NoEntry
      BY <1>3, <2>2 DEF NoEntry
    <3>2. QED
      BY <1>1, <2>2, <3>1, TheBounds DEF EntryIsRecent
  <2>3. QED
    BY <2>1, <2>2 DEF EntryIsRecent
<1>5. ASSUME NEW r \in Reads PROVE ReadIsTrue(r)'
  <2>1. ReadIsTrue(r) /\ read[r].open \in Nat
    BY Typed DEF ReadInv
  <2>2. AnswerIsRecent(r)' /\ CopyIsRecent(r)'
    BY <1>1, <2>1, TheBounds DEF ReadIsTrue, AnswerIsRecent, CopyIsRecent
  <2>3. ConfirmsWhatIsRecent(r)'
    <3>1. entry # NoEntry => entry.body \in Contents
      BY <1>1 DEF EntryIsRecent
    <3>2. QED
      BY <1>1, <1>3, <2>1, <3>1, TheBounds DEF ReadIsTrue, ConfirmsWhatIsRecent
  <2>4. QED
    BY <2>2, <2>3 DEF ReadIsTrue
<1>6. BrowserIsRecent'
  BY <1>1, TheBounds DEF BrowserIsRecent
<1>7. QED
  BY <1>2, <1>3, <1>4, <1>5, <1>6

(* A write moves on; one that commits is one more, and one that            *)
(* invalidates counts itself from then on as a version.                    *)
LEMMA WriteMoves ==
  ASSUME TypeOK, NEW w \in Writes, NEW at \in {"idle", "asked", "committed", "ok", "failed"}, NEW open,
         write' = [write EXCEPT ![w] = [at |-> at, open |-> open]]
  PROVE  /\ IsFiniteSet(Committed) /\ Cardinality(Committed) \in Nat
         /\ write[w].at = "committed" /\ at # "committed" => Cardinality(Committed') = Cardinality(Committed) - 1
         /\ write[w].at # "committed" /\ at = "committed" => Cardinality(Committed') = Cardinality(Committed) + 1
         /\ write[w].at # "committed" /\ at # "committed" => Committed' = Committed
<1>1. IsFiniteSet(Committed) /\ Cardinality(Committed) \in Nat
  BY FS_Subset, FS_CardinalityType DEF Committed
<1>2. write \in [Writes -> WriteCall]
  BY DEF TypeOK, ServerTypeOK
<1>3. \A v \in Writes : write'[v].at = IF v = w THEN at ELSE write[v].at
  BY <1>2
<1>4. ASSUME write[w].at = "committed", at # "committed" PROVE Cardinality(Committed') = Cardinality(Committed) - 1
  <2>1. Committed' = Committed \ {w} /\ w \in Committed
    BY <1>3, <1>4 DEF Committed
  <2>2. QED
    BY <1>1, <2>1, FS_RemoveElement
<1>5. ASSUME write[w].at # "committed", at = "committed" PROVE Cardinality(Committed') = Cardinality(Committed) + 1
  <2>1. Committed' = Committed \cup {w} /\ w \notin Committed
    BY <1>3, <1>5 DEF Committed
  <2>2. QED
    BY <1>1, <2>1, FS_AddElement
<1>6. ASSUME write[w].at # "committed", at # "committed" PROVE Committed' = Committed
  BY <1>3, <1>6 DEF Committed
<1>7. QED
  BY <1>1, <1>4, <1>5, <1>6

(* A step of a write that moves it there.                                  *)
WriteGoes(w, at) ==
  \E open \in 0 .. Patience : write' = [write EXCEPT ![w] = [at |-> at, open |-> open]]

LEMMA WriteStays ==
  ASSUME TypeOK, NEW w \in Writes, NEW at \in {"asked", "committed", "ok", "failed"},
         write' = [write EXCEPT ![w].at = at]
  PROVE  WriteGoes(w, at)
<1>1. write \in [Writes -> WriteCall] /\ write[w] \in WriteCall
  BY DEF TypeOK, ServerTypeOK
<1>2. [write[w] EXCEPT !.at = at] = [at |-> at, open |-> write[w].open]
  BY <1>1 DEF WriteCall
<1>3. QED
  BY <1>1, <1>2 DEF WriteGoes, WriteCall

(* A write that moves, with what it may have done to the contents, the     *)
(* stored body and the entry.                                              *)
LEMMA WriteInv ==
  ASSUME ReadInv, NEW w \in Writes, NEW at \in {"idle", "asked", "committed", "ok", "failed"},
         WriteGoes(w, at), UNCHANGED <<replica, read, held, browser>>, shown' \in {shown, None},
         seats' \in Contents, gone' \in [Contents -> 0 .. Horizon], gone'[seats'] = 0,
         \A c \in Contents : gone'[c] <= gone[c],
         commits' \in 0 .. MaxCommits, version' \in Nat,
         commits' - commits >= (version' - version)
           + (IF at = "committed" THEN 1 ELSE 0) - (IF write[w].at = "committed" THEN 1 ELSE 0),
         stored' \in {stored, NoBody}, entry' \in {entry, Invalidated, NoEntry}
  PROVE  ReadInv'
<1>1. TypeOK /\ VersionsAreOfCommits /\ ReplicaIsRecent
  BY DEF ReadInv
<1>2. \A c \in Contents : gone'[c] \in Nat /\ gone[c] \in Nat
  BY <1>1, Typed
<1>3. /\ stored' \in StoredBody /\ StoredIsRecent'
      /\ stored'.left > 0 => stored'.body \in Contents /\ stored'.tag \in Tags
      /\ entry' \in [tag : Tags \cup {NoTag}, body : Contents \cup {None}, age : 0..Stale] /\ EntryIsRecent'
      /\ BrowserIsRecent' /\ \A r \in Reads : ReadIsTrue(r)'
  BY <1>2, NothingAges
<1>4. PICK open \in 0 .. Patience : write' = [write EXCEPT ![w] = [at |-> at, open |-> open]]
  BY DEF WriteGoes
<1>5. /\ Cardinality(Committed) \in Nat /\ Cardinality(Committed') \in Nat
      /\ commits \in Nat /\ version \in Nat
      /\ Cardinality(Committed') = Cardinality(Committed)
           + (IF at = "committed" THEN 1 ELSE 0) - (IF write[w].at = "committed" THEN 1 ELSE 0)
  <2>1. IsFiniteSet(Committed') /\ Cardinality(Committed') \in Nat
    BY FS_Subset, FS_CardinalityType DEF Committed
  <2>2. /\ Cardinality(Committed) \in Nat
        /\ write[w].at = "committed" /\ at # "committed" => Cardinality(Committed') = Cardinality(Committed) - 1
        /\ write[w].at # "committed" /\ at = "committed" => Cardinality(Committed') = Cardinality(Committed) + 1
        /\ write[w].at # "committed" /\ at # "committed" => Committed' = Committed
    BY <1>1, <1>4, WriteMoves
  <2>3. write[w].at = "committed" /\ at = "committed" => Committed' = Committed
    <3>1. write \in [Writes -> WriteCall]
      BY <1>1 DEF TypeOK, ServerTypeOK
    <3>2. QED
      BY <1>4, <3>1 DEF Committed
  <2>4. commits \in Nat /\ version \in Nat
    BY <1>1, Typed
  <2>5. QED
    BY <2>1, <2>2, <2>3, <2>4
<1>6. version' + Cardinality(Committed') <= commits'
  <2> DEFINE rise == IF at = "committed" THEN 1 ELSE 0
             fall == IF write[w].at = "committed" THEN 1 ELSE 0
  <2>1. \A c, d, v, u, n, m, up, down \in Int :
          v + n <= c /\ d - c >= u - v + up - down /\ m = n + up - down => u + m <= d
    OBVIOUS
  <2>2. rise \in Int /\ fall \in Int
    OBVIOUS
  <2>3. commits \in Int /\ version \in Int /\ Cardinality(Committed) \in Int /\ Cardinality(Committed') \in Int
    BY <1>5
  <2>4. commits' \in Int /\ version' \in Int
    OBVIOUS
  <2>5. version + Cardinality(Committed) <= commits
    BY <1>1 DEF VersionsAreOfCommits
  <2>6. commits' - commits >= version' - version + rise - fall
    BY Zenon
  <2>7. Cardinality(Committed') = Cardinality(Committed) + rise - fall
    BY <1>5, Zenon
  <2> HIDE DEF rise, fall
  <2>8. QED
    BY ONLY <2>1, <2>2, <2>3, <2>4, <2>5, <2>6, <2>7, Zenon
<1>7. VersionsAreOfCommits' /\ version' \in 0 .. MaxCommits
  BY <1>5, <1>6 DEF VersionsAreOfCommits
<1>8. write' \in [Writes -> WriteCall]
  BY <1>1, <1>4 DEF TypeOK, ServerTypeOK, WriteCall
<1>9. ReplicaIsRecent'
  BY <1>1, <1>2, Typed DEF ReplicaIsRecent
<1>10. TypeOK'
  BY <1>1, <1>3, <1>7, <1>8 DEF TypeOK, ServerTypeOK
<1>11. QED
  BY <1>3, <1>7, <1>9, <1>10 DEF ReadInv

(* Every step of a write, from the parent's press to the answer.           *)
LEMMA WriteStepInv ==
  ASSUME ReadInv, NEW w \in Writes,
         \/ WriteStep(w) /\ UNCHANGED clientVars
         \/ StartWrite(w) \/ EndWrite(w)
  PROVE  ReadInv'
<1>1. /\ TypeOK /\ ReplicaIsRecent /\ gone \in [Contents -> 0 .. Horizon] /\ seats \in Contents
      /\ commits \in 0 .. MaxCommits /\ version \in Nat /\ write \in [Writes -> WriteCall]
      /\ gone[seats] = 0 /\ \A c \in Contents : gone[c] \in Nat
  BY Typed DEF ReadInv, TypeOK, ServerTypeOK, ReplicaIsRecent
<1>2. CASE Commit(w) /\ UNCHANGED clientVars
  <2>1. WriteGoes(w, "committed")
    BY <1>1, <1>2, WriteStays DEF Commit
  <2>2. PICK c \in Contents : seats' = c /\ gone' = [gone EXCEPT ![c] = 0]
    BY <1>2 DEF Commit
  <2>3. /\ seats' \in Contents /\ gone' \in [Contents -> 0 .. Horizon] /\ gone'[seats'] = 0
        /\ \A k \in Contents : gone'[k] <= gone[k]
    BY <1>1, <2>2
  <2>4. commits' = commits + 1 /\ commits' \in 0 .. MaxCommits /\ version' = version /\ write[w].at = "asked"
    BY <1>1, <1>2 DEF Commit
  <2>5. commits' - commits >= (version' - version)
           + (IF "committed" = "committed" THEN 1 ELSE 0) - (IF write[w].at = "committed" THEN 1 ELSE 0)
    BY <1>1, <2>4
  <2>6. QED
    BY <1>1, <1>2, <2>1, <2>3, <2>4, <2>5, WriteInv DEF Commit, clientVars
<1>3. CASE RefuseWrite(w) /\ UNCHANGED clientVars
  <2>1. WriteGoes(w, "failed")
    BY <1>1, <1>3, WriteStays DEF RefuseWrite
  <2>2. commits' - commits >= (version' - version)
           + (IF "failed" = "committed" THEN 1 ELSE 0) - (IF write[w].at = "committed" THEN 1 ELSE 0)
    BY <1>1, <1>3 DEF RefuseWrite
  <2>3. QED
    BY <1>1, <1>3, <2>1, <2>2, WriteInv DEF RefuseWrite, clientVars
<1>4. CASE Invalidate(w) /\ UNCHANGED clientVars
  <2>1. PICK at \in {"ok", "failed"} : WriteGoes(w, at)
    BY <1>1, <1>4, WriteStays DEF Invalidate
  <2>2. stored' \in {stored, NoBody} /\ version' \in {version, version + 1}
    BY <1>4 DEF Invalidate
  <2>3. commits' - commits >= (version' - version)
           + (IF at = "committed" THEN 1 ELSE 0) - (IF write[w].at = "committed" THEN 1 ELSE 0)
    BY <1>1, <1>4, <2>2 DEF Invalidate
  <2>4. QED
    BY <1>1, <1>4, <2>1, <2>2, <2>3, WriteInv DEF Invalidate, clientVars
<1>5. CASE StartWrite(w)
  <2>1. WriteGoes(w, "asked")
    <3>1. write' = [write EXCEPT ![w] = [at |-> "asked", open |-> 0]] /\ 0 \in 0 .. Patience
      BY <1>5 DEF StartWrite
    <3>2. QED
      BY <3>1 DEF WriteGoes
  <2>2. commits' - commits >= (version' - version)
           + (IF "asked" = "committed" THEN 1 ELSE 0) - (IF write[w].at = "committed" THEN 1 ELSE 0)
    BY <1>1, <1>5 DEF StartWrite
  <2>3. QED
    BY <1>1, <1>5, <2>1, <2>2, WriteInv DEF StartWrite, clientVars
<1>6. CASE EndWrite(w)
  <2>1. WriteGoes(w, "idle")
    <3>1. write' = [write EXCEPT ![w] = [at |-> "idle", open |-> 0]] /\ 0 \in 0 .. Patience
      BY <1>6 DEF EndWrite, IdleWrite
    <3>2. QED
      BY <3>1 DEF WriteGoes
  <2>2. commits' - commits >= (version' - version)
           + (IF "idle" = "committed" THEN 1 ELSE 0) - (IF write[w].at = "committed" THEN 1 ELSE 0)
    BY <1>1, <1>6 DEF EndWrite
  <2>3. QED
    BY <1>1, <1>6, <2>1, <2>2, WriteInv DEF EndWrite
<1>7. QED
  BY <1>2, <1>3, <1>4, <1>5, <1>6 DEF WriteStep
-----------------------------------------------------------------------------
(* The replica catches up with what the primary has now.                   *)
LEMMA ReplicateInv == ReadInv /\ Replicate /\ UNCHANGED clientVars => ReadInv'
<1> SUFFICES ASSUME ReadInv, Replicate, UNCHANGED clientVars PROVE ReadInv'
  OBVIOUS
<1>1. TypeOK' /\ VersionsAreOfCommits' /\ ReplicaIsRecent'
  BY DEF ReadInv, Replicate, clientVars, TypeOK, ServerTypeOK, VersionsAreOfCommits, Committed, ReplicaIsRecent
<1>2. StoredIsRecent' /\ EntryIsRecent' /\ BrowserIsRecent'
  BY DEF ReadInv, Replicate, clientVars, StoredIsRecent, EntryIsRecent, BrowserIsRecent
<1>3. \A r \in Reads : ReadIsTrue(r)'
  BY DEF ReadInv, Replicate, clientVars, ReadIsTrue, AnswerIsRecent, CopyIsRecent, ConfirmsWhatIsRecent
<1>4. QED
  BY <1>1, <1>2, <1>3 DEF ReadInv

(* A tick makes every content a tick older, and every body that is kept,   *)
(* built, on its way or rendered with it.                                  *)
LEMMA TickInv == ReadInv /\ Tick => ReadInv'
<1> SUFFICES ASSUME ReadInv, Tick PROVE ReadInv'
  OBVIOUS
<1>1. /\ TypeOK /\ ReplicaIsRecent /\ StoredIsRecent /\ EntryIsRecent /\ BrowserIsRecent
      /\ browser \in Copies /\ browser.age \in 0 .. CopyLife
      /\ seats \in Contents /\ replica \in Contents /\ gone \in [Contents -> 0 .. Horizon]
      /\ stored \in StoredBody /\ stored.left \in 0 .. Lifetime
      /\ stored.left > 0 => stored.body \in Contents /\ stored.tag \in Tags
      /\ read \in [Reads -> ReadCall] /\ write \in [Writes -> WriteCall]
      /\ entry \in [tag : Tags \cup {NoTag}, body : Contents \cup {None}, age : 0..Stale]
  BY Typed DEF ReadInv, TypeOK, ServerTypeOK, Copies
<1>2. /\ gone' = [c \in Contents |-> IF c = seats THEN 0 ELSE Sooner(gone[c])]
      /\ stored' = IF Older(stored.left) > 0 THEN [stored EXCEPT !.left = Older(@)] ELSE NoBody
      /\ read' = [r \in Reads |-> IF read[r].at = "idle" THEN read[r] ELSE [read[r] EXCEPT !.open = @ + 1]]
      /\ write' = [w \in Writes |-> IF write[w].at = "idle" THEN write[w] ELSE [write[w] EXCEPT !.open = @ + 1]]
      /\ entry' = [entry EXCEPT !.age = IF @ < Stale THEN @ + 1 ELSE @]
      /\ browser' = IF browser.age + 1 < CopyLife THEN [browser EXCEPT !.age = browser.age + 1] ELSE NoCopy
      /\ UNCHANGED <<seats, replica, commits, version, held, shown>>
      /\ gone[replica] < Lag \/ replica = seats
      /\ \A r \in Reads : read[r].at # "idle" => read[r].open < Patience
      /\ \A w \in Writes : write[w].at # "idle" => write[w].open < Patience
  BY DEF Tick, ServerTick
<1>3. gone' \in [Contents -> 0 .. Horizon] /\ \A c \in Contents : gone'[c] \in Nat /\ gone[c] \in Nat /\ gone'[c] <= gone[c] + 1
  <2>1. \A n \in 0 .. Horizon : Sooner(n) \in 0 .. Horizon /\ Sooner(n) <= n + 1
    BY DEF Sooner
  <2>2. QED
    BY <1>1, <1>2, <2>1
<1>4. ReplicaIsRecent'
  BY <1>1, <1>2, <1>3 DEF ReplicaIsRecent
<1>5. /\ stored' \in StoredBody /\ StoredIsRecent'
      /\ stored'.left > 0 => stored'.body \in Contents /\ stored'.tag \in Tags
  <2>1. CASE stored.left > 1
    <3>1. stored' = [stored EXCEPT !.left = stored.left - 1] /\ stored.left - 1 \in 0 .. Lifetime /\ stored.left > 0
      BY <1>1, <1>2, <2>1 DEF Older
    <3>2. stored' \in StoredBody /\ stored'.tag = stored.tag /\ stored'.body = stored.body /\ stored'.left = stored.left - 1
      BY <1>1, <3>1 DEF StoredBody
    <3>3. QED
      BY <1>1, <1>3, <3>1, <3>2 DEF StoredIsRecent
  <2>2. CASE stored.left <= 1
    <3>1. stored' = NoBody
      BY <1>1, <1>2, <2>2 DEF Older
    <3>2. QED
      BY <3>1 DEF NoBody, StoredBody, StoredIsRecent
  <2>3. QED
    BY <1>1, <2>1, <2>2
<1>6. ASSUME NEW r \in Reads
      PROVE  /\ read'[r] \in ReadCall /\ read'[r].at = read[r].at /\ read'[r].presented = read[r].presented
             /\ read'[r].tag = read[r].tag /\ read'[r].body = read[r].body
             /\ read[r].open \in Nat
             /\ read[r].at # "idle" => read'[r].open = read[r].open + 1
  <2>1. CASE read[r].at = "idle"
    BY <1>1, <1>2, <2>1 DEF ReadCall
  <2>2. CASE read[r].at # "idle"
    <3>1. read'[r] = [read[r] EXCEPT !.open = read[r].open + 1] /\ read[r].open + 1 \in 0 .. Patience
      BY <1>1, <1>2, <2>2 DEF ReadCall
    <3>2. QED
      BY <1>1, <3>1 DEF ReadCall
  <2>3. QED
    BY <2>1, <2>2
<1>7. write' \in [Writes -> WriteCall] /\ Committed' = Committed
  <2>1. ASSUME NEW w \in Writes PROVE write'[w] \in WriteCall /\ write'[w].at = write[w].at
    BY <1>1, <1>2 DEF WriteCall
  <2>2. QED
    BY <1>2, <2>1 DEF Committed
<1>8. /\ entry' \in [tag : Tags \cup {NoTag}, body : Contents \cup {None}, age : 0..Stale]
      /\ entry'.tag = entry.tag /\ entry'.body = entry.body
      /\ entry = NoEntry => entry' = NoEntry
      /\ entry'.age < Stale => entry'.age = entry.age + 1 /\ entry.age < Stale
  BY <1>1, <1>2 DEF NoEntry
<1>9. entry.age < Stale => entry # NoEntry
  BY DEF NoEntry
<1>10. BrowserIsRecent' /\ browser' \in Copies
  <2>1. CASE browser.age + 1 < CopyLife
    <3>1. /\ browser' \in Copies /\ browser'.tag = browser.tag /\ browser'.body = browser.body
          /\ browser'.age = browser.age + 1 /\ browser.age < CopyLife
      BY <1>1, <1>2, <2>1, TheBounds DEF Copies
    <3>2. QED
      BY <1>1, <1>3, <3>1, TheBounds DEF BrowserIsRecent
  <2>2. CASE ~(browser.age + 1 < CopyLife)
    BY <1>2, <2>2, TheBounds DEF BrowserIsRecent, NoCopy, Copies
  <2>3. QED
    BY <2>1, <2>2
<1>11. EntryIsRecent'
  <2>1. entry' # NoEntry => entry'.body \in Contents /\ entry'.tag \in Tags /\ entry'.tag[2] = entry'.body
    BY <1>1, <1>8 DEF EntryIsRecent
  <2>2. ASSUME entry'.age < Stale PROVE gone'[entry'.body] <= Kept + Patience + Patience + entry'.age
    BY <1>1, <1>3, <1>8, <1>9, <2>2, TheBounds DEF EntryIsRecent
  <2>3. QED
    BY <2>1, <2>2 DEF EntryIsRecent
<1>12. ASSUME NEW r \in Reads PROVE ReadIsTrue(r)'
  <2>1. ReadIsTrue(r)
    BY DEF ReadInv
  <2>2. AnswerIsRecent(r)'
    BY <1>3, <1>6, <2>1, TheBounds DEF ReadIsTrue, AnswerIsRecent
  <2>3. CopyIsRecent(r)'
    BY <1>2, <1>3, <1>6, <2>1, TheBounds DEF ReadIsTrue, CopyIsRecent
  <2>4. ConfirmsWhatIsRecent(r)'
    <3>1. entry' # NoEntry => entry # NoEntry /\ entry.body \in Contents
      BY <1>1, <1>8 DEF EntryIsRecent
    <3>2. QED
      BY <1>3, <1>6, <1>8, <2>1, <3>1, TheBounds DEF ReadIsTrue, ConfirmsWhatIsRecent, UnderWay
  <2>5. QED
    BY <2>2, <2>3, <2>4 DEF ReadIsTrue
<1>13. VersionsAreOfCommits'
  BY <1>2, <1>7 DEF ReadInv, VersionsAreOfCommits
<1>14. read' \in [Reads -> ReadCall]
  BY <1>2, <1>6
<1>15. TypeOK'
  BY <1>1, <1>2, <1>3, <1>5, <1>7, <1>8, <1>10, <1>14 DEF TypeOK, ServerTypeOK, Copies
<1>16. QED
  BY <1>4, <1>5, <1>10, <1>11, <1>12, <1>13, <1>15 DEF ReadInv
-----------------------------------------------------------------------------
LEMMA ATagIsATag == NoTag \notin Tags
BY DEF Tags, NoTag

(* A call of the screen begins, or is over; the other calls still ask      *)
(* about the entry as it is by then.                                       *)
LEMMA ScreenMoves ==
  ASSUME ReadInv, UNCHANGED <<serverRest, browser>>, NEW r \in Reads,
         NEW call \in ReadCall, read' = [read EXCEPT ![r] = call],
         NEW copy \in Contents \cup {None}, held' = [held EXCEPT ![r] = copy],
         entry' \in [tag : Tags \cup {NoTag}, body : Contents \cup {None}, age : 0..Stale],
         shown' \in Contents \cup {None}, EntryIsRecent', ReadIsTrue(r)',
         \A q \in Reads \ {r} : ConfirmsWhatIsRecent(q)'
  PROVE  ReadInv'
<1>1. /\ TypeOK /\ VersionsAreOfCommits /\ ReplicaIsRecent /\ StoredIsRecent /\ BrowserIsRecent
      /\ \A q \in Reads : ReadIsTrue(q)
  BY DEF ReadInv
<1>2. TypeOK'
  BY <1>1 DEF TypeOK, ServerTypeOK, serverRest
<1>3. VersionsAreOfCommits' /\ ReplicaIsRecent' /\ StoredIsRecent' /\ BrowserIsRecent'
  BY <1>1 DEF VersionsAreOfCommits, Committed, ReplicaIsRecent, StoredIsRecent, BrowserIsRecent, serverRest
<1>4. ASSUME NEW q \in Reads, q # r PROVE ReadIsTrue(q)'
  <2>1. read'[q] = read[q] /\ held'[q] = held[q] /\ gone' = gone
    BY <1>1, <1>4 DEF TypeOK, ServerTypeOK, serverRest
  <2>2. AnswerIsRecent(q)' /\ CopyIsRecent(q)'
    BY <1>1, <2>1 DEF ReadIsTrue, AnswerIsRecent, CopyIsRecent
  <2>3. QED
    BY <1>4, <2>2 DEF ReadIsTrue
<1>5. QED
  BY <1>2, <1>3, <1>4 DEF ReadInv

(* What a call is that asks.                                               *)
LEMMA AskIs ==
  ASSUME NEW r, NEW tag, NEW copy
  PROVE  Ask(r, tag, copy) <=>
           /\ read' = [read EXCEPT ![r] = [at |-> "asked", presented |-> tag, tag |-> NoTag, body |-> None, open |-> 0]]
           /\ held' = [held EXCEPT ![r] = copy]
BY DEF Ask, IdleRead

(* Asking about the entry.                                                 *)
LEMMA AskInv ==
  ASSUME ReadInv, NEW r \in Reads, NEW copy \in {entry.body, None}, r \in Loads => copy = entry.body,
         Ask(r, entry.tag, copy), UNCHANGED <<serverRest, entry, browser>>, shown' \in {shown, entry.body}
  PROVE  ReadInv'
<1>1. /\ TypeOK /\ EntryIsRecent /\ read \in [Reads -> ReadCall] /\ held \in [Reads -> Contents \cup {None}]
      /\ entry \in [tag : Tags \cup {NoTag}, body : Contents \cup {None}, age : 0..Stale]
      /\ shown \in Contents \cup {None} /\ \A q \in Reads : ReadIsTrue(q)
  BY DEF ReadInv, TypeOK, ServerTypeOK
<1>2. PICK call \in ReadCall : call = [at |-> "asked", presented |-> entry.tag, tag |-> NoTag, body |-> None, open |-> 0]
  <2>1. 0 \in 0 .. Patience
    OBVIOUS
  <2>2. [at |-> "asked", presented |-> entry.tag, tag |-> NoTag, body |-> None, open |-> 0] \in ReadCall
    BY <1>1, <2>1 DEF ReadCall
  <2>3. QED
    BY <2>2
<1>3. read' = [read EXCEPT ![r] = call] /\ held' = [held EXCEPT ![r] = copy]
  BY <1>2, AskIs
<1>4. read'[r] = call /\ held'[r] = copy
  BY <1>1, <1>3
<1>5. entry # NoEntry => entry.tag # NoTag /\ entry.tag[2] = entry.body
  BY <1>1, ATagIsATag DEF EntryIsRecent
<1>6. entry = NoEntry => entry.tag = NoTag
  BY DEF NoEntry
<1>7. ReadIsTrue(r)'
  <2>1. AnswerIsRecent(r)'
    BY <1>2, <1>4 DEF AnswerIsRecent
  <2>2. CopyIsRecent(r)'
    BY <1>2, <1>4, <1>5, <1>6 DEF CopyIsRecent, Loads
  <2>3. ConfirmsWhatIsRecent(r)'
    BY <1>2, <1>4, <1>5 DEF ConfirmsWhatIsRecent
  <2>4. QED
    BY <2>1, <2>2, <2>3 DEF ReadIsTrue
<1>8. \A q \in Reads \ {r} : ConfirmsWhatIsRecent(q)'
  BY <1>1, <1>3 DEF ReadIsTrue, ConfirmsWhatIsRecent, serverRest
<1>9. EntryIsRecent'
  BY <1>1 DEF EntryIsRecent, serverRest
<1>10. copy \in Contents \cup {None} /\ shown' \in Contents \cup {None}
  BY <1>1
<1>11. QED
  BY <1>1, <1>3, <1>7, <1>8, <1>9, <1>10, ScreenMoves

(* The browser answers with its copy, and may ask after it meanwhile.      *)
LEMMA AnswerFromBrowserInv ==
  ASSUME ReadInv, NEW l \in Loads, AnswerFromBrowser(l)
  PROVE  ReadInv'
<1>1. /\ TypeOK /\ BrowserIsRecent /\ browser.age < CopyLife /\ entry = NoEntry /\ UNCHANGED <<serverRest, clientVars>>
      /\ browser.age \in 0 .. CopyLife /\ gone \in [Contents -> 0 .. Horizon] /\ read \in [Reads -> ReadCall]
  BY Typed DEF ReadInv, AnswerFromBrowser, TypeOK, ServerTypeOK
<1>2. /\ browser.body \in Contents /\ browser.tag \in Tags /\ browser.tag[2] = browser.body
      /\ gone[browser.body] <= Kept
  BY <1>1, TheBounds DEF BrowserIsRecent
<1>3. 0 \in 0 .. Patience
  OBVIOUS
<1>4. ASSUME NEW r \in Reads PROVE read'[r] \in ReadCall /\ ReadIsTrue(r)'
  <2>1. CASE r = l
    <3>1. read'[r] = [at |-> "cached", presented |-> NoTag, tag |-> browser.tag, body |-> browser.body, open |-> 0]
      BY <2>1 DEF AnswerFromBrowser, IdleRead
    <3>2. read'[r] \in ReadCall
      BY <1>2, <1>3, <3>1 DEF ReadCall
    <3>3. AnswerIsRecent(r)'
      BY <1>1, <1>2, <3>1, TheBounds DEF AnswerIsRecent, serverRest
    <3>4. CopyIsRecent(r)' /\ ConfirmsWhatIsRecent(r)'
      BY <3>1 DEF CopyIsRecent, ConfirmsWhatIsRecent, UnderWay
    <3>5. QED
      BY <3>2, <3>3, <3>4 DEF ReadIsTrue
  <2>2. CASE r = Revalidation /\ read'[r] # read[r]
    <3>1. read'[r] = [at |-> "asked", presented |-> NoTag, tag |-> NoTag, body |-> None, open |-> 0]
      BY <2>2 DEF AnswerFromBrowser, IdleRead, Loads
    <3>2. read'[r] \in ReadCall
      BY <1>3, <3>1 DEF ReadCall
    <3>3. AnswerIsRecent(r)' /\ CopyIsRecent(r)'
      BY <2>2, <3>1 DEF AnswerIsRecent, CopyIsRecent, Loads
    <3>4. ConfirmsWhatIsRecent(r)'
      BY <1>1 DEF ConfirmsWhatIsRecent, clientVars, NoEntry
    <3>5. QED
      BY <3>2, <3>3, <3>4 DEF ReadIsTrue
  <2>3. CASE r # l /\ read'[r] = read[r]
    BY <1>1, <2>3 DEF ReadInv, ReadIsTrue, AnswerIsRecent, CopyIsRecent, ConfirmsWhatIsRecent, clientVars, serverRest
  <2>4. QED
    BY <2>1, <2>2, <2>3 DEF AnswerFromBrowser
<1>5. TypeOK'
  <2>1. read' \in [Reads -> ReadCall]
    BY <1>4 DEF AnswerFromBrowser
  <2>2. QED
    BY <1>1, <2>1 DEF TypeOK, ServerTypeOK, serverRest, clientVars
<1>6. /\ VersionsAreOfCommits' /\ ReplicaIsRecent' /\ StoredIsRecent'
      /\ EntryIsRecent' /\ BrowserIsRecent'
  BY <1>1 DEF ReadInv, VersionsAreOfCommits, Committed, ReplicaIsRecent, StoredIsRecent, EntryIsRecent,
     BrowserIsRecent, serverRest, clientVars
<1>7. QED
  BY <1>4, <1>5, <1>6 DEF ReadInv

(* The browser keeps an answer on its way, which is as old as that.        *)
LEMMA KeepInv ==
  ASSUME ReadInv, NEW r \in Reads, Keep(r)
  PROVE  ReadInv'
<1>1. /\ TypeOK /\ ReadIsTrue(r) /\ read[r].open \in 0 .. Patience /\ read[r].at = "ok"
      /\ \A c \in Contents : gone[c] \in Nat
      /\ UNCHANGED <<serverVars, entry, held, shown>>
      /\ browser' = [tag |-> read[r].tag, body |-> read[r].body, age |-> 0]
  BY Typed DEF ReadInv, Keep, Saved
<1>2. /\ read[r].body \in Contents /\ read[r].tag \in Tags /\ read[r].tag[2] = read[r].body
      /\ gone[read[r].body] <= Served + Patience
  BY <1>1, TheBounds DEF ReadIsTrue, AnswerIsRecent
<1>3. BrowserIsRecent'
  BY <1>1, <1>2, TheBounds DEF BrowserIsRecent, serverVars
<1>4. TypeOK'
  <2>1. browser' \in [tag : Tags \cup {NoTag}, body : Contents \cup {None}, age : 0..CopyLife]
    BY <1>1, <1>2, TheBounds
  <2>2. QED
    BY <1>1, <2>1 DEF TypeOK, ServerTypeOK, serverVars
<1>5. /\ VersionsAreOfCommits' /\ ReplicaIsRecent' /\ StoredIsRecent' /\ EntryIsRecent'
      /\ \A q \in Reads : ReadIsTrue(q)'
  BY <1>1 DEF ReadInv, VersionsAreOfCommits, Committed, ReplicaIsRecent, StoredIsRecent, EntryIsRecent,
     ReadIsTrue, AnswerIsRecent, CopyIsRecent, ConfirmsWhatIsRecent, serverVars
<1>6. QED
  BY <1>3, <1>4, <1>5 DEF ReadInv

LEMMA LoadInv ==
  ASSUME ReadInv, NEW l \in Loads, Load(l)
  PROVE  ReadInv'
<1>1. entry.body \in Contents \cup {None} /\ shown \in Contents \cup {None} /\ l \in Reads /\ Background \notin Loads
  BY DEF ReadInv, TypeOK, Loads
<1>2. ASSUME UNCHANGED <<serverRest, read, held, entry, browser>>, shown' \in Contents \cup {None} PROVE ReadInv'
  BY <1>2 DEF ReadInv, TypeOK, ServerTypeOK, VersionsAreOfCommits, Committed, ReplicaIsRecent, StoredIsRecent,
     EntryIsRecent, BrowserIsRecent, ReadIsTrue, AnswerIsRecent, CopyIsRecent, ConfirmsWhatIsRecent, serverRest
<1>3. CASE ServeFresh(l)
  BY <1>1, <1>2, <1>3 DEF ServeFresh
<1>4. CASE ServeStale(l)
  <2>1. CASE read[Background].at = "idle"
    BY <1>1, <1>4, <2>1, AskInv DEF ServeStale
  <2>2. CASE read[Background].at # "idle"
    BY <1>1, <1>2, <1>4, <2>2 DEF ServeStale
  <2>3. QED
    BY <2>1, <2>2
<1>5. CASE AskFirst(l)
  BY <1>1, <1>5, AskInv DEF AskFirst
<1>6. QED
  BY <1>3, <1>4, <1>5, AnswerFromBrowserInv DEF Load

(* An answer comes: a body makes an entry as young as it was served, and a *)
(* 304 makes the entry of by then young, which is young enough.            *)
LEMMA ReceiveInv ==
  ASSUME ReadInv, NEW r \in Reads, Receive(r)
  PROVE  ReadInv'
<1>1. /\ TypeOK /\ EntryIsRecent /\ read \in [Reads -> ReadCall] /\ held \in [Reads -> Contents \cup {None}]
      /\ entry \in [tag : Tags \cup {NoTag}, body : Contents \cup {None}, age : 0..Stale]
      /\ shown \in Contents \cup {None} /\ \A q \in Reads : ReadIsTrue(q) /\ read[q].open \in 0 .. Patience
      /\ \A c \in Contents : gone[c] \in Nat
  BY Typed DEF ReadInv, TypeOK, ServerTypeOK
<1>2. PICK call \in ReadCall : call = IdleRead
  <2>1. 0 \in 0 .. Patience
    OBVIOUS
  <2>2. IdleRead \in ReadCall
    BY <2>1 DEF ReadCall, IdleRead
  <2>3. QED
    BY <2>2
<1>3. UNCHANGED <<serverRest, browser>> /\ read' = [read EXCEPT ![r] = call] /\ held' = [held EXCEPT ![r] = None] /\ gone' = gone
  BY <1>2 DEF Receive, TakeBody, TakeNotModified, TakeFailure, Done, serverRest
<1>4. read'[r].at = "idle" /\ \A q \in Reads \ {r} : read'[q] = read[q]
  BY <1>1, <1>2, <1>3 DEF IdleRead
<1>5. ReadIsTrue(r)'
  BY <1>4 DEF ReadIsTrue, AnswerIsRecent, CopyIsRecent, ConfirmsWhatIsRecent, UnderWay
<1>6. CASE TakeBody(r)
  <2>1. /\ read[r].body \in Contents /\ read[r].tag \in Tags /\ read[r].tag[2] = read[r].body
        /\ gone[read[r].body] <= Kept + Patience
    BY <1>1, <1>6, TheBounds DEF TakeBody, ReadIsTrue, AnswerIsRecent
  <2>2. entry' = [tag |-> read[r].tag, body |-> read[r].body, age |-> 0]
    BY <1>6 DEF TakeBody, Saved
  <2>3. /\ entry' \in [tag : Tags \cup {NoTag}, body : Contents \cup {None}, age : 0..Stale]
        /\ EntryIsRecent'
    BY <1>1, <1>3, <2>1, <2>2, TheBounds DEF EntryIsRecent
  <2>4. \A q \in Reads \ {r} : ConfirmsWhatIsRecent(q)'
    BY <1>1, <1>3, <1>4, <2>1, <2>2, TheBounds DEF ConfirmsWhatIsRecent
  <2>5. shown' \in Contents \cup {None}
    BY <1>1, <1>6, <2>1 DEF TakeBody, Shows
  <2>6. QED
    BY <1>3, <1>5, <2>3, <2>4, <2>5, ScreenMoves
<1>7. CASE TakeNotModified(r)
  <2>1. entry # NoEntry => /\ entry.body \in Contents /\ gone[entry.body] <= Kept + Patience + Patience
    BY <1>1, <1>7, TheBounds DEF TakeNotModified, ReadIsTrue, ConfirmsWhatIsRecent, EntryIsRecent
  <2>2. entry' = IF entry = NoEntry THEN NoEntry ELSE [entry EXCEPT !.age = 0]
    BY <1>7 DEF TakeNotModified, Touched, Restamped
  <2>3. /\ entry' \in [tag : Tags \cup {NoTag}, body : Contents \cup {None}, age : 0..Stale]
        /\ EntryIsRecent' /\ entry'.body = entry.body /\ (entry' # NoEntry => entry # NoEntry)
    <3>1. CASE entry = NoEntry
      BY <1>1, <2>2, <3>1 DEF EntryIsRecent, NoEntry
    <3>2. CASE entry # NoEntry
      BY <1>1, <1>3, <2>1, <2>2, <3>2, TheBounds DEF EntryIsRecent
    <3>3. QED
      BY <3>1, <3>2
  <2>4. \A q \in Reads \ {r} : ConfirmsWhatIsRecent(q)'
    BY <1>1, <1>3, <1>4, <2>3 DEF ReadIsTrue, ConfirmsWhatIsRecent
  <2>5. shown' \in Contents \cup {None}
    BY <1>1, <1>7 DEF TakeNotModified, Shows
  <2>6. QED
    BY <1>3, <1>5, <2>3, <2>4, <2>5, ScreenMoves
<1>8. CASE TakeFailure(r)
  <2>1. UNCHANGED <<entry, shown>>
    BY <1>8 DEF TakeFailure
  <2>2. EntryIsRecent' /\ \A q \in Reads \ {r} : ConfirmsWhatIsRecent(q)'
    BY <1>1, <1>3, <1>4, <2>1 DEF EntryIsRecent, ReadIsTrue, ConfirmsWhatIsRecent
  <2>3. QED
    BY <1>1, <1>3, <1>5, <2>1, <2>2, ScreenMoves
<1>9. QED
  BY <1>6, <1>7, <1>8 DEF Receive

(* A sign-out drops the entry; a reload loses the calls, and keeps the     *)
(* entry at most.                                                          *)
LEMMA PageInv == ReadInv /\ (SignOut \/ Reload) => ReadInv'
<1>1. ASSUME ReadInv, SignOut PROVE ReadInv'
  <2>1. TypeOK /\ \A c \in Contents : gone'[c] \in Nat /\ gone'[c] <= gone[c]
    BY <1>1, Typed DEF ReadInv, SignOut, serverVars
  <2>2. /\ EntryIsRecent' /\ \A r \in Reads : ReadIsTrue(r)'
        /\ entry' \in [tag : Tags \cup {NoTag}, body : Contents \cup {None}, age : 0..Stale]
        /\ BrowserIsRecent'
    BY <1>1, <2>1, NothingAges DEF SignOut, serverVars
  <2>3. TypeOK' /\ VersionsAreOfCommits' /\ ReplicaIsRecent' /\ StoredIsRecent'
    BY <1>1, <2>2 DEF ReadInv, SignOut, serverVars, TypeOK, ServerTypeOK, VersionsAreOfCommits, Committed,
       ReplicaIsRecent, StoredIsRecent
  <2>4. QED
    BY <2>2, <2>3 DEF ReadInv
<1>2. ASSUME ReadInv, Reload PROVE ReadInv'
  <2>1. /\ \A r \in Reads : read'[r] \in ReadCall
        /\ \A r \in Reads \ {Revalidation} : read'[r].at = "idle"
        /\ read'[Revalidation] = read[Revalidation]
    BY <1>2 DEF Reload, IdleRead, ReadCall, ReadInv, TypeOK, ServerTypeOK
  <2>2. \A r \in Reads : ReadIsTrue(r)'
    <3>1. \A r \in Reads \ {Revalidation} : ReadIsTrue(r)'
      BY <2>1 DEF ReadIsTrue, AnswerIsRecent, CopyIsRecent, ConfirmsWhatIsRecent, UnderWay
    <3>2. ReadIsTrue(Revalidation)'
      BY <1>2, <2>1 DEF ReadInv, Reload, ReadIsTrue, AnswerIsRecent, CopyIsRecent, ConfirmsWhatIsRecent, Loads, serverRest
    <3>3. QED
      BY <3>1, <3>2
  <2>3. /\ entry' \in [tag : Tags \cup {NoTag}, body : Contents \cup {None}, age : 0..Stale]
        /\ EntryIsRecent'
    BY <1>2 DEF ReadInv, TypeOK, Reload, EntryIsRecent, NoEntry, serverRest
  <2>4. TypeOK'
    BY <1>2, <2>1, <2>3 DEF ReadInv, TypeOK, ServerTypeOK, Reload, serverRest
  <2>5. VersionsAreOfCommits' /\ ReplicaIsRecent' /\ StoredIsRecent' /\ BrowserIsRecent'
    BY <1>2 DEF ReadInv, Reload, serverRest, VersionsAreOfCommits, Committed, ReplicaIsRecent, StoredIsRecent,
       BrowserIsRecent
  <2>6. QED
    BY <2>2, <2>3, <2>4, <2>5 DEF ReadInv
<1>3. QED
  BY <1>1, <1>2
-----------------------------------------------------------------------------
(* Every step keeps the invariant.                                         *)
LEMMA ReadNext == ReadInv /\ [Next]_vars => ReadInv'
<1>1. ReadInv /\ UNCHANGED vars => ReadInv'
  BY DEF vars, serverVars, clientVars, ReadInv, TypeOK, ServerTypeOK, VersionsAreOfCommits, Committed,
     ReplicaIsRecent, StoredIsRecent, EntryIsRecent, BrowserIsRecent, ReadIsTrue, AnswerIsRecent, CopyIsRecent,
     ConfirmsWhatIsRecent
<1>2. ReadInv /\ ServerStep => ReadInv'
  BY ReadStepInv, WriteStepInv, ReplicateInv DEF ServerStep
<1>3. ReadInv /\ ClientStep => ReadInv'
  BY LoadInv, ReceiveInv, KeepInv, WriteStepInv, PageInv DEF ClientStep
<1>4. QED
  BY <1>1, <1>2, <1>3, TickInv DEF Next

LEMMA ReadInvariance == Spec => []ReadInv
BY ReadInit, ReadNext, PTL DEF Spec

(* Every variable keeps its type: the bound on commits bounds the versions *)
(* too, since only a committed write invalidates.                          *)
THEOREM ReadTypeCorrect == Spec => []TypeOK
<1>1. ReadInv => TypeOK
  BY DEF ReadInv
<1>2. QED
  BY <1>1, ReadInvariance, PTL

(* Nothing a parent is shown is older than every lifetime on its way added *)
(* up, whatever races with an invalidation and however many loads, writes  *)
(* and confirmations run at once: conditional.go, the cache response.go    *)
(* lets the browser keep and read_through.ts do not renew each other's     *)
(* stale copies.                                                           *)
THEOREM ListIsNeverTooOld == Spec => []RenderedIsRecent
<1>1. ASSUME ReadInv, NEW b \in Renderable PROVE b \in Contents /\ gone[b] <= StaleBound
  <2>1. TypeOK /\ EntryIsRecent /\ entry.age \in 0 .. Stale
    BY <1>1, Typed DEF ReadInv
  <2>2. \A r \in Reads : ReadIsTrue(r) /\ read[r].open \in 0 .. Patience
    BY <1>1, Typed DEF ReadInv
  <2>3. \A c \in Contents : gone[c] \in Nat
    BY <2>1, Typed
  <2>4. StaleBound = Kept + Patience + (Stale - 1) + Patience
    BY TheBounds DEF StaleBound, Kept, Served
  <2>5. CASE Tier(entry.age) # "cold" /\ b = entry.body
    <3>1. entry.age < Stale /\ entry # NoEntry
      BY <2>1, <2>5 DEF Tier, NoEntry
    <3>2. QED
      BY <2>1, <2>3, <2>4, <2>5, <3>1, TheBounds DEF EntryIsRecent
  <2>6. ASSUME NEW r \in Reads, read[r].at \in {"ok", "cached"}, b = read[r].body PROVE b \in Contents /\ gone[b] <= StaleBound
    BY <2>2, <2>3, <2>4, <2>6, TheBounds DEF ReadIsTrue, AnswerIsRecent
  <2>7. ASSUME NEW l \in Loads, read[l].at = "same", b = held[l] PROVE b \in Contents /\ gone[b] <= StaleBound
    BY <2>2, <2>3, <2>4, <2>7, TheBounds DEF ReadIsTrue, CopyIsRecent, Loads
  <2>8. QED
    BY <1>1, <2>5, <2>6, <2>7 DEF Renderable
<1>2. ReadInv => RenderedIsRecent
  BY <1>1 DEF RenderedIsRecent
<1>3. QED
  BY <1>2, ReadInvariance, PTL
=============================================================================
