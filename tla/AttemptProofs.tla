--------------------------- MODULE AttemptProofs ---------------------------
(***************************************************************************)
(* What PaymentAttempt promises about the keys of a tab, for any number of *)
(* parents, bookings, calls and keys.                                      *)
(***************************************************************************)
EXTENDS PaymentAttempt, FiniteSetTheorems, TLAPS

USE AttemptAssumption

-----------------------------------------------------------------------------
(* Calls that carry a key: each may still mint one when it fails.          *)
Keyed == {c \in Calls : call[c].key # 0}
KeysFit == minted + Cardinality(Keyed) <= MaxKeys

(* What a call or a screen is about.                                       *)
CallsNameBookings ==
  \A c \in Calls : /\ call[c].kind # "none" => call[c].booking \in Bookings
                   /\ call[c].kind \in {"none", "load"} => call[c].key = 0
                   /\ call[c].kind \in {"create", "pay"} => call[c].key # 0
ScreenNamesBooking == screen.page \in {"pay", "booking"} => screen.of \in Bookings

(* The counter is above every key there is.                                *)
KeysAreMinted ==
  /\ held <= minted
  /\ \A c \in Calls : call[c].key <= minted
  /\ \A s \in sent : s[1] <= minted
  /\ \A key \in declined : key <= minted

(* The key in force was not declined, and nobody sent it but whoever is    *)
(* signed in.                                                              *)
HeldIsOwn ==
  held # 0 => held \notin declined /\ \A s \in sent : s[1] = held => s[2] = parent

AttemptInv ==
  /\ TypeOK
  /\ CallsNameBookings /\ ScreenNamesBooking
  /\ KeysFit /\ KeysAreMinted
  /\ HeldIsOwn /\ KeysAreNotShared

CallRecord == [kind : {"none", "create", "pay", "load"},
               who : Parents \union {None}, booking : Bookings \union {None},
               key : {0} \union Keys,
               answer : Failures \union {"none", "ok"}, shows : Status]

LEMMA AttemptInit == Init => AttemptInv
<1> SUFFICES ASSUME Init PROVE AttemptInv
  OBVIOUS
<1> USE DEF Init
<1>1. TypeOK
  BY DEF TypeOK, Status, Failures, EmptyStore, Elsewhere, NoCall
<1>2. CallsNameBookings /\ ScreenNamesBooking
  BY DEF CallsNameBookings, ScreenNamesBooking, NoCall, Elsewhere
<1>3. KeysFit
  <2>1. Keyed = {}
    BY DEF Keyed, NoCall
  <2>2. QED
    BY <2>1, FS_EmptySet DEF KeysFit
<1>4. KeysAreMinted /\ HeldIsOwn /\ KeysAreNotShared
  BY DEF KeysAreMinted, HeldIsOwn, KeysAreNotShared, NoCall
<1>5. QED
  BY <1>1, <1>2, <1>3, <1>4 DEF AttemptInv

-----------------------------------------------------------------------------
(* What a new call takes out of the keys that are left, and what an answer *)
(* gives back.                                                             *)
LEMMA KeyedIsFinite ==
  ASSUME TypeOK
  PROVE  IsFiniteSet(Keyed) /\ Cardinality(Keyed) \in Nat /\ minted \in Nat /\ held \in Nat
<1>1. IsFiniteSet(Calls)
  BY FS_Interval DEF Calls
<1>2. QED
  BY <1>1, FS_Subset, FS_CardinalityType DEF Keyed, TypeOK, Keys

LEMMA SendFits ==
  ASSUME AttemptInv, NEW c \in Calls, Free(c), NEW kind, NEW b, NEW key \in Nat \ {0},
         KeysLeft(key), Send(c, kind, b, key), Hold(key), key \in {held, minted + 1}
  PROVE  KeysFit' /\ key \in Keys /\ minted' \in 0..MaxKeys /\ held' \in Keys
         /\ minted <= minted' /\ held' <= minted'
<1>1. IsFiniteSet(Keyed) /\ Cardinality(Keyed) \in Nat /\ minted \in Nat /\ held \in Nat
  BY KeyedIsFinite DEF AttemptInv
<1>2. Keyed' \subseteq Keyed \union {c}
  BY DEF Send, Keyed, AttemptInv, TypeOK
<1>3. Cardinality(Keyed \union {c}) <= Cardinality(Keyed) + 1
      /\ IsFiniteSet(Keyed \union {c}) /\ Cardinality(Keyed \union {c}) \in Nat
  <2>1. IsFiniteSet(Keyed \union {c})
    BY <1>1, FS_AddElement
  <2>2. Cardinality(Keyed \union {c})
          = IF c \in Keyed THEN Cardinality(Keyed) ELSE Cardinality(Keyed) + 1
    BY <1>1, FS_AddElement
  <2>3. QED
    BY <1>1, <2>1, <2>2
<1>4. Cardinality(Keyed') <= Cardinality(Keyed) + 1 /\ Cardinality(Keyed') \in Nat
  BY <1>1, <1>2, <1>3, FS_Subset, FS_CardinalityType
<1>5. (IF key > minted THEN key ELSE minted) + Cardinality(Keyed) + 1 <= MaxKeys
  BY DEF KeysLeft, Keyed
<1>6. QED
  BY <1>1, <1>4, <1>5 DEF KeysFit, Hold, Keys

-----------------------------------------------------------------------------
(* Types, one handler at a time.                                           *)
LEMMA SendTypes ==
  ASSUME AttemptInv, NEW c \in Calls, NEW kind \in {"create", "pay", "load"}, NEW b \in Bookings,
         NEW key \in {0} \union Keys, kind = "load" <=> key = 0, Send(c, kind, b, key)
  PROVE  call' \in [Calls -> CallRecord] /\ CallsNameBookings'
<1> DEFINE sending == [NoCall EXCEPT !.kind = kind, !.who = parent, !.booking = b, !.key = key]
<1>1. /\ sending \in CallRecord /\ sending.kind = kind /\ sending.booking = b /\ sending.key = key
  BY DEF NoCall, CallRecord, AttemptInv, TypeOK, Status
<1>2. call' = [call EXCEPT ![c] = sending]
  BY DEF Send
<1>3. call \in [Calls -> CallRecord]
  BY DEF AttemptInv, TypeOK, CallRecord
<1> HIDE DEF sending
<1>4. QED
  BY <1>1, <1>2, <1>3 DEF CallsNameBookings, AttemptInv

LEMMA AnswerTypes ==
  ASSUME AttemptInv, NEW c \in Calls, NEW answer \in Failures \union {"ok"}, NEW shows \in Status,
         Answer(c, answer, shows)
  PROVE  call' \in [Calls -> CallRecord] /\ CallsNameBookings' /\ Keyed' = Keyed
         /\ \A d \in Calls : call'[d].key = call[d].key
<1>1. PICK a \in Failures \union {"ok"}, x \in Status :
        call' = [call EXCEPT ![c] = [@ EXCEPT !.answer = a, !.shows = x]]
  <2>1. CASE call' = [call EXCEPT ![c].answer = answer, ![c].shows = shows]
    BY <2>1
  <2>2. CASE call' = [call EXCEPT ![c].answer = "Unavailable"]
    <3>1. call[c] \in CallRecord
      BY DEF AttemptInv, TypeOK, CallRecord
    <3>2. [call[c] EXCEPT !.answer = "Unavailable"]
             = [call[c] EXCEPT !.answer = "Unavailable", !.shows = call[c].shows]
      BY <3>1 DEF CallRecord
    <3>3. "Unavailable" \in Failures /\ call[c].shows \in Status
      BY <3>1 DEF CallRecord, Failures
    <3>4. QED
      BY <2>2, <3>2, <3>3
  <2>3. QED
    BY <2>1, <2>2 DEF Answer
<1>2. call \in [Calls -> CallRecord]
  BY DEF AttemptInv, TypeOK, CallRecord
<1>3. call' \in [Calls -> CallRecord]
  BY <1>1, <1>2 DEF CallRecord
<1>4. \A d \in Calls : /\ call'[d].key = call[d].key /\ call'[d].kind = call[d].kind
                       /\ call'[d].booking = call[d].booking
  BY <1>1, <1>2 DEF CallRecord
<1>5. QED
  BY <1>3, <1>4 DEF CallsNameBookings, Keyed, AttemptInv

LEMMA SettledTypes ==
  ASSUME AttemptInv, NEW c \in Calls, call' = [call EXCEPT ![c] = NoCall]
  PROVE  call' \in [Calls -> CallRecord] /\ CallsNameBookings' /\ Keyed' = Keyed \ {c}
         /\ \A d \in Calls : call'[d].key <= call[d].key
<1>1. call \in [Calls -> CallRecord] /\ NoCall \in CallRecord
  BY DEF AttemptInv, TypeOK, CallRecord, NoCall, Status
<1>2. QED
  BY <1>1 DEF CallsNameBookings, Keyed, AttemptInv, NoCall, CallRecord, Keys

-----------------------------------------------------------------------------
(* The key of a new call is the one in force, which is the parent's own    *)
(* and was not declined, or one nobody ever saw.                           *)
LEMMA CurrentKey ==
  ASSUME AttemptInv
  PROVE  /\ Current \in {held, minted + 1} /\ Current \in Nat \ {0}
         /\ Current \notin declined
         /\ \A s \in sent : s[1] = Current => s[2] = parent
<1>1. held \in Nat /\ minted \in Nat
  BY KeyedIsFinite DEF AttemptInv
<1>2. CASE held # 0
  BY <1>1, <1>2 DEF Current, AttemptInv, HeldIsOwn
<1>3. CASE held = 0
  <2>1. /\ \A key \in declined : key \in Nat /\ key <= minted
        /\ \A s \in sent : s[1] \in Nat /\ s[1] <= minted
    BY DEF AttemptInv, KeysAreMinted, TypeOK, Keys
  <2>2. QED
    BY <1>1, <1>3, <2>1 DEF Current
<1>4. QED
  BY <1>2, <1>3

LEMMA FreshKey ==
  ASSUME AttemptInv
  PROVE  /\ minted + 1 \in Nat \ {0} /\ minted + 1 \notin declined
         /\ \A s \in sent : s[1] # minted + 1
<1>1. minted \in Nat
  BY KeyedIsFinite DEF AttemptInv
<1>2. /\ \A key \in declined : key \in Nat /\ key <= minted
      /\ \A s \in sent : s[1] \in Nat /\ s[1] <= minted
  BY DEF AttemptInv, KeysAreMinted, TypeOK, Keys
<1>3. QED
  BY <1>1, <1>2

(* A parent who sends such a key makes it theirs.                          *)
LEMMA SendingAKey ==
  ASSUME AttemptInv, parent \in Parents, NEW c \in Calls, Free(c),
         NEW kind \in {"create", "pay"}, NEW b \in Bookings, NEW key \in Nat \ {0},
         key \in {held, minted + 1}, key \notin declined, \A s \in sent : s[1] = key => s[2] = parent,
         KeysLeft(key), Hold(key), Send(c, kind, b, key),
         sent' = sent \union {<<key, parent>>}, parent' = parent, declined' = declined
  PROVE  /\ call' \in [Calls -> CallRecord] /\ held' \in Keys /\ minted' \in 0..MaxKeys
         /\ sent' \in SUBSET (Keys \X Parents)
         /\ CallsNameBookings' /\ KeysFit' /\ KeysAreMinted' /\ HeldIsOwn' /\ KeysAreNotShared'
<1>1. /\ KeysFit' /\ key \in Keys /\ minted' \in 0..MaxKeys /\ held' \in Keys
      /\ minted <= minted' /\ held' <= minted'
  BY SendFits
<1>2. call' \in [Calls -> CallRecord] /\ CallsNameBookings'
  <2>1. key # 0 /\ key \in {0} \union Keys
    BY <1>1
  <2>2. QED
    BY <2>1, SendTypes
<1>3. sent \in SUBSET (Keys \X Parents) /\ declined \in SUBSET Keys /\ minted \in Nat
  BY KeyedIsFinite DEF AttemptInv, TypeOK
<1>4. sent' \in SUBSET (Keys \X Parents)
  BY <1>1, <1>3
<1>5. held' = key
  BY DEF Hold
<1>6. KeysAreMinted'
  <2>1. \A d \in Calls : call'[d].key <= minted'
    <3>1. call'[c].key = key
      BY DEF Send, AttemptInv, TypeOK
    <3>2. \A d \in Calls \ {c} : call'[d] = call[d]
      BY DEF Send
    <3>3. \A d \in Calls : call[d].key \in Nat /\ call[d].key <= minted
      BY DEF AttemptInv, KeysAreMinted, TypeOK, Keys
    <3>4. QED
      BY <1>1, <1>3, <1>5, <3>1, <3>2, <3>3
  <2>2. \A s \in sent' : s[1] <= minted'
    <3>1. \A s \in sent : s[1] \in Nat /\ s[1] <= minted
      BY <1>3 DEF AttemptInv, KeysAreMinted, Keys
    <3>2. QED
      BY <1>1, <1>3, <1>5, <3>1
  <2>3. \A k \in declined' : k <= minted'
    <3>1. \A k \in declined : k \in Nat /\ k <= minted
      BY DEF AttemptInv, KeysAreMinted, TypeOK, Keys
    <3>2. QED
      BY <1>1, <1>3, <3>1
  <2>4. QED
    BY <1>1, <2>1, <2>2, <2>3 DEF KeysAreMinted
<1>7. HeldIsOwn'
  BY <1>5 DEF HeldIsOwn
<1>8. KeysAreNotShared'
  <2>1. \A s \in sent : s = <<s[1], s[2]>>
    BY <1>3
  <2>2. \A s \in sent : s[1] = key => s = <<key, parent>>
    BY <2>1
  <2>3. QED
    BY <2>2 DEF KeysAreNotShared, AttemptInv
<1>9. QED
  BY <1>1, <1>2, <1>4, <1>6, <1>7, <1>8

-----------------------------------------------------------------------------
(* The steps of the parent.                                                *)
LEMMA KeysUntouched ==
  ASSUME AttemptInv, minted' = minted, sent' = sent, declined' = declined,
         (held' = held /\ (parent' = parent \/ parent = None)) \/ held' = 0,
         \A c \in Calls : call'[c].key <= call[c].key /\ call'[c].key \in {0} \union Keys
  PROVE  KeysAreMinted' /\ HeldIsOwn' /\ KeysAreNotShared' /\ held' \in {0} \union Keys
<1>1. held \in Nat /\ minted \in Nat
  BY KeyedIsFinite DEF AttemptInv
<1>2. KeysAreMinted'
  <2>1. \A c \in Calls : call'[c].key <= minted'
    <3>1. \A c \in Calls : call[c].key \in Nat /\ call'[c].key \in Nat
      BY DEF AttemptInv, TypeOK, Keys
    <3>2. QED
      BY <1>1, <3>1 DEF AttemptInv, KeysAreMinted
  <2>2. QED
    BY <1>1, <2>1 DEF AttemptInv, KeysAreMinted
<1>3. HeldIsOwn'
  <2>1. \A s \in sent : s[2] # None
    BY DEF AttemptInv, TypeOK
  <2>2. QED
    BY <2>1 DEF AttemptInv, HeldIsOwn
<1>4. QED
  BY <1>2, <1>3 DEF AttemptInv, KeysAreNotShared, TypeOK

LEMMA SameCalls ==
  ASSUME AttemptInv, call' = call, minted' = minted
  PROVE  CallsNameBookings' /\ KeysFit'
         /\ \A c \in Calls : call'[c].key <= call[c].key /\ call'[c].key \in {0} \union Keys
BY DEF AttemptInv, CallsNameBookings, KeysFit, Keyed, TypeOK, Keys

(* A read carries no key.                                                  *)
LEMMA SendingALoad ==
  ASSUME AttemptInv, NEW c \in Calls, NEW b \in Bookings, Send(c, "load", b, 0), minted' = minted
  PROVE  /\ call' \in [Calls -> CallRecord] /\ CallsNameBookings' /\ KeysFit'
         /\ \A d \in Calls : call'[d].key <= call[d].key /\ call'[d].key \in {0} \union Keys
<1>1. call' \in [Calls -> CallRecord] /\ CallsNameBookings'
  BY SendTypes
<1>2. \A d \in Calls : call'[d].key <= call[d].key /\ call[d].key \in Nat /\ call'[d].key \in Nat
                       /\ call'[d].key \in {0} \union Keys
  <2>1. call'[c].key = 0
    BY DEF Send, NoCall, AttemptInv, TypeOK
  <2>2. \A d \in Calls : call'[d] = call[d] \/ d = c
    BY DEF Send, AttemptInv, TypeOK
  <2>3. \A d \in Calls : call[d].key \in Nat /\ call[d].key \in {0} \union Keys
    BY DEF AttemptInv, TypeOK, Keys
  <2>4. QED
    BY <2>1, <2>2, <2>3
<1>3. Keyed' \subseteq Keyed
  BY <1>2 DEF Keyed
<1>4. Cardinality(Keyed') <= Cardinality(Keyed) /\ Cardinality(Keyed') \in Nat
  BY <1>3, KeyedIsFinite, FS_Subset, FS_CardinalityType DEF AttemptInv
<1>5. KeysFit'
  <2>1. Cardinality(Keyed) \in Nat /\ minted \in Nat /\ minted + Cardinality(Keyed) <= MaxKeys
    BY KeyedIsFinite DEF AttemptInv, KeysFit
  <2>2. minted' + Cardinality(Keyed') <= MaxKeys
    BY <1>4, <2>1
  <2>3. QED
    BY <2>2 DEF KeysFit
<1>6. QED
  BY <1>1, <1>2, <1>5

LEMMA StoreTypes ==
  ASSUME TypeOK
  PROVE  /\ Loading \in [booking : Bookings \union {None}, shows : Status, submitting : BOOLEAN,
                         failure : Failures \union {"none"}]
         /\ EmptyStore \in [booking : Bookings \union {None}, shows : Status, submitting : BOOLEAN,
                            failure : Failures \union {"none"}]
BY DEF TypeOK, Loading, EmptyStore, Status

LEMMA ParentStep ==
  ASSUME AttemptInv,
         \/ \E p \in Parents : SignIn(p)
         \/ SignOut
         \/ \E b \in Bookings : Visit("pay", b) \/ Visit("booking", b)
         \/ \E c \in Calls : Mount(c) \/ HoldReachedZero(c)
  PROVE  AttemptInv'
<1> DEFINE StoreRecord == [booking : Bookings \union {None}, shows : Status, submitting : BOOLEAN,
                           failure : Failures \union {"none"}]
<1>0. TypeOK
  BY DEF AttemptInv
<1>1. ASSUME NEW p \in Parents, SignIn(p) PROVE AttemptInv'
  <2>1. CallsNameBookings' /\ KeysFit' /\ KeysAreMinted' /\ HeldIsOwn' /\ KeysAreNotShared'
    BY <1>1, SameCalls, KeysUntouched DEF SignIn
  <2>2. ScreenNamesBooking'
    BY <1>1 DEF SignIn, ScreenNamesBooking, Elsewhere
  <2>3. TypeOK'
    BY <1>0, <1>1 DEF SignIn, TypeOK, api, Elsewhere
  <2>4. QED
    BY <2>1, <2>2, <2>3 DEF AttemptInv
<1>2. CASE SignOut
  <2>1. CallsNameBookings' /\ KeysFit' /\ KeysAreMinted' /\ HeldIsOwn' /\ KeysAreNotShared'
    BY <1>2, SameCalls, KeysUntouched DEF SignOut, Reset
  <2>2. ScreenNamesBooking'
    BY <1>2 DEF SignOut, ScreenNamesBooking, Elsewhere
  <2>3. TypeOK'
    <3>1. EmptyStore \in StoreRecord
      BY <1>0, StoreTypes
    <3> HIDE DEF StoreRecord
    <3>2. store' \in StoreRecord
      BY <1>2, <3>1 DEF SignOut, Reset
    <3> USE DEF StoreRecord
    <3>3. QED
      BY <1>0, <1>2, <3>2 DEF SignOut, Reset, TypeOK, api, Elsewhere
  <2>4. QED
    BY <2>1, <2>2, <2>3 DEF AttemptInv
<1>3. ASSUME NEW b \in Bookings, Visit("pay", b) \/ Visit("booking", b) PROVE AttemptInv'
  <2>1. CallsNameBookings' /\ KeysFit' /\ KeysAreMinted' /\ HeldIsOwn' /\ KeysAreNotShared'
    BY <1>3, SameCalls, KeysUntouched DEF Visit
  <2>2. ScreenNamesBooking'
    BY <1>3 DEF Visit, AttemptInv, ScreenNamesBooking
  <2>3. TypeOK'
    <3>1. visits' \in 0..MaxVisits
      BY <1>0, <1>3 DEF Visit, TypeOK
    <3>2. PICK page \in {"pay", "booking"} : going' = [page |-> page, of |-> b, ended |-> FALSE]
      BY <1>3 DEF Visit
    <3>3. going' \in [page : {"pay", "booking"}, of : Bookings, ended : {FALSE}]
      BY <3>2
    <3>4. QED
      BY <1>0, <1>3, <3>1, <3>3 DEF Visit, TypeOK, api
  <2>4. QED
    BY <2>1, <2>2, <2>3 DEF AttemptInv
<1>4. ASSUME NEW c \in Calls, Mount(c) \/ HoldReachedZero(c) PROVE AttemptInv'
  <2>1. PICK b \in Bookings : Send(c, "load", b, 0)
    <3>1. going # Elsewhere => going.of \in Bookings
      BY <1>0 DEF TypeOK
    <3>2. screen.page = "pay" => screen.of \in Bookings
      BY DEF AttemptInv, ScreenNamesBooking
    <3>3. QED
      BY <1>4, <3>1, <3>2 DEF Mount, HoldReachedZero
  <2>2. /\ minted' = minted /\ held' = held /\ parent' = parent /\ sent' = sent
        /\ declined' = declined /\ store' = Loading /\ visits' = visits /\ UNCHANGED api
    BY <1>4 DEF Mount, HoldReachedZero
  <2>3. /\ call' \in [Calls -> CallRecord] /\ CallsNameBookings' /\ KeysFit'
        /\ KeysAreMinted' /\ HeldIsOwn' /\ KeysAreNotShared'
    BY <2>1, <2>2, SendingALoad, KeysUntouched
  <2>4. /\ screen' \in [page : {"away", "book", "pay", "booking"}, of : Bookings \union {None},
                        ended : BOOLEAN]
        /\ going' \in {Elsewhere} \union [page : {"pay", "booking"}, of : Bookings, ended : {FALSE}]
        /\ ScreenNamesBooking'
    <3>1. CASE Mount(c)
      BY <1>0, <3>1 DEF Mount, TypeOK, ScreenNamesBooking
    <3>2. CASE HoldReachedZero(c)
      BY <1>0, <3>2 DEF HoldReachedZero, TypeOK, ScreenNamesBooking, AttemptInv
    <3>3. QED
      BY <1>4, <3>1, <3>2
  <2>5. store' \in StoreRecord
    BY <1>0, <2>2, StoreTypes
  <2>6. TypeOK'
    BY <1>0, <2>2, <2>3, <2>4, <2>5 DEF TypeOK, api, CallRecord
  <2>7. QED
    BY <2>3, <2>4, <2>6 DEF AttemptInv
<1>5. QED
  BY <1>1, <1>2, <1>3, <1>4

LEMMA CreateOrPayStep ==
  ASSUME AttemptInv, NEW c \in Calls, Pay(c) \/ \E b \in Bookings : Create(c, b)
  PROVE  AttemptInv'
<1> DEFINE StoreRecord == [booking : Bookings \union {None}, shows : Status, submitting : BOOLEAN,
                           failure : Failures \union {"none"}]
<1>1. PICK kind \in {"create", "pay"}, b \in Bookings, key \in {Current, minted + 1} :
        /\ Free(c) /\ KeysLeft(key) /\ Hold(key) /\ Send(c, kind, b, key)
        /\ sent' = sent \union {<<key, parent>>}
  <2>1. CASE Pay(c)
    <3>1. screen.of \in Bookings
      BY <2>1 DEF Pay, AttemptInv, ScreenNamesBooking
    <3>2. QED
      BY <2>1, <3>1 DEF Pay
  <2>2. CASE \E b \in Bookings : Create(c, b)
    BY <2>2 DEF Create
  <2>3. QED
    BY <2>1, <2>2
<1>2. /\ parent # None /\ parent' = parent /\ declined' = declined /\ store' = Loading
      /\ UNCHANGED <<api, screen, going, visits>>
  BY DEF Pay, Create
<1>3. parent \in Parents
  BY <1>2 DEF AttemptInv, TypeOK
<1>4. /\ key \in {held, minted + 1} /\ key \in Nat \ {0} /\ key \notin declined
      /\ \A s \in sent : s[1] = key => s[2] = parent
  BY CurrentKey, FreshKey
<1>5. /\ call' \in [Calls -> CallRecord] /\ held' \in Keys /\ minted' \in 0..MaxKeys
      /\ sent' \in SUBSET (Keys \X Parents)
      /\ CallsNameBookings' /\ KeysFit' /\ KeysAreMinted' /\ HeldIsOwn' /\ KeysAreNotShared'
  BY <1>1, <1>2, <1>3, <1>4, SendingAKey
<1>6. store' \in StoreRecord
  BY <1>2, StoreTypes DEF AttemptInv
<1> HIDE DEF StoreRecord
<1>7. TypeOK'
  BY <1>2, <1>5, <1>6 DEF AttemptInv, TypeOK, api, CallRecord, StoreRecord
<1>8. ScreenNamesBooking'
  BY <1>2 DEF AttemptInv, ScreenNamesBooking
<1>9. QED
  BY <1>5, <1>7, <1>8 DEF AttemptInv

-----------------------------------------------------------------------------
(* The api.                                                                *)
LEMMA ApiStep ==
  ASSUME AttemptInv, (\E b \in Bookings : End(b)) \/ \E c \in Calls : Serve(c)
  PROVE  AttemptInv'
<1> DEFINE ApiTypes == /\ status' \in [Bookings -> Status]
                       /\ owner' \in [Bookings -> Parents \union {None}]
                       /\ fate' \in [Bookings \X Keys -> {"none", "initiated", "succeeded", "failed"}]
                       /\ charged' \in SUBSET (Bookings \X Keys)
           Answers(c) == \E answer \in Failures \union {"ok"}, shows \in Status : Answer(c, answer, shows)
<1>0. TypeOK
  BY DEF AttemptInv
<1>1. ASSUME UNCHANGED tab, ApiTypes, call' = call \/ \E c \in Calls : Answers(c) PROVE AttemptInv'
  <2>1. /\ call' \in [Calls -> CallRecord] /\ CallsNameBookings' /\ Keyed' = Keyed
        /\ \A d \in Calls : call'[d].key = call[d].key
    <3>1. CASE call' = call
      BY <1>0, <3>1 DEF TypeOK, CallRecord, AttemptInv, CallsNameBookings, Keyed
    <3>2. CASE \E c \in Calls : Answers(c)
      BY <3>2, AnswerTypes
    <3>3. QED
      BY <1>1, <3>1, <3>2
  <2>2. \A d \in Calls : call'[d].key <= call[d].key /\ call'[d].key \in {0} \union Keys
    BY <1>0, <2>1 DEF TypeOK, Keys
  <2>3. KeysAreMinted' /\ HeldIsOwn' /\ KeysAreNotShared'
    BY <1>1, <2>2, KeysUntouched DEF tab
  <2>4. KeysFit' /\ ScreenNamesBooking'
    BY <1>1, <2>1 DEF tab, AttemptInv, KeysFit, ScreenNamesBooking
  <2>5. TypeOK'
    BY <1>0, <1>1, <2>1 DEF TypeOK, tab, CallRecord
  <2>6. QED
    BY <2>1, <2>3, <2>4, <2>5 DEF AttemptInv
<1>2. "pending_payment" \in Status /\ "absent" \in Status /\ "confirmed" \in Status
      /\ "refund_required" \in Status /\ "payment_failed" \in Status /\ "ended" \in Status
      /\ Failures \subseteq Failures \union {"ok"} /\ "ok" \in Failures \union {"ok"}
      /\ {"PaymentDeclined", "InvalidRequest", "SeatLost", "Refused", "Unavailable", "SignedOut"} \subseteq Failures
  BY DEF Status, Failures
<1>3. ASSUME NEW b \in Bookings, End(b) PROVE AttemptInv'
  <2>1. ApiTypes
    BY <1>0, <1>2, <1>3 DEF End, TypeOK
  <2>2. QED
    BY <1>1, <1>3, <2>1 DEF End
<1>4. ASSUME NEW c \in Calls, NotServed(c) PROVE AttemptInv'
  <2>1. ApiTypes
    BY <1>0, <1>4 DEF NotServed, api, TypeOK
  <2>2. Answers(c)
    BY <1>2, <1>4 DEF NotServed
  <2>3. QED
    BY <1>1, <1>4, <2>1, <2>2 DEF NotServed
<1>5. ASSUME NEW c \in Calls, ServeCreate(c) PROVE AttemptInv'
  <2>1. ApiTypes
    BY <1>0, <1>2, <1>5 DEF ServeCreate, TypeOK
  <2>2. Answers(c)
    BY <1>2, <1>5 DEF ServeCreate
  <2>3. QED
    BY <1>1, <1>5, <2>1, <2>2 DEF ServeCreate
<1>6. ASSUME NEW c \in Calls, ServeLoad(c) PROVE AttemptInv'
  <2>1. ApiTypes
    BY <1>0, <1>6 DEF ServeLoad, api, TypeOK
  <2>2. Answers(c)
    <3>1. status[call[c].booking] \in Status
      BY <1>0, <1>6 DEF ServeLoad, Unserved, AttemptInv, CallsNameBookings, TypeOK
    <3>2. QED
      BY <1>2, <1>6, <3>1 DEF ServeLoad
  <2>3. QED
    BY <1>1, <1>6, <2>1, <2>2 DEF ServeLoad
<1>7. ASSUME NEW c \in Calls, ServePay(c) PROVE AttemptInv'
  <2> DEFINE p == <<call[c].booking, call[c].key>>
  <2>1. call[c].booking \in Bookings /\ p \in Bookings \X Keys
    BY <1>0, <1>7 DEF ServePay, Unserved, AttemptInv, CallsNameBookings, TypeOK
  <2>2. ASSUME Confirm(c) PROVE status' \in [Bookings -> Status] /\ Answers(c)
    <3>1. Answers(c)
      BY <1>2, <2>2 DEF Confirm
    <3>2. status' \in [Bookings -> Status]
      BY <1>0, <1>2, <2>1, <2>2 DEF Confirm, TypeOK
    <3>3. QED
      BY <3>1, <3>2
  <2>3. ASSUME Decline(c) PROVE status' \in [Bookings -> Status] /\ Answers(c)
    <3>1. Answers(c)
      BY <1>2, <2>3 DEF Decline
    <3>2. status' \in [Bookings -> Status]
      BY <1>0, <1>2, <2>1, <2>3 DEF Decline, TypeOK
    <3>3. QED
      BY <3>1, <3>2
  <2>4. ASSUME Answer(c, "Unavailable", "absent"), UNCHANGED status
        PROVE  status' \in [Bookings -> Status] /\ Answers(c)
    BY <1>0, <1>2, <2>4 DEF TypeOK
  <2> HIDE DEF p, Answers
  <2>5. status' \in [Bookings -> Status] /\ Answers(c)
    BY <1>7, <2>2, <2>3, <2>4 DEF ServePay
  <2>6. /\ fate' \in [Bookings \X Keys -> {"none", "initiated", "succeeded", "failed"}]
        /\ charged' \in SUBSET (Bookings \X Keys)
    <3>1. \/ fate' = fate
          \/ \E f \in {"none", "initiated", "succeeded", "failed"} : fate' = [fate EXCEPT ![p] = f]
      BY <1>7 DEF ServePay, p
    <3>2. charged' = charged \/ charged' = charged \union {p}
      BY <1>7 DEF ServePay, p
    <3>3. p \in Bookings \X Keys
      BY <2>1 DEF p
    <3>4. QED
      BY <1>0, <3>1, <3>2, <3>3 DEF TypeOK
  <2>7. owner' \in [Bookings -> Parents \union {None}]
    BY <1>0, <1>7 DEF ServePay, TypeOK
  <2>8. QED
    BY <1>1, <1>7, <2>5, <2>6, <2>7 DEF ServePay
<1>8. QED
  BY <1>3, <1>4, <1>5, <1>6, <1>7 DEF Serve

-----------------------------------------------------------------------------
(* Answers.                                                                *)
LEMMA ReceiveStep ==
  ASSUME AttemptInv, NEW c \in Calls, Receive(c)
  PROVE  AttemptInv'
<1> DEFINE StoreRecord == [booking : Bookings \union {None}, shows : Status, submitting : BOOLEAN,
                           failure : Failures \union {"none"}]
<1>0. TypeOK /\ call \in [Calls -> CallRecord] /\ store \in StoreRecord
  BY DEF AttemptInv, TypeOK, CallRecord
<1>1. call' = [call EXCEPT ![c] = NoCall]
  BY DEF Receive, ReceiveBooking, ReceiveFailure, ReceiveLoadFailure, ReceiveSignedOut
<1>2. /\ call' \in [Calls -> CallRecord] /\ CallsNameBookings' /\ Keyed' = Keyed \ {c}
      /\ \A d \in Calls : call'[d].key <= call[d].key
  BY <1>1, SettledTypes
<1>3. /\ IsFiniteSet(Keyed) /\ Cardinality(Keyed) \in Nat /\ minted \in Nat /\ held \in Nat
      /\ minted + Cardinality(Keyed) <= MaxKeys
  BY KeyedIsFinite DEF AttemptInv, KeysFit
<1>4. /\ Cardinality(Keyed') \in Nat
      /\ Cardinality(Keyed') = IF c \in Keyed THEN Cardinality(Keyed) - 1 ELSE Cardinality(Keyed)
  <2>1. IsFiniteSet(Keyed')
    BY <1>2, <1>3, FS_Subset
  <2>2. c \in Keyed => Cardinality(Keyed') = Cardinality(Keyed) - 1
    BY <1>2, <1>3, FS_RemoveElement
  <2>3. c \notin Keyed => Keyed' = Keyed
    BY <1>2
  <2>4. QED
    BY <1>3, <2>1, <2>2, <2>3, FS_CardinalityType
<1>5. \A d \in Calls : call'[d].key \in {0} \union Keys
  BY <1>2 DEF CallRecord
<1>6. ASSUME ~ReceiveFailure(c) PROVE AttemptInv'
  <2>1. /\ minted' = minted /\ sent' = sent /\ declined' = declined /\ visits' = visits /\ UNCHANGED api
        /\ \/ held' = held /\ parent' = parent
           \/ held' = 0 /\ parent' = None
    BY <1>6 DEF Receive, ReceiveBooking, ReceiveLoadFailure, ReceiveSignedOut
  <2>2. KeysAreMinted' /\ HeldIsOwn' /\ KeysAreNotShared' /\ held' \in {0} \union Keys
    BY <1>2, <1>5, <2>1, KeysUntouched
  <2>3. KeysFit'
    BY <1>3, <1>4, <2>1 DEF KeysFit
  <2>4. store' \in StoreRecord
    <3>1. CASE ReceiveBooking(c)
      BY <1>0, <3>1 DEF ReceiveBooking, Shown, CallRecord
    <3>2. CASE ReceiveLoadFailure(c)
      <4>1. call[c].answer \in Failures
        BY <3>2 DEF ReceiveLoadFailure, Answered
      <4>2. QED
        BY <1>0, <3>2, <4>1 DEF ReceiveLoadFailure, Told
    <3>3. CASE ReceiveSignedOut(c)
      BY <1>0, <3>3, StoreTypes DEF ReceiveSignedOut, EmptyStore, Failures, Status
    <3>4. QED
      BY <1>6, <3>1, <3>2, <3>3 DEF Receive
  <2>5. /\ screen' \in [page : {"away", "book", "pay", "booking"}, of : Bookings \union {None},
                        ended : BOOLEAN]
        /\ ScreenNamesBooking'
    <3>1. screen' = screen \/ screen' = Elsewhere
      BY <1>6 DEF Receive, ReceiveBooking, ReceiveLoadFailure, ReceiveSignedOut
    <3>2. CASE screen' = screen
      BY <1>0, <3>2 DEF TypeOK, AttemptInv, ScreenNamesBooking
    <3>3. CASE screen' = Elsewhere
      <4>1. /\ Elsewhere \in [page : {"away", "book", "pay", "booking"}, of : Bookings \union {None},
                              ended : BOOLEAN]
            /\ Elsewhere.page = "away"
        BY DEF Elsewhere
      <4>2. QED
        BY <3>3, <4>1 DEF ScreenNamesBooking
    <3>4. QED
      BY <3>1, <3>2, <3>3
  <2>6. going' \in {Elsewhere} \union [page : {"pay", "booking"}, of : Bookings, ended : {FALSE}]
    <3>1. CASE ReceiveBooking(c) /\ call[c].kind # "load"
      <4>1. call[c].kind \in {"create", "pay"} /\ call[c].booking \in Bookings
        BY <1>0, <3>1 DEF ReceiveBooking, Answered, CallRecord, AttemptInv, CallsNameBookings
      <4>2. PICK page \in {"pay", "booking"} :
              going' = [page |-> page, of |-> call[c].booking, ended |-> FALSE]
        BY <3>1, <4>1 DEF ReceiveBooking
      <4>3. QED
        BY <4>1, <4>2
    <3>2. CASE ~(ReceiveBooking(c) /\ call[c].kind # "load")
      <4>1. going' = going \/ going' = Elsewhere
        BY <1>6, <3>2 DEF Receive, ReceiveBooking, ReceiveLoadFailure, ReceiveSignedOut
      <4>2. QED
        BY <1>0, <4>1 DEF TypeOK
    <3>3. QED
      BY <3>1, <3>2
  <2> HIDE DEF StoreRecord
  <2>7. parent' \in Parents \union {None}
    BY <1>0, <2>1 DEF TypeOK
  <2>8. TypeOK'
    BY <1>0, <1>2, <2>1, <2>2, <2>4, <2>5, <2>6, <2>7 DEF TypeOK, api, CallRecord, StoreRecord
  <2>9. QED
    BY <1>2, <2>2, <2>3, <2>5, <2>8 DEF AttemptInv
<1>7. ASSUME ReceiveFailure(c) PROVE AttemptInv'
  <2> DEFINE key == Settle(call[c].answer)
  <2>1. /\ held' = key /\ minted' = (IF key > minted THEN key ELSE minted)
        /\ store' = Told(c) /\ UNCHANGED <<api, parent, screen, going, visits, sent>>
        /\ declined' = IF call[c].answer = "PaymentDeclined" THEN declined \union {call[c].key}
                       ELSE declined
        /\ call[c].answer \in Failures /\ call[c].kind \in {"create", "pay"}
    BY <1>0, <1>7 DEF ReceiveFailure, Hold, Answered, CallRecord
  <2>2. /\ key \in {held, minted + 1} /\ key \in Nat \ {0} /\ key \notin declined
        /\ \A s \in sent : s[1] = key => s[2] = parent
    BY CurrentKey, FreshKey DEF Settle
  <2>3. call[c].answer = "PaymentDeclined" => key = minted + 1
    BY DEF Settle, EndsTheAttempt
  <2>4. /\ c \in Keyed /\ call[c].key \in Keys /\ call[c].key \in Nat /\ call[c].key <= minted
        /\ held <= minted
    BY <1>0, <2>1 DEF Keyed, AttemptInv, CallsNameBookings, KeysAreMinted, CallRecord, Keys
  <2> HIDE DEF key
  <2>5. /\ minted' \in Nat /\ minted' <= minted + 1 /\ minted <= minted' /\ held' <= minted'
        /\ minted' + Cardinality(Keyed') <= MaxKeys /\ minted' <= MaxKeys
    BY <1>3, <1>4, <2>1, <2>2, <2>4
  <2>6. held' \in Keys /\ minted' \in 0..MaxKeys
    BY <2>1, <2>2, <2>5 DEF Keys
  <2>7. declined' \in SUBSET Keys
    BY <1>0, <2>1, <2>4 DEF TypeOK
  <2>8. KeysAreMinted'
    <3>1. \A d \in Calls : call'[d].key <= minted'
      <4>1. \A d \in Calls : call'[d].key \in Nat /\ call[d].key \in Nat /\ call[d].key <= minted
        BY <1>0, <1>2 DEF AttemptInv, KeysAreMinted, CallRecord, Keys
      <4>2. QED
        BY <1>2, <1>3, <2>5, <4>1
    <3>2. \A s \in sent' : s[1] <= minted'
      <4>1. \A s \in sent : s[1] \in Nat /\ s[1] <= minted
        BY DEF AttemptInv, KeysAreMinted, TypeOK, Keys
      <4>2. QED
        BY <1>3, <2>1, <2>5, <4>1
    <3>3. \A k \in declined' : k <= minted'
      <4>1. \A k \in declined : k \in Nat /\ k <= minted
        BY DEF AttemptInv, KeysAreMinted, TypeOK, Keys
      <4>2. QED
        BY <1>3, <2>1, <2>4, <2>5, <4>1
    <3>4. QED
      BY <2>5, <3>1, <3>2, <3>3 DEF KeysAreMinted
  <2>9. HeldIsOwn'
    <3>1. key \notin declined'
      BY <1>3, <2>1, <2>2, <2>3, <2>4
    <3>2. QED
      BY <2>1, <2>2, <3>1 DEF HeldIsOwn
  <2>10. KeysAreNotShared' /\ KeysFit' /\ ScreenNamesBooking'
    BY <2>1, <2>5 DEF AttemptInv, KeysAreNotShared, KeysFit, ScreenNamesBooking
  <2>11. store' \in StoreRecord
    BY <1>0, <2>1 DEF Told
  <2> HIDE DEF StoreRecord
  <2>12. TypeOK'
    BY <1>0, <1>2, <2>1, <2>6, <2>7, <2>11 DEF TypeOK, api, CallRecord, StoreRecord
  <2>13. QED
    BY <1>2, <2>8, <2>9, <2>10, <2>12 DEF AttemptInv
<1>8. QED
  BY <1>6, <1>7

LEMMA AttemptStep == AttemptInv /\ [Next]_vars => AttemptInv'
<1> SUFFICES ASSUME AttemptInv, [Next]_vars PROVE AttemptInv'
  OBVIOUS
<1>1. CASE UNCHANGED vars
  <2>1. UNCHANGED <<api, tab>> /\ call' = call
    BY <1>1 DEF vars
  <2>2. TypeOK'
    BY <2>1 DEF AttemptInv, TypeOK, api, tab
  <2>3. QED
    BY <2>1, <2>2 DEF AttemptInv, api, tab, CallsNameBookings, ScreenNamesBooking, KeysFit, Keyed,
                      KeysAreMinted, HeldIsOwn, KeysAreNotShared
<1>2. CASE Next
  BY <1>2, ParentStep, CreateOrPayStep, ApiStep, ReceiveStep DEF Next
<1>3. QED
  BY <1>1, <1>2

LEMMA AttemptInvariance == Spec => []AttemptInv
BY AttemptInit, AttemptStep, PTL DEF Spec

-----------------------------------------------------------------------------
(* Every variable stays in its type: the bound on keys leaves room for     *)
(* every answer that may mint one.                                         *)
THEOREM AttemptTypeCorrect == Spec => []TypeOK
<1>1. AttemptInv => TypeOK
  BY DEF AttemptInv
<1>2. QED
  BY <1>1, AttemptInvariance, PTL

(* No two parents of one tab send the same key, whatever answers arrive    *)
(* after a sign-out.                                                       *)
THEOREM AKeyIsOneParents == Spec => []KeysAreNotShared
<1>1. AttemptInv => KeysAreNotShared
  BY DEF AttemptInv
<1>2. QED
  BY <1>1, AttemptInvariance, PTL

(* A key that was declined is never sent again.                            *)
THEOREM DeclinedIsDone == Spec => DeclinedKeyIsDone
<1> DEFINE Done == \A c \in Calls : call'[c].kind = "pay" /\ call[c].kind = "none" =>
                     call'[c].key \notin declined
<1>1. ASSUME AttemptInv, [Next]_vars PROVE [Done]_vars
  <2> SUFFICES ASSUME NEW c \in Calls, call'[c].kind = "pay", call[c].kind = "none"
               PROVE  call'[c].key \notin declined
    OBVIOUS
  <2>0. call \in [Calls -> CallRecord]
    BY <1>1 DEF AttemptInv, TypeOK, CallRecord
  <2>1. ASSUME NEW d \in Calls, Pay(d) PROVE call'[c].key \notin declined
    <3>1. call'[d].key = Current /\ (c # d => call'[c] = call[c])
      BY <2>0, <2>1 DEF Pay, Send
    <3>2. c = d
      BY <3>1
    <3>3. QED
      BY <1>1, <3>1, <3>2, CurrentKey
  <2>2. ASSUME NEW d \in Calls, NEW kind \in {"create", "load"}, NEW b, NEW key, Send(d, kind, b, key)
        PROVE  call'[c].kind # "pay"
    BY <2>0, <2>2 DEF Send, NoCall
  <2>3. ASSUME NEW d \in Calls, Serve(d) PROVE call'[c].kind # "pay"
    <3>1. PICK answer, shows : Answer(d, answer, shows)
      BY <2>3 DEF Serve, ServeCreate, ServeLoad, ServePay, NotServed, Confirm, Decline
    <3>2. call'[c].kind = call[c].kind
      BY <2>0, <3>1 DEF Answer, CallRecord
    <3>3. QED
      BY <3>2
  <2>4. ASSUME NEW d \in Calls, Receive(d) PROVE call'[c].kind # "pay"
    <3>1. call' = [call EXCEPT ![d] = NoCall]
      BY <2>4 DEF Receive, ReceiveBooking, ReceiveFailure, ReceiveLoadFailure, ReceiveSignedOut
    <3>2. QED
      BY <2>0, <3>1 DEF NoCall
  <2>5. call' # call
    OBVIOUS
  <2>6. ASSUME NEW d \in Calls, (\E b \in Bookings : Create(d, b)) \/ Mount(d) \/ HoldReachedZero(d)
        PROVE  \E kind \in {"create", "load"} : \E b, key : Send(d, kind, b, key)
    BY <2>6 DEF Create, Mount, HoldReachedZero
  <2>7. QED
    BY <1>1, <2>1, <2>2, <2>3, <2>4, <2>5, <2>6 DEF Next, vars, SignIn, SignOut, Visit, End
<1>2. QED
  BY <1>1, AttemptInvariance, PTL DEF Spec, DeclinedKeyIsDone
=============================================================================
