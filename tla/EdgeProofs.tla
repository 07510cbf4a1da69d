----------------------------- MODULE EdgeProofs -----------------------------
(***************************************************************************)
(* What ApiEdge promises, for any rules that meet MixAssumption, any       *)
(* number of requests and any list of injection points.                    *)
(***************************************************************************)
EXTENDS ApiEdge, FiniteSetTheorems, TLAPS

USE RuleAssumption, EdgeAssumption, RegistryAssumption

-----------------------------------------------------------------------------
(* Multiplication of natural numbers, as far as the refill needs it.       *)
LEMMA ProductIsNat == \A a, b \in Nat : a * b \in Nat
OBVIOUS

LEMMA ProductIsMonotone == \A a, b, c \in Nat : a <= b => a * c <= b * c /\ c * a <= c * b
OBVIOUS

LEMMA ProductDistributes == \A a, b, c \in Int : a * c + b * c = (a + b) * c
OBVIOUS

LEMMA QuotientOfAProduct ==
  ASSUME NEW a \in Nat \ {0}, NEW b \in Nat
  PROVE  (a * b) \div a = b
OBVIOUS

(* A quotient rounded up, times the divisor, reaches the dividend.         *)
LEMMA RoundedUpReaches ==
  ASSUME NEW m \in Nat, NEW d \in Nat \ {0}
  PROVE  /\ (m + d - 1) \div d \in Nat
         /\ m <= ((m + d - 1) \div d) * d
OBVIOUS

(* What a tick returns is what the other rule's interval amounts to.       *)
LEMMA Rates ==
  /\ Rate(ReadRule) = WriteInterval
  /\ Rate(WriteRule) = ReadInterval
<1>1. Rate(ReadRule) = WriteInterval
  BY QuotientOfAProduct DEF Rate, Token, ReadRule
<1>2. Rate(WriteRule) = ReadInterval
  <2>1. Token = WriteInterval * ReadInterval
    BY DEF Token
  <2>2. QED
    BY <2>1, QuotientOfAProduct DEF Rate, WriteRule
<1>3. QED
  BY <1>1, <1>2

(* Every rule returns something, none more than the reads' rule, and holds *)
(* at least one token and at most the reads' burst.                        *)
LEMMA RuleBounds ==
  /\ Token \in Nat \ {0}
  /\ \A rule \in Rules :
       /\ Rate(rule) \in Nat \ {0}
       /\ Rate(rule) <= Rate(ReadRule)
       /\ rule.burst * Token \in Nat
       /\ Token <= rule.burst * Token
       /\ rule.burst * Token <= ReadBurst * Token
  /\ ReadBurst * Token \in Nat
<1>1. Token \in Nat \ {0}
  BY DEF Token
<1>2. \A rule \in Rules : /\ Rate(rule) \in Nat \ {0} /\ Rate(rule) <= Rate(ReadRule)
                          /\ rule.burst \in Nat \ {0} /\ rule.burst <= ReadBurst
  BY Rates, MixAssumption DEF Rules, ReadRule, WriteRule
<1> HIDE DEF Rules
<1>3. ASSUME NEW rule \in Rules
      PROVE  /\ rule.burst * Token \in Nat
             /\ Token <= rule.burst * Token
             /\ rule.burst * Token <= ReadBurst * Token
  <2>1. 1 <= rule.burst /\ 1 \in Nat /\ rule.burst \in Nat /\ ReadBurst \in Nat
    BY <1>2, <1>3
  <2>2. 1 * Token <= rule.burst * Token /\ rule.burst * Token <= ReadBurst * Token
    BY <1>1, <1>2, <2>1, ProductIsMonotone
  <2>3. rule.burst * Token \in Nat
    BY <1>1, <2>1, ProductIsNat
  <2>4. QED
    BY <1>1, <2>2, <2>3
<1>4. QED
  BY <1>1, <1>2, <1>3, ProductIsNat

(* Whatever rule a hash was used with last, a full burst of reads returns  *)
(* in the time it is kept.                                                 *)
LEMMA KeptForARefill ==
  \A rule \in Rules :
    Lifetime(rule) \in Nat /\ ReadBurst * Token <= Lifetime(rule) * Rate(ReadRule)
<1>1. ReadBurst * Token = FullRefill(ReadRule) * WriteInterval
  BY DEF Token, FullRefill, ReadRule
<1>2. FullRefill(ReadRule) \in Nat
  BY DEF FullRefill, ReadRule
<1>3. \A rule \in Rules : Lifetime(rule) \in Nat /\ FullRefill(ReadRule) <= Lifetime(rule)
  <2>1. Lifetime(ReadRule) \in Nat /\ FullRefill(ReadRule) <= Lifetime(ReadRule)
    BY <1>2 DEF Lifetime, ReadRule
  <2>2. Lifetime(WriteRule) \in Nat
    BY DEF Lifetime, FullRefill, WriteRule
  <2>3. QED
    BY <2>1, <2>2, MixAssumption DEF Rules
<1>4. QED
  BY <1>1, <1>2, <1>3, Rates, ProductIsMonotone

-----------------------------------------------------------------------------
Bucket == [tokens : Nat, at : Int, until : Nat]

(* What is held is between nothing and the burst.                          *)
LEMMA HeldIsBounded ==
  ASSUME NEW rule \in Rules, NEW state \in Bucket, NEW now \in Nat
  PROVE  Held(rule, state, now) \in Nat /\ Held(rule, state, now) <= rule.burst * Token
<1> DEFINE passed == Most(now - state.at, 0)
<1>1. CASE state.at < 0
  BY <1>1, RuleBounds DEF Held
<1>2. CASE ~(state.at < 0)
  <2>1. passed \in Nat /\ Rate(rule) \in Nat
    BY RuleBounds DEF Most, Bucket
  <2>2. passed * Rate(rule) \in Nat
    BY <2>1, ProductIsNat
  <2>3. QED
    BY <1>2, <2>2, RuleBounds DEF Held, Least, Bucket
<1>3. QED
  BY <1>1, <1>2

(* A bucket that is remembered has gained since, up to the burst.          *)
LEMMA HeldLater ==
  ASSUME NEW rule, NEW state, NEW now, ~(state.at < 0)
  PROVE  Held(rule, state, now)
           = Least(state.tokens + Most(now - state.at, 0) * Rate(rule), rule.burst * Token)
BY DEF Held

(* An access of a bucket that is remembered gains what the reads' rule     *)
(* returns in the time passed, at most.                                    *)
LEMMA GainIsBounded ==
  ASSUME NEW rule \in Rules, NEW state \in Bucket, state.at >= 0, NEW now \in Nat
  PROVE  Held(rule, state, now) <= state.tokens + Most(now - state.at, 0) * Rate(ReadRule)
<1> DEFINE passed == Most(now - state.at, 0)
<1>1. passed \in Nat /\ Rate(rule) \in Nat /\ Rate(ReadRule) \in Nat
      /\ Rate(rule) <= Rate(ReadRule)
  BY RuleBounds DEF Most, Bucket, Rules
<1>2. passed * Rate(rule) <= passed * Rate(ReadRule)
      /\ passed * Rate(rule) \in Nat /\ passed * Rate(ReadRule) \in Nat
  BY <1>1, ProductIsMonotone, ProductIsNat
<1>3. QED
  BY <1>2, RuleBounds DEF Held, Least, Bucket

(* A state without a token has one after the wait that is told for it.     *)
LEMMA WaitReaches ==
  ASSUME NEW rule \in Rules, NEW state \in Bucket, NEW now \in Nat, NEW today,
         ~Allowed(rule, state, now)
  PROVE  Allowed(rule, Take(rule, state, now, today), now + RetryAfter(rule, state, now))
<1> DEFINE held == Held(rule, state, now)
           missing == Token - held
           rounded == (missing + Rate(rule) - 1) \div Rate(rule)
<1>1. /\ Token \in Nat \ {0} /\ Rate(rule) \in Nat \ {0}
      /\ rule.burst * Token \in Nat /\ Token <= rule.burst * Token
  BY RuleBounds
<1>2. held \in Nat /\ missing \in Nat
  <2>1. held \in Nat
    BY HeldIsBounded
  <2>2. QED
    BY <1>1, <2>1 DEF Allowed
<1>3. RetryAfter(rule, state, now) = Most(rounded, 1)
  BY DEF RetryAfter, WaitFor
<1>4. /\ Take(rule, state, now, today).tokens = held
      /\ Take(rule, state, now, today).at = now
  BY <1>2 DEF Take
<1>5. rounded \in Nat /\ missing <= rounded * Rate(rule)
  <2> HIDE DEF missing
  <2>1. QED
    BY <1>1, <1>2, RoundedUpReaches
<1> HIDE DEF held, rounded
<1>6. ASSUME NEW wait \in Nat, rounded <= wait, NEW left, left.tokens = held, left.at = now
      PROVE  Allowed(rule, left, now + wait)
  <2>1. /\ rounded * Rate(rule) <= wait * Rate(rule)
        /\ rounded * Rate(rule) \in Nat /\ wait * Rate(rule) \in Nat
    BY <1>1, <1>5, <1>6, ProductIsMonotone, ProductIsNat
  <2>2. Held(rule, left, now + wait) = Least(held + wait * Rate(rule), rule.burst * Token)
    <3>1. Most(now + wait - left.at, 0) = wait
      BY <1>6 DEF Most
    <3>2. QED
      BY <1>6, <3>1, HeldLater
  <2>3. QED
    BY <1>1, <1>2, <1>5, <2>1, <2>2 DEF Allowed, Least
<1>7. Most(rounded, 1) \in Nat /\ rounded <= Most(rounded, 1)
  BY <1>5 DEF Most
<1>8. QED
  BY <1>3, <1>4, <1>6, <1>7

-----------------------------------------------------------------------------
(* An injection point fires no more often than it was armed for: every     *)
(* failure is taken from what is left, and arming starts both anew.        *)
LEMMA RegistryStep ==
  ASSUME RegistryTypeOK(0..(MaxTime + MaxLifetime)), FiresAsArmed, clock \in Time,
         [Next]_vars
  PROVE  RegistryTypeOK(0..(MaxTime + MaxLifetime))' /\ FiresAsArmed'
<1> DEFINE Times == 0..(MaxTime + MaxLifetime)
<1> USE DEF RegistryTypeOK
<1>1. CASE UNCHANGED registryVars
  BY <1>1 DEF registryVars, FiresAsArmed
<1>2. ASSUME NEW point \in Points, NEW count \in 1..MaxCount, NEW lifetime \in 0..MaxLifetime,
             armed' = [armed EXCEPT ![point] = ArmedAnew(point, count, lifetime, clock)],
             fired' = [fired EXCEPT ![point] = 0]
      PROVE  RegistryTypeOK(Times)' /\ FiresAsArmed'
  <2>1. clock + lifetime \in Times /\ count \in 0..MaxCount
    BY <1>2 DEF Time
  <2>2. ArmedAnew(point, count, lifetime, clock)
          \in [remaining : 0..MaxCount, expires : Times, count : 0..MaxCount]
    BY <2>1 DEF ArmedAnew
  <2>3. RegistryTypeOK(Times)'
    BY <1>2, <2>2
  <2>4. FiresAsArmed'
    BY <1>2, <2>1 DEF FiresAsArmed, ArmedAnew
  <2>5. QED
    BY <2>3, <2>4
<1>3. \A point \in Points :
        /\ Off(point) \in [remaining : 0..MaxCount, expires : Times, count : 0..MaxCount]
        /\ Off(point).remaining = 0 /\ Off(point).count = armed[point].count
  <2>1. 0 \in 0..MaxCount /\ 0 \in Times
    OBVIOUS
  <2>2. QED
    BY <2>1 DEF Off
<1>4. ASSUME NEW point \in Points, Trigger(point, clock)
      PROVE  RegistryTypeOK(Times)' /\ FiresAsArmed'
  <2>1. CASE ~IsLive(point, clock)
    BY <1>3, <1>4, <2>1 DEF Trigger, FiresAsArmed
  <2>2. CASE IsLive(point, clock)
    <3>1. /\ Spend(point) \in [remaining : 0..MaxCount, expires : Times, count : 0..MaxCount]
          /\ Spend(point).remaining = armed[point].remaining - 1
          /\ Spend(point).count = armed[point].count
      <4>1. CASE armed[point].remaining > 1
        BY <4>1 DEF Spend
      <4>2. CASE ~(armed[point].remaining > 1)
        BY <1>3, <2>2, <4>2 DEF Spend, IsLive, IsArmed
      <4>3. QED
        BY <4>1, <4>2
    <3>2. QED
      BY <1>4, <2>2, <3>1 DEF Trigger, FiresAsArmed
  <2>3. QED
    BY <2>1, <2>2
<1>5. ASSUME List(clock) \/ Disarm PROVE RegistryTypeOK(Times)' /\ FiresAsArmed'
  BY <1>3, <1>5 DEF List, Disarm, FiresAsArmed
<1>6. Arm(clock) => \E point \in Points, count \in 1..MaxCount, lifetime \in 0..MaxLifetime :
        /\ armed' = [armed EXCEPT ![point] = ArmedAnew(point, count, lifetime, clock)]
        /\ fired' = [fired EXCEPT ![point] = 0]
  BY DEF Arm
<1>7. \/ UNCHANGED registryVars \/ Arm(clock) \/ List(clock) \/ Disarm
      \/ \E point \in Points : Trigger(point, clock)
  <2>1. ASSUME NEW r \in Requests, Handle(r)
        PROVE  \/ UNCHANGED registryVars \/ Arm(clock) \/ List(clock) \/ Disarm
               \/ \E point \in Points : Trigger(point, clock)
    BY <2>1 DEF Handle, ServeRead, ServeWrite, ServeFault, ListFaults, RefuseArm
  <2>2. QED
    BY <2>1 DEF Next, vars, Arrive, Allow, LimiterUnreachable, Tick
<1>8. QED
  BY <1>1, <1>2, <1>4, <1>5, <1>6, <1>7

-----------------------------------------------------------------------------
(* No request carries an instant of the future.                            *)
InstantsArePast == \A r \in Requests : request[r].now <= clock

(* What bucket k allowed and still holds is paid for by its burst and the  *)
(* time up to its last instant.  A bucket that is forgotten holds a full   *)
(* burst again, and the time since its last instant has paid for that.     *)
BucketPays(k) ==
  IF bucket[k].at < 0
    THEN spent[k] * Token <= (clock + back[k]) * Rate(ReadRule)
    ELSE /\ spent[k] * Token + bucket[k].tokens
              <= ReadBurst * Token + (bucket[k].at + back[k]) * Rate(ReadRule)
         /\ bucket[k].at <= clock
         /\ ReadBurst * Token <= (bucket[k].until - bucket[k].at) * Rate(ReadRule)

(* Writes that have taken their token and are not through.                 *)
WritesAhead == {r \in Requests : request[r].at \in {"address", "handler"} /\ request[r].route = "write"}

(* A question is asked by one of them, and there it ends.                  *)
PaidAhead == asked + Cardinality(WritesAhead) <= spent[Subject]

EdgeInv ==
  /\ TypeOK
  /\ FiresAsArmed
  /\ InstantsArePast
  /\ \A k \in Keys : BucketPays(k)
  /\ PaidAhead

LEMMA BucketsAreBuckets ==
  ASSUME TypeOK, NEW k \in Keys
  PROVE  /\ bucket[k] \in Bucket /\ bucket[k].at \in Time \cup {-1}
         /\ bucket[k].tokens \in Nat /\ bucket[k].at \in Int /\ bucket[k].until \in Nat
<1>1. Most(ReadBurst, WriteBurst) = ReadBurst
  BY MixAssumption DEF Most
<1>2. bucket[k] \in [tokens : 0..(ReadBurst * Token), at : Time \cup {-1}, until : Nat]
  BY <1>1 DEF TypeOK
<1>3. QED
  BY <1>2, RuleBounds DEF Bucket, Time

(* At the start every bucket holds a full burst and nobody was served.     *)
LEMMA EdgeInit == Init => EdgeInv
<1> SUFFICES ASSUME Init PROVE EdgeInv
  OBVIOUS
<1> USE DEF Init
<1>1. RegistryTypeOK(0..(MaxTime + MaxLifetime)) /\ FiresAsArmed
  <2>1. Disarmed \in [remaining : 0..MaxCount, expires : 0..(MaxTime + MaxLifetime), count : 0..MaxCount]
    <3>1. 0 \in 0..MaxCount /\ 0 \in 0..(MaxTime + MaxLifetime)
      OBVIOUS
    <3>2. QED
      BY <3>1 DEF Disarmed
  <2>2. QED
    BY <2>1 DEF RegistryTypeOK, RegistryInit, FiresAsArmed, Disarmed
<1>2. TypeOK
  <2>1. 0 \in Time /\ 0 \in 0..(ReadBurst * Token) /\ Most(ReadBurst, WriteBurst) = ReadBurst
    BY RuleBounds, MixAssumption DEF Time, Most
  <2>2. QED
    BY <1>1, <2>1 DEF TypeOK, Unseen, Idle, Routes
<1>3. InstantsArePast
  BY DEF InstantsArePast, Idle
<1>4. ASSUME NEW k \in Keys PROVE BucketPays(k)
  BY RuleBounds DEF BucketPays, Unseen, Rules
<1>5. PaidAhead
  <2>1. WritesAhead = {}
    BY DEF WritesAhead, Idle
  <2>2. QED
    BY <2>1, FS_EmptySet DEF PaidAhead, Keys
<1>6. QED
  BY <1>1, <1>2, <1>3, <1>4, <1>5 DEF EdgeInv

(* One request of the limiter, at an instant that is read already.         *)
LEMMA TakePays ==
  ASSUME TypeOK, NEW k \in Keys, BucketPays(k), NEW rule \in Rules, NEW now \in 0..clock,
         UNCHANGED clock, bucket'[k] = Take(rule, bucket[k], now, clock),
         spent'[k] = IF Allowed(rule, bucket[k], now) THEN spent[k] + 1 ELSE spent[k],
         back'[k] = back[k] + StepBack(k, now)
  PROVE  BucketPays(k)'
<1> DEFINE held == Held(rule, bucket[k], now)
           gain == Most(now - bucket[k].at, 0)
           RR == Rate(ReadRule)
<1>1. /\ spent[k] \in Nat /\ back[k] \in Nat /\ clock \in Nat /\ now \in Nat /\ now <= clock
      /\ Token \in Nat \ {0} /\ RR \in Nat /\ ReadBurst * Token \in Nat
  BY RuleBounds DEF TypeOK, Time, Rules
<1>2. /\ bucket[k] \in Bucket /\ bucket[k].at \in Int /\ bucket[k].tokens \in Nat
  BY BucketsAreBuckets
<1>3. held \in Nat /\ held <= ReadBurst * Token
  BY <1>1, <1>2, HeldIsBounded, RuleBounds
<1>4. /\ bucket'[k].at = now /\ bucket'[k].until = clock + Lifetime(rule)
      /\ bucket'[k].tokens = held - (IF Allowed(rule, bucket[k], now) THEN Token ELSE 0)
  BY DEF Take
<1>5. spent'[k] * Token + bucket'[k].tokens = spent[k] * Token + held
  <2>1. (spent[k] + 1) * Token = spent[k] * Token + Token
    BY <1>1
  <2>2. spent[k] * Token \in Nat
    BY <1>1, ProductIsNat
  <2>3. QED
    BY <1>1, <1>3, <1>4, <2>1, <2>2
<1>6. ReadBurst * Token <= (bucket'[k].until - bucket'[k].at) * RR
  <2>1. Lifetime(rule) \in Nat /\ ReadBurst * Token <= Lifetime(rule) * RR
    BY KeptForARefill
  <2>2. /\ clock + Lifetime(rule) - now \in Nat
        /\ Lifetime(rule) <= clock + Lifetime(rule) - now
    BY <1>1, <2>1
  <2>3. Lifetime(rule) * RR <= (clock + Lifetime(rule) - now) * RR
    BY <1>1, <2>1, <2>2, ProductIsMonotone
  <2>4. Lifetime(rule) * RR \in Nat /\ (clock + Lifetime(rule) - now) * RR \in Nat
    BY <1>1, <2>1, <2>2, ProductIsNat
  <2>5. QED
    BY <1>1, <1>4, <2>1, <2>3, <2>4
<1>7. spent[k] * Token + held <= ReadBurst * Token + (now + back'[k]) * RR
  <2>0. spent[k] * Token \in Nat
    BY <1>1, ProductIsNat
  <2>1. CASE bucket[k].at < 0
    <3>1. now + back'[k] = clock + back[k]
      BY <1>1, <2>1 DEF StepBack
    <3>2. spent[k] * Token <= (clock + back[k]) * RR
      BY <2>1 DEF BucketPays
    <3>3. (clock + back[k]) * RR \in Nat
      BY <1>1, ProductIsNat
    <3>4. QED
      BY <1>1, <1>3, <2>0, <3>1, <3>2, <3>3
  <2>2. CASE ~(bucket[k].at < 0)
    <3>1. now + back'[k] = bucket[k].at + back[k] + gain
      BY <1>1, <1>2, <2>2 DEF StepBack, Most
    <3>2. spent[k] * Token + bucket[k].tokens <= ReadBurst * Token + (bucket[k].at + back[k]) * RR
      BY <2>2 DEF BucketPays
    <3>3. held <= bucket[k].tokens + gain * RR
      BY <1>1, <1>2, <2>2, GainIsBounded
    <3>4. gain \in Nat /\ bucket[k].at \in Nat
      BY <1>1, <1>2, <2>2 DEF Most
    <3> HIDE DEF gain, RR, held
    <3>5. (bucket[k].at + back[k] + gain) * RR = (bucket[k].at + back[k]) * RR + gain * RR
      BY <1>1, <3>4
    <3>6. (bucket[k].at + back[k]) * RR \in Nat /\ gain * RR \in Nat
      BY <1>1, <3>4, ProductIsNat
    <3>7. QED
      BY <1>1, <1>2, <1>3, <2>0, <3>1, <3>2, <3>3, <3>5, <3>6
  <2>3. QED
    BY <2>1, <2>2
<1>8. clock' = clock /\ ~(bucket'[k].at < 0) /\ bucket'[k].at <= clock
  BY <1>1, <1>4
<1>9. QED
  BY <1>4, <1>5, <1>6, <1>7, <1>8 DEF BucketPays

(* A bucket nobody touched still pays; one that is forgotten has had the   *)
(* time for a full burst.                                                  *)
LEMMA TickPays ==
  ASSUME TypeOK, NEW k \in Keys, BucketPays(k), Tick
  PROVE  BucketPays(k)'
<1> DEFINE RR == Rate(ReadRule)
<1>1. /\ spent[k] * Token \in Nat /\ spent[k] \in Nat /\ back[k] \in Nat /\ clock \in Nat
      /\ RR \in Nat /\ ReadBurst * Token \in Nat
  BY RuleBounds, ProductIsNat DEF TypeOK, Time, Rules
<1>2. bucket[k].at \in Int /\ bucket[k].until \in Nat /\ bucket[k].tokens \in Nat
  BY BucketsAreBuckets
<1>3. clock' = clock + 1 /\ spent' = spent /\ back' = back
      /\ bucket'[k] = IF clock' < bucket[k].until THEN bucket[k] ELSE Unseen
  BY DEF Tick
<1> HIDE DEF RR
<1>4. (clock + back[k]) * RR <= (clock + 1 + back[k]) * RR
  BY <1>1, ProductIsMonotone
<1>5. (clock + back[k]) * RR \in Nat /\ (clock + 1 + back[k]) * RR \in Nat
  BY <1>1, ProductIsNat
<1>6. CASE bucket[k].at < 0
  <2>1. spent[k] * Token <= (clock + back[k]) * RR
    BY <1>6 DEF BucketPays, RR
  <2>2. bucket'[k].at < 0
    BY <1>3, <1>6 DEF Unseen
  <2>3. QED
    BY <1>1, <1>3, <1>4, <1>5, <2>1, <2>2 DEF BucketPays, RR
<1>7. CASE ~(bucket[k].at < 0) /\ clock' < bucket[k].until
  <2>1. bucket'[k] = bucket[k]
    BY <1>3, <1>7
  <2>2. QED
    BY <1>1, <1>2, <1>3, <1>7, <2>1 DEF BucketPays
<1>8. CASE ~(bucket[k].at < 0) /\ ~(clock' < bucket[k].until)
  <2>1. bucket'[k].at < 0
    BY <1>3, <1>8 DEF Unseen
  <2>2. /\ spent[k] * Token + bucket[k].tokens <= ReadBurst * Token + (bucket[k].at + back[k]) * RR
        /\ bucket[k].at <= clock
        /\ ReadBurst * Token <= (bucket[k].until - bucket[k].at) * RR
    BY <1>8 DEF BucketPays, RR
  <2>3. /\ clock + 1 - bucket[k].at \in Nat /\ bucket[k].at + back[k] \in Nat
        /\ bucket[k].until <= clock + 1
    BY <1>1, <1>2, <1>3, <1>8, <2>2
  <2>4. (bucket[k].until - bucket[k].at) * RR <= (clock + 1 - bucket[k].at) * RR
    BY <1>1, <1>2, <2>3
  <2>5. (bucket[k].at + back[k]) * RR + (clock + 1 - bucket[k].at) * RR = (clock + 1 + back[k]) * RR
    <3>1. (bucket[k].at + back[k]) + (clock + 1 - bucket[k].at) = clock + 1 + back[k]
      BY <1>1, <1>2
    <3>2. bucket[k].at + back[k] \in Int /\ clock + 1 - bucket[k].at \in Int /\ RR \in Int
      BY <1>1, <1>2
    <3>3. QED
      BY <3>1, <3>2, ProductDistributes
  <2>6. /\ (bucket[k].at + back[k]) * RR \in Nat /\ (clock + 1 - bucket[k].at) * RR \in Nat
        /\ (bucket[k].until - bucket[k].at) * RR \in Int
    BY <1>1, <1>2, <2>3, ProductIsNat
  <2>7. spent[k] * Token <= (clock + 1 + back[k]) * RR
    BY <1>1, <1>2, <1>5, <2>2, <2>4, <2>5, <2>6
  <2>8. QED
    BY <1>3, <2>1, <2>7 DEF BucketPays, RR
<1>9. QED
  BY <1>6, <1>7, <1>8

LEMMA AllowPays ==
  ASSUME TypeOK, InstantsArePast, \A k \in Keys : BucketPays(k), NEW r \in Requests, Allow(r)
  PROVE  \A k \in Keys : BucketPays(k)'
<1>1. SUFFICES ASSUME NEW k \in Keys PROVE BucketPays(k)'
  OBVIOUS
<1>2. CASE k # KeyOf(r)
  <2>1. bucket'[k] = bucket[k] /\ spent'[k] = spent[k] /\ back'[k] = back[k] /\ clock' = clock
    BY <1>2 DEF Allow, Remember, TypeOK
  <2>2. QED
    BY <2>1 DEF BucketPays
<1>3. CASE k = KeyOf(r)
  <2>1. RuleOf(request[r].route) \in Rules /\ request[r].now \in 0..clock
    BY DEF RuleOf, Rules, InstantsArePast, TypeOK, Time
  <2>2. /\ clock' = clock
        /\ bucket'[k] = Take(RuleOf(request[r].route), bucket[k], request[r].now, clock)
        /\ spent'[k] = IF Allowed(RuleOf(request[r].route), bucket[k], request[r].now)
                       THEN spent[k] + 1 ELSE spent[k]
        /\ back'[k] = back[k] + StepBack(k, request[r].now)
    BY <1>3 DEF Allow, Remember, TypeOK
  <2>3. QED
    BY <2>1, <2>2, TakePays
<1>4. QED
  BY <1>2, <1>3

(* Every variable keeps its type; what a request asks of the limiter       *)
(* leaves between nothing and a burst behind.                              *)
LEMMA EdgeStepTypeOK ==
  ASSUME TypeOK, FiresAsArmed, InstantsArePast, [Next]_vars
  PROVE  TypeOK' /\ InstantsArePast'
<1>0. RegistryTypeOK(0..(MaxTime + MaxLifetime))'
  BY RegistryStep DEF TypeOK
<1>a. Most(ReadBurst, WriteBurst) = ReadBurst
  BY MixAssumption DEF Most
<1> DEFINE Where == [at : {"idle", "subject", "address", "handler"}, route : Routes, now : Time]
<1>b. ASSUME NEW r \in Requests,
             \/ request' = request \/ request' = Onward(r) \/ request' = [request EXCEPT ![r] = Idle],
             clock' = clock
      PROVE  request' \in [Requests -> Where] /\ InstantsArePast'
  <2>1. request \in [Requests -> Where] /\ clock \in Nat /\ 0 <= clock
    BY DEF TypeOK, Time
  <2>2. Idle \in Where /\ Idle.now = 0
    <3>1. 0 \in Time
      BY DEF Time
    <3>2. QED
      BY <3>1 DEF Idle, Routes
  <2>3. CASE request' = Onward(r)
    <3>1. PICK at \in {"address", "handler"} : request' = [request EXCEPT ![r].at = at]
      BY <2>3 DEF Onward
    <3>2. QED
      BY <1>b, <2>1, <3>1 DEF InstantsArePast
  <2>4. CASE request' = [request EXCEPT ![r] = Idle]
    BY <1>b, <2>1, <2>2, <2>4 DEF InstantsArePast
  <2>5. QED
    BY <1>b, <2>1, <2>3, <2>4 DEF InstantsArePast
<1> USE DEF TypeOK, InstantsArePast
<1>1. ASSUME NEW r \in Requests, Arrive(r) PROVE TypeOK' /\ InstantsArePast'
  BY <1>0, <1>1 DEF Arrive, limiterVars, Time, Routes
<1>2. ASSUME NEW r \in Requests, Allow(r) PROVE TypeOK' /\ InstantsArePast'
  <2> DEFINE k == KeyOf(r)
             rule == RuleOf(request[r].route)
             now == request[r].now
             taken == Take(rule, bucket[k], now, clock)
  <2>1. k \in Keys /\ rule \in Rules /\ now \in Nat /\ now \in Time /\ now <= clock /\ clock \in Nat
    BY DEF KeyOf, Keys, RuleOf, Rules, Time
  <2> HIDE DEF k, rule, now, TypeOK, InstantsArePast
  <2>2. taken \in [tokens : 0..(ReadBurst * Token), at : Time \cup {-1}, until : Nat]
    <3>1. bucket[k] \in Bucket
      BY <2>1, BucketsAreBuckets
    <3>2. Held(rule, bucket[k], now) \in Nat /\ Held(rule, bucket[k], now) <= ReadBurst * Token
      BY <2>1, <3>1, HeldIsBounded, RuleBounds
    <3>3. Held(rule, bucket[k], now) - (IF Allowed(rule, bucket[k], now) THEN Token ELSE 0)
            \in 0..(ReadBurst * Token)
      BY <3>2, RuleBounds DEF Allowed
    <3>4. clock + Lifetime(rule) \in Nat
      BY <2>1, KeptForARefill
    <3>5. QED
      BY <2>1, <3>3, <3>4 DEF Take
  <2>3. StepBack(k, now) \in Nat
    <3>1. bucket[k].at \in Int
      BY <2>1, BucketsAreBuckets
    <3>2. QED
      BY <2>1, <3>1 DEF StepBack, Most
  <2> USE DEF TypeOK
  <2>4. /\ bucket' = [bucket EXCEPT ![k] = taken]
        /\ back' = [back EXCEPT ![k] = @ + StepBack(k, now)]
        /\ spent' = [spent EXCEPT ![k] = IF Allowed(rule, bucket[k], now) THEN @ + 1 ELSE @]
        /\ request' = IF Allowed(rule, bucket[k], now) THEN Onward(r)
                      ELSE [request EXCEPT ![r] = Idle]
        /\ clock' = clock /\ asked' = asked
    BY <1>2 DEF Allow, Remember, k, rule, now
  <2> HIDE DEF taken
  <2>5. /\ bucket' \in [Keys -> [tokens : 0..(ReadBurst * Token), at : Time \cup {-1}, until : Nat]]
        /\ back' \in [Keys -> Nat] /\ spent' \in [Keys -> Nat]
    <3>1. /\ bucket \in [Keys -> [tokens : 0..(ReadBurst * Token), at : Time \cup {-1}, until : Nat]]
          /\ back \in [Keys -> Nat] /\ spent \in [Keys -> Nat]
      BY <1>a
    <3>2. bucket' \in [Keys -> [tokens : 0..(ReadBurst * Token), at : Time \cup {-1}, until : Nat]]
      BY <2>1, <2>2, <2>4, <3>1
    <3>3. back' \in [Keys -> Nat]
      BY <2>1, <2>3, <2>4, <3>1
    <3>4. spent' \in [Keys -> Nat]
      BY <2>1, <2>4, <3>1
    <3>5. QED
      BY <3>2, <3>3, <3>4
  <2>6. request' \in [Requests -> Where] /\ InstantsArePast'
    BY <1>b, <2>4
  <2>7. QED
    BY <1>0, <1>a, <2>4, <2>5, <2>6
<1>3. ASSUME NEW r \in Requests, LimiterUnreachable(r) PROVE TypeOK' /\ InstantsArePast'
  <2>1. request' \in [Requests -> Where] /\ InstantsArePast'
    BY <1>b, <1>3 DEF LimiterUnreachable
  <2>2. QED
    BY <1>0, <1>3, <2>1 DEF LimiterUnreachable, limiterVars
<1>4. ASSUME NEW r \in Requests, Handle(r) PROVE TypeOK' /\ InstantsArePast'
  <2>1. asked' \in Nat
    BY <1>4 DEF Handle, ServeRead, ServeWrite, ServeFault, ListFaults
  <2>2. request' \in [Requests -> Where] /\ InstantsArePast'
    BY <1>b, <1>4 DEF Handle
  <2>3. QED
    BY <1>0, <1>4, <2>1, <2>2 DEF Handle, limiterVars
<1>5. CASE Tick
  <2>1. Unseen \in [tokens : 0..(ReadBurst * Token), at : Time \cup {-1}, until : Nat]
    BY RuleBounds DEF Unseen
  <2>2. bucket' \in [Keys -> [tokens : 0..(ReadBurst * Token), at : Time \cup {-1}, until : Nat]]
    BY <1>5, <1>a, <2>1 DEF Tick
  <2>3. QED
    BY <1>0, <1>5, <1>a, <2>2 DEF Tick, Time
<1>6. CASE UNCHANGED vars
  BY <1>0, <1>6 DEF vars, limiterVars
<1>7. QED
  BY <1>1, <1>2, <1>3, <1>4, <1>5, <1>6 DEF Next

-----------------------------------------------------------------------------
(* A question takes a write out of those that have paid, a token spent for *)
(* a write puts one in, and nothing else adds any.                         *)
LEMMA PaidAheadStep ==
  ASSUME TypeOK, PaidAhead, [Next]_vars
  PROVE  PaidAhead'
<1>1. /\ \A W \in SUBSET Requests : IsFiniteSet(W) /\ Cardinality(W) \in Nat
      /\ WritesAhead \in SUBSET Requests /\ WritesAhead' \in SUBSET Requests
  BY FS_Subset, FS_CardinalityType DEF WritesAhead
<1>2. asked \in Nat /\ spent[Subject] \in Nat /\ Subject \in Keys /\ Address \in Keys
  BY DEF TypeOK, Keys
<1>3. ASSUME WritesAhead' \subseteq WritesAhead, asked' = asked, spent'[Subject] \in Nat,
             spent[Subject] <= spent'[Subject]
      PROVE  PaidAhead'
  <2>1. Cardinality(WritesAhead') <= Cardinality(WritesAhead)
    BY <1>1, <1>3, FS_Subset
  <2>2. QED
    BY <1>1, <1>2, <1>3, <2>1 DEF PaidAhead
<1>4. ASSUME NEW r \in Requests, Arrive(r) PROVE PaidAhead'
  <2>1. WritesAhead' \subseteq WritesAhead
    BY <1>4 DEF Arrive, WritesAhead, TypeOK
  <2>2. QED
    BY <1>2, <1>3, <1>4, <2>1 DEF Arrive, limiterVars
<1>5. ASSUME NEW r \in Requests, Allow(r) PROVE PaidAhead'
  <2> DEFINE k == KeyOf(r)
             allowed == Allowed(RuleOf(request[r].route), bucket[k], request[r].now)
  <2>1. /\ spent' = [spent EXCEPT ![k] = IF allowed THEN @ + 1 ELSE @]
        /\ request' = IF allowed THEN Onward(r) ELSE [request EXCEPT ![r] = Idle]
        /\ asked' = asked /\ request[r].at \in {"subject", "address"}
    BY <1>5 DEF Allow, Remember
  <2>2. k \in Keys
    BY <1>2 DEF KeyOf
  <2> HIDE DEF allowed
  <2>3. spent'[Subject] \in Nat /\ spent[Subject] <= spent'[Subject]
    BY <1>2, <2>1, <2>2 DEF TypeOK
  <2>4. CASE allowed /\ request[r].at = "subject" /\ request[r].route = "write"
    <3>1. spent'[Subject] = spent[Subject] + 1
      BY <1>2, <2>1, <2>4 DEF TypeOK, KeyOf
    <3>2. WritesAhead' = WritesAhead \cup {r}
      BY <2>1, <2>4 DEF WritesAhead, Onward, TypeOK
    <3>3. Cardinality(WritesAhead') <= Cardinality(WritesAhead) + 1
      BY <1>1, <3>2, FS_AddElement
    <3>4. QED
      BY <1>1, <1>2, <2>1, <3>1, <3>3 DEF PaidAhead
  <2>5. CASE ~(allowed /\ request[r].at = "subject" /\ request[r].route = "write")
    <3>1. WritesAhead' \subseteq WritesAhead
      BY <2>1, <2>5 DEF WritesAhead, Onward, Idle, TypeOK
    <3>2. QED
      BY <1>3, <2>1, <2>3, <3>1
  <2>6. QED
    BY <2>4, <2>5
<1>6. ASSUME NEW r \in Requests, LimiterUnreachable(r) PROVE PaidAhead'
  <2>1. WritesAhead' \subseteq WritesAhead
    BY <1>6 DEF LimiterUnreachable, WritesAhead, Onward, Idle, MethodOf, isSafeMethod, TypeOK
  <2>2. QED
    BY <1>2, <1>3, <1>6, <2>1 DEF LimiterUnreachable, limiterVars
<1>7. ASSUME NEW r \in Requests, Handle(r) PROVE PaidAhead'
  <2>1. WritesAhead' = WritesAhead \ {r} /\ spent' = spent
    BY <1>7 DEF Handle, WritesAhead, Idle, TypeOK, limiterVars
  <2>2. CASE request[r].route = "write"
    <3>1. r \in WritesAhead
      BY <1>7, <2>2 DEF Handle, WritesAhead
    <3>2. Cardinality(WritesAhead') = Cardinality(WritesAhead) - 1
      BY <1>1, <2>1, <3>1, FS_RemoveElement
    <3>3. asked' \in {asked, asked + 1}
      BY <1>7, <2>2 DEF Handle, ServeWrite
    <3>4. QED
      BY <1>1, <1>2, <2>1, <3>2, <3>3 DEF PaidAhead
  <2>3. CASE request[r].route # "write"
    <3>1. asked' = asked
      BY <1>7, <2>3 DEF Handle, ServeRead, ServeFault, ListFaults
    <3>2. QED
      BY <1>2, <1>3, <2>1, <3>1
  <2>4. QED
    BY <2>2, <2>3
<1>8. CASE Tick \/ UNCHANGED vars
  <2>1. request' = request /\ spent' = spent /\ asked' = asked
    BY <1>8 DEF Tick, vars, limiterVars
  <2>2. WritesAhead' = WritesAhead
    BY <2>1 DEF WritesAhead
  <2>3. QED
    BY <1>2, <1>3, <2>1, <2>2
<1>9. QED
  BY <1>4, <1>5, <1>6, <1>7, <1>8 DEF Next

LEMMA EdgeStep == EdgeInv /\ [Next]_vars => EdgeInv'
<1> SUFFICES ASSUME EdgeInv, [Next]_vars PROVE EdgeInv'
  OBVIOUS
<1> USE DEF EdgeInv
<1>1. TypeOK' /\ InstantsArePast'
  BY EdgeStepTypeOK
<1>2. FiresAsArmed'
  BY RegistryStep DEF TypeOK
<1>3. PaidAhead'
  BY PaidAheadStep
<1>4. ASSUME NEW k \in Keys PROVE BucketPays(k)'
  <2>1. CASE Tick
    BY <2>1, TickPays
  <2>2. ASSUME NEW r \in Requests, Allow(r) PROVE BucketPays(k)'
    BY <2>2, AllowPays
  <2>3. CASE UNCHANGED <<clock, limiterVars>>
    BY <2>3 DEF limiterVars, BucketPays
  <2>4. QED
    BY <2>1, <2>2, <2>3 DEF Next, vars, Arrive, LimiterUnreachable, Handle
<1>5. QED
  BY <1>1, <1>2, <1>3, <1>4

LEMMA EdgeInvariance == Spec => []EdgeInv
BY EdgeInit, EdgeStep, PTL DEF Spec

-----------------------------------------------------------------------------
(* Every variable stays in its type, and no bucket holds more than the     *)
(* larger burst, whatever the clock of the instance does.                  *)
THEOREM EdgeTypeCorrect == Spec => []TypeOK
<1>1. EdgeInv => TypeOK
  BY DEF EdgeInv
<1>2. QED
  BY <1>1, EdgeInvariance, PTL

(* A bucket lets through its burst and what time returned, under two rules *)
(* in any order, with instants that step back and hashes that are          *)
(* forgotten.                                                              *)
THEOREM BurstAndRefillOnly == Spec => []WithinTheRefill
<1>1. EdgeInv => WithinTheRefill
  <2> SUFFICES ASSUME EdgeInv, NEW k \in Keys
               PROVE  spent[k] * Token <= ReadBurst * Token + (clock + back[k]) * Rate(ReadRule)
    BY DEF WithinTheRefill
  <2>1. /\ TypeOK /\ BucketPays(k)
        /\ clock \in Nat /\ back[k] \in Nat /\ spent[k] \in Nat
    BY DEF EdgeInv, TypeOK, Time
  <2>2. /\ Rate(ReadRule) \in Nat /\ ReadBurst * Token \in Nat /\ spent[k] * Token \in Nat
        /\ (clock + back[k]) * Rate(ReadRule) \in Nat
    BY <2>1, RuleBounds, ProductIsNat DEF Rules
  <2>3. CASE bucket[k].at < 0
    BY <2>1, <2>2, <2>3 DEF BucketPays
  <2>4. CASE ~(bucket[k].at < 0)
    <3>1. bucket[k].at \in Nat /\ bucket[k].at <= clock /\ bucket[k].tokens \in Nat
      BY <2>1, <2>4, BucketsAreBuckets DEF BucketPays
    <3>2. /\ (bucket[k].at + back[k]) * Rate(ReadRule) <= (clock + back[k]) * Rate(ReadRule)
          /\ (bucket[k].at + back[k]) * Rate(ReadRule) \in Nat
      BY <2>1, <2>2, <3>1, ProductIsMonotone, ProductIsNat
    <3>3. QED
      BY <2>1, <2>2, <2>4, <3>1, <3>2 DEF BucketPays
  <2>5. QED
    BY <2>3, <2>4
<1>2. QED
  BY <1>1, EdgeInvariance, PTL

(* A refused caller that comes back after the wait it was told, with       *)
(* nobody in between, is let through: rounding never falls short.          *)
THEOREM WaitIsLongEnough == Spec => []ToldWaitSuffices
<1>1. EdgeInv => ToldWaitSuffices
  <2> SUFFICES ASSUME EdgeInv, NEW k \in Keys, NEW rule \in Rules, NEW now \in 0..clock,
                      ~Allowed(rule, bucket[k], now)
               PROVE  Allowed(rule, Take(rule, bucket[k], now, clock),
                              now + RetryAfter(rule, bucket[k], now))
    BY DEF ToldWaitSuffices
  <2>1. now \in Nat /\ bucket[k] \in Bucket
    BY BucketsAreBuckets DEF EdgeInv, TypeOK, Time
  <2>2. QED
    BY <2>1, WaitReaches
<1>2. QED
  BY <1>1, EdgeInvariance, PTL

(* An injection point fires at most as often as it was last armed for.     *)
THEOREM PointsFireAsArmed == Spec => []FiresAsArmed
<1>1. EdgeInv => FiresAsArmed
  BY DEF EdgeInv
<1>2. QED
  BY <1>1, EdgeInvariance, PTL

(* The challenge provider is only asked about callers who have paid with a *)
(* token of their account's bucket.                                        *)
THEOREM QuestionsArePaidFor == Spec => []AskedIsPaidFor
<1>1. EdgeInv => AskedIsPaidFor
  <2> SUFFICES ASSUME EdgeInv PROVE asked <= spent[Subject]
    BY DEF AskedIsPaidFor
  <2>1. IsFiniteSet(WritesAhead) /\ Cardinality(WritesAhead) \in Nat
    BY FS_Subset, FS_CardinalityType DEF WritesAhead
  <2>2. asked \in Nat /\ spent[Subject] \in Nat
    BY DEF EdgeInv, TypeOK, Keys
  <2>3. QED
    BY <2>1, <2>2 DEF EdgeInv, PaidAhead
<1>2. QED
  BY <1>1, EdgeInvariance, PTL
=============================================================================
