------------------------------ MODULE ApiEdge ------------------------------
(***************************************************************************)
(* What a request meets before its handler, in the order of the router's   *)
(* chains: origin, identity and role, then httpx/ratelimit.go over the     *)
(* shared limiter, then faults/handler.go, or a parent's route with its    *)
(* bot check and its injection points.                                     *)
(*                                                                         *)
(* Guard reads the clock once and then asks the limiter for the account's  *)
(* bucket and the address's, so an instant is applied later than it was    *)
(* read and other requests get in between.  Reads and writes of one caller *)
(* share their buckets and apply different rules to them.                  *)
(***************************************************************************)
EXTENDS TokenBucket, FaultRegistry, RequestChecks, FiniteSets

CONSTANTS
  Requests,     \* requests in flight
  Subject, Address,  \* the two buckets of the caller
  AddressKnown, \* whether requests carry an address to count against
  MaxTime,      \* bound on the clock
  MaxAsked      \* bound on the questions asked

ASSUME EdgeAssumption == MaxTime \in Nat /\ MaxAsked \in Nat /\ IsFiniteSet(Requests)

(* Both rules are applied to one bucket.  Writes are the scarcer ones, as  *)
(* bucket_test.go:173 asks; and a hash that was last used for a write is   *)
(* kept for no less time than a full burst of reads takes to come back: 65 *)
(* and 60 seconds in limiter.go.                                           *)
ASSUME MixAssumption ==
  /\ WriteBurst <= ReadBurst
  /\ ReadInterval <= WriteInterval
  /\ FullRefill(ReadRule) <= Lifetime(WriteRule)

VARIABLES
  clock,        \* the api's clock, and Redis's
  bucket,       \* the hash behind each key
  request,      \* where each request is
  spent,        \* requests each bucket allowed (history)
  back,         \* how far its instants stepped back, in all (history)
  asked         \* questions put to the challenge provider

limiterVars == <<bucket, spent, back>>
vars == <<clock, limiterVars, request, registryVars, asked>>

Keys == {Subject, Address}
Routes == {"read", "write", "fault", "faultList"}
Idle == [at |-> "idle", route |-> "read", now |-> 0]

(* The fault routes all carry the rule of the writes, the listing of what  *)
(* is armed too, though it is a GET as the reads are.                      *)
FaultRoutes == {"fault", "faultList"}
RuleOf(route) == IF route = "read" THEN ReadRule ELSE WriteRule
MethodOf(route) == IF route \in {"read", "faultList"} THEN "read" ELSE "write"

Time == 0..MaxTime

(* Every variable stays in its type, and no bucket holds more than the     *)
(* larger burst.                                                           *)
TypeOK ==
  /\ clock \in Time
  /\ bucket \in [Keys -> [tokens : 0..(Most(ReadBurst, WriteBurst) * Token), at : Time \cup {-1}, until : Nat]]
  /\ request \in [Requests -> [at : {"idle", "subject", "address", "handler"}, route : Routes, now : Time]]
  /\ RegistryTypeOK(0..(MaxTime + MaxLifetime))
  /\ spent \in [Keys -> Nat] /\ back \in [Keys -> Nat] /\ asked \in Nat

Init ==
  /\ clock = 0
  /\ bucket = [k \in Keys |-> Unseen]
  /\ request = [r \in Requests |-> Idle]
  /\ spent = [k \in Keys |-> 0] /\ back = [k \in Keys |-> 0]
  /\ asked = 0
  /\ RegistryInit

(* The chain of a route before its limiter: a parent's write must come     *)
(* from an allowed origin, every route needs an identity, and the fault    *)
(* routes an operator's.                                                   *)
Admitted(route, origin, identity) ==
  /\ route = "write" => CheckOrigin(MethodOf(route), origin)
  /\ identity # Nobody
  /\ route \in FaultRoutes => RequireRole("admin", identity)

(* A request that is admitted reads its instant, once; one that is not     *)
(* leaves nothing behind.                                                  *)
Arrive(r) ==
  /\ request[r].at = "idle"
  /\ \E route \in Routes, origin \in AllowedOrigins \cup {Nobody}, identity \in Roles \cup {Nobody} :
       request' = IF Admitted(route, origin, identity)
                  THEN [request EXCEPT ![r] = [at |-> "subject", route |-> route, now |-> clock]]
                  ELSE request
  /\ UNCHANGED <<clock, limiterVars, registryVars, asked>>

KeyOf(r) == IF request[r].at = "subject" THEN Subject ELSE Address
Onward(r) == [request EXCEPT ![r].at = IF @ = "subject" /\ AddressKnown THEN "address" ELSE "handler"]

(* The history a call leaves behind it.  An instant steps back behind the  *)
(* one that is stored, or behind the moment a forgotten bucket is new.     *)
StepBack(k, now) == IF bucket[k].at < 0 THEN clock - now ELSE Most(bucket[k].at - now, 0)

Remember(k, rule, now, allowed) ==
  /\ spent' = [spent EXCEPT ![k] = IF allowed THEN @ + 1 ELSE @]
  /\ back' = [back EXCEPT ![k] = @ + StepBack(k, now)]

(***************************************************************************)
(* Guard, one bucket at a time: the token of the first is spent also when  *)
(* the second refuses.  An unreachable limiter passes a safe method on,    *)
(* whatever the rule of its route, and refuses the others.                 *)
(***************************************************************************)
Allow(r) ==
  /\ request[r].at \in {"subject", "address"}
  /\ LET k == KeyOf(r)
         rule == RuleOf(request[r].route)
         now == request[r].now
         allowed == Allowed(rule, bucket[k], now)
     IN /\ bucket' = [bucket EXCEPT ![k] = Take(rule, bucket[k], now, clock)]
        /\ Remember(k, rule, now, allowed)
        /\ request' = IF allowed THEN Onward(r) ELSE [request EXCEPT ![r] = Idle]
  /\ UNCHANGED <<clock, registryVars, asked>>

(* Mutation: a write goes on too.                                          *)
UnreachablePassesAll(r) ==
  /\ request[r].at \in {"subject", "address"}
  /\ request' = Onward(r)
  /\ UNCHANGED <<clock, limiterVars, registryVars, asked>>

LimiterUnreachable(r) ==
  /\ request[r].at \in {"subject", "address"}
  /\ request' = IF isSafeMethod(MethodOf(request[r].route)) THEN Onward(r)
                ELSE [request EXCEPT ![r] = Idle]
  /\ UNCHANGED <<clock, limiterVars, registryVars, asked>>

(* A parent's write looks at the form before it does anything, and its     *)
(* call sites may reach their points; so may those of a read.              *)
ServeWrite ==
  \E signals \in Signals :
    /\ AsksVerifier(signals) => asked < MaxAsked
    /\ asked' = IF AsksVerifier(signals) THEN asked + 1 ELSE asked
    /\ \/ UNCHANGED registryVars
       \/ Inspect(signals) /\ \E point \in Points : Trigger(point, clock)

ServeRead == UNCHANGED <<asked, registryVars>> \/ \E point \in Points : Trigger(point, clock) /\ UNCHANGED asked

(* A POST for an unknown point answers with the list, which drops what has *)
(* expired; the listing does nothing else.                                 *)
ServeFault == (Arm(clock) \/ RefuseArm \/ Disarm \/ List(clock)) /\ UNCHANGED asked
ListFaults == List(clock) /\ UNCHANGED asked

Handle(r) ==
  /\ request[r].at = "handler"
  /\ \/ request[r].route = "read" /\ ServeRead
     \/ request[r].route = "write" /\ ServeWrite
     \/ request[r].route = "fault" /\ ServeFault
     \/ request[r].route = "faultList" /\ ListFaults
  /\ request' = [request EXCEPT ![r] = Idle]
  /\ UNCHANGED <<clock, limiterVars>>

(* Time passes, and Redis forgets the hashes whose time is up.             *)
Tick ==
  /\ clock < MaxTime
  /\ clock' = clock + 1
  /\ bucket' = [k \in Keys |-> IF clock' < bucket[k].until THEN bucket[k] ELSE Unseen]
  /\ UNCHANGED <<spent, back, request, registryVars, asked>>

Next ==
  \/ \E r \in Requests : Arrive(r) \/ Allow(r) \/ LimiterUnreachable(r) \/ Handle(r)
  \/ Tick

Spec == Init /\ [][Next]_vars

(***************************************************************************)
(* A bucket lets through its burst and what the time between its instants  *)
(* returned: whichever rules are mixed on it, and whenever the store       *)
(* forgot it.  An instant that steps back is refilled a second time, so    *)
(* every step back adds to it (limiter_redis.go:34, :55).                  *)
(***************************************************************************)
WithinTheRefill ==
  \A k \in Keys :
    spent[k] * Token <= ReadBurst * Token + (clock + back[k]) * Rate(ReadRule)

(***************************************************************************)
(* A refused caller that waits as long as it was told is let through, if   *)
(* nobody else asks: whatever the bucket holds, under either rule, at any  *)
(* instant a request may carry (bucket.go:128).                            *)
(***************************************************************************)
ToldWaitSuffices ==
  \A k \in Keys, rule \in Rules, now \in 0..clock :
    LET wait == RetryAfter(rule, bucket[k], now)
    IN ~Allowed(rule, bucket[k], now) => Allowed(rule, Take(rule, bucket[k], now, clock), now + wait)

(***************************************************************************)
(* A point fails at most as often as its last arming asked for, however    *)
(* many call sites reach it and whoever arms it again (registry.go:110).   *)
(***************************************************************************)
FiresAsArmed == \A p \in Points : fired[p] + armed[p].remaining <= armed[p].count

(***************************************************************************)
(* Whoever the challenge provider is asked about has paid with a token:    *)
(* what an earlier layer refused never reaches it, and a limiter that is   *)
(* out of reach lets no write through to it (verifier_mock.go:48,          *)
(* ratelimit.go:58).                                                       *)
(***************************************************************************)
AskedIsPaidFor == asked <= spent[Subject]
=============================================================================
