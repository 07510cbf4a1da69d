---------------------------- MODULE TokenBucket ----------------------------
(***************************************************************************)
(* The arithmetic of a rate limit: ratelimit/bucket.go, and the script of  *)
(* limiter_redis.go that applies it to a hash in one step.                 *)
(*                                                                         *)
(* A tick is a second.  Tokens are counted in fractions of one token, so   *)
(* that every rule returns a whole number of them per tick.                *)
(***************************************************************************)
EXTENDS Integers

CONSTANTS
  ReadBurst, ReadInterval,      \* ReadRule
  WriteBurst, WriteInterval     \* WriteRule

ASSUME RuleAssumption ==
  /\ ReadBurst \in Nat \ {0} /\ ReadInterval \in Nat \ {0}
  /\ WriteBurst \in Nat \ {0} /\ WriteInterval \in Nat \ {0}

ReadRule == [burst |-> ReadBurst, interval |-> ReadInterval]
WriteRule == [burst |-> WriteBurst, interval |-> WriteInterval]
Rules == {ReadRule, WriteRule}

(* One token, and what a tick returns of it under a rule.                  *)
Token == ReadInterval * WriteInterval
Rate(rule) == Token \div rule.interval

FullRefill(rule) == rule.burst * rule.interval

Least(a, b) == IF a < b THEN a ELSE b
Most(a, b) == IF a < b THEN b ELSE a

(* A caller that was never seen, or is forgotten.                          *)
Unseen == [tokens |-> 0, at |-> -1, until |-> 0]

(***************************************************************************)
(* What the caller holds at this instant: a clock behind the stored one    *)
(* counts as no time, and no more is saved up than the burst.  As a        *)
(* mutation, a clock behind counts as time passed.                         *)
(***************************************************************************)
HeldBothWays(rule, state, now) ==
  IF state.at < 0 THEN rule.burst * Token
  ELSE Least(state.tokens + Most(now - state.at, state.at - now) * Rate(rule), rule.burst * Token)
Held(rule, state, now) ==
  IF state.at < 0 THEN rule.burst * Token
  ELSE Least(state.tokens + Most(now - state.at, 0) * Rate(rule), rule.burst * Token)

Allowed(rule, state, now) == Held(rule, state, now) >= Token

(* waitFor: how long a missing fraction takes, rounded up to a second; the *)
(* second form rounds down.                                                *)
WaitTooShort(rule, missing) == missing \div Rate(rule)
WaitFor(rule, missing) == Most((missing + Rate(rule) - 1) \div Rate(rule), 1)

RetryAfter(rule, state, now) == WaitFor(rule, Token - Held(rule, state, now))

(* PEXPIRE: a full refill and one interval more.                           *)
Lifetime(rule) == FullRefill(rule) + rule.interval

(* Take, with the moment the store will forget the hash.  The instant is   *)
(* stored even when it is behind the one that was stored before.           *)
Take(rule, state, now, today) ==
  [tokens |-> Held(rule, state, now) - (IF Allowed(rule, state, now) THEN Token ELSE 0),
   at |-> now,
   until |-> today + Lifetime(rule)]
=============================================================================
