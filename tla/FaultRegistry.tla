--------------------------- MODULE FaultRegistry ---------------------------
(***************************************************************************)
(* faults/registry.go: the injection points that are armed, each for a     *)
(* number of failures and until a deadline.  Every method holds the mutex  *)
(* throughout, so each is one step; a deadline is found out when a point   *)
(* is reached or listed.                                                   *)
(***************************************************************************)
EXTENDS Naturals

CONSTANTS
  Points,        \* the closed list of points.go
  MaxCount,      \* MaxCount
  MaxLifetime    \* MaxLifetime, in ticks

ASSUME RegistryAssumption == MaxCount \in Nat \ {0} /\ MaxLifetime \in Nat

VARIABLES
  armed,         \* what is live, per point
  fired          \* failures since the point was last armed (history)

registryVars == <<armed, fired>>

Disarmed == [remaining |-> 0, expires |-> 0, count |-> 0]

(* Remembered, and the moment it would still fire.                         *)
IsArmed(point) == armed[point].remaining > 0
IsLive(point, now) == IsArmed(point) /\ now < armed[point].expires

RegistryTypeOK(times) ==
  /\ armed \in [Points -> [remaining : 0..MaxCount, expires : times, count : 0..MaxCount]]
  /\ fired \in [Points -> Nat]

RegistryInit ==
  /\ armed = [p \in Points |-> Disarmed]
  /\ fired = [p \in Points |-> 0]

(* Arm: a second arming replaces the first, or, with a slip, adds to it.   *)
ArmedMore(point, count, lifetime, now) ==
  [remaining |-> armed[point].remaining + count, expires |-> now + lifetime, count |-> count]
ArmedAnew(point, count, lifetime, now) ==
  [remaining |-> count, expires |-> now + lifetime, count |-> count]

Arm(now) ==
  \E point \in Points, count \in 1..MaxCount, lifetime \in 0..MaxLifetime :
    /\ armed' = [armed EXCEPT ![point] = ArmedAnew(point, count, lifetime, now)]
    /\ fired' = [fired EXCEPT ![point] = 0]

(* An unknown point, or a count or lifetime outside its bounds.            *)
RefuseArm == UNCHANGED registryVars

(* What is left after a failure; the last one disarms the point.           *)
Off(point) == [armed[point] EXCEPT !.remaining = 0, !.expires = 0]
Spend(point) ==
  IF armed[point].remaining > 1 THEN [armed[point] EXCEPT !.remaining = @ - 1] ELSE Off(point)

(* Trigger: whether the call site has to fail, and what is left.           *)
Trigger(point, now) ==
  IF IsLive(point, now)
    THEN /\ armed' = [armed EXCEPT ![point] = Spend(point)]
         /\ fired' = [fired EXCEPT ![point] = @ + 1]
    ELSE /\ armed' = [armed EXCEPT ![point] = Off(point)]
         /\ UNCHANGED fired

List(now) ==
  /\ armed' = [p \in Points |-> IF IsLive(p, now) THEN armed[p] ELSE Off(p)]
  /\ UNCHANGED fired

Disarm ==
  /\ armed' = [p \in Points |-> Off(p)]
  /\ UNCHANGED fired
=============================================================================
