---------------------------- MODULE MemoryQueue ----------------------------
(***************************************************************************)
(* The in-memory queue of the fast tests: every operation in one piece     *)
(* under one mutex, from what is stored and what is asked to what is       *)
(* stored after.  A job the map has no entry for is one that is not        *)
(* "queued".  Instants are kept as the time left until they come.          *)
(***************************************************************************)
EXTENDS Naturals, FiniteSets

CONSTANTS Jobs, Lease, MaxJobAttempts

Entries(jobs) == {j \in Jobs : jobs[j].status = "queued"}

IsDue(stored) == stored.wait = 0
IsClaimed(stored) == stored.lease > 0
IsParked(stored) == stored.attempts >= MaxJobAttempts

Enqueue(jobs, j, payload, delay) ==
  IF j \in Entries(jobs) THEN jobs                          (* ErrDuplicateJob *)
  ELSE [jobs EXCEPT ![j] = [status |-> "queued", payload |-> payload, wait |-> delay,
                            attempts |-> 0, lease |-> 0]]

claimable(jobs) ==
  {j \in Entries(jobs) : IsDue(jobs[j]) /\ ~IsClaimed(jobs[j]) /\ ~IsParked(jobs[j])}

(* What a claim may leave behind: the jobs that became due first, as many  *)
(* as the limit lets through, each with one attempt spent.                 *)
Claims(jobs, limit) ==
  LET due == claimable(jobs)
      size == IF Cardinality(due) < limit THEN Cardinality(due) ELSE limit
  IN {[j \in Jobs |-> IF j \in batch
                      THEN [jobs[j] EXCEPT !.attempts = @ + 1, !.lease = Lease] ELSE jobs[j]] :
        batch \in {taken \in SUBSET due : Cardinality(taken) = size}}

Complete(jobs, j) ==
  IF j \notin Entries(jobs) THEN jobs                       (* ErrJobNotFound  *)
  ELSE [jobs EXCEPT ![j] = [@ EXCEPT !.status = "removed", !.wait = 0, !.lease = 0]]

Release(jobs, j, runAfter) ==
  IF j \notin Entries(jobs) THEN jobs                       (* ErrJobNotFound  *)
  ELSE [jobs EXCEPT ![j].lease = 0, ![j].wait = runAfter]

(* Every job is counted once, as the first of the three that it is.        *)
Depth(jobs) ==
  LET parked == {j \in Entries(jobs) : IsParked(jobs[j])}
      claimed == {j \in Entries(jobs) \ parked : IsClaimed(jobs[j])}
      ready == {j \in Entries(jobs) \ (parked \union claimed) : IsDue(jobs[j])}
  IN [ready |-> Cardinality(ready), claimed |-> Cardinality(claimed), parked |-> Cardinality(parked)]
=============================================================================
