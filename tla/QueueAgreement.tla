--------------------------- MODULE QueueAgreement ---------------------------
(***************************************************************************)
(* The two implementations of the job queue side by side: the table in     *)
(* Postgres under runners that crash and come late, and the map the fast   *)
(* tests run against.                                                      *)
(***************************************************************************)
EXTENDS JobQueue

(* A table has finitely many rows.                                         *)
ASSUME AgreementAssumption == IsFiniteSet(Jobs)

Memory == INSTANCE MemoryQueue

(* What one scan of the table counts, by the where clause of each column.  *)
Depth ==
  LET counted(has(_)) == Cardinality({j \in Jobs : job[j].status = "queued" /\ has(j)})
      ready(j) == ~IsParked(j) /\ job[j].wait = 0 /\ job[j].lease = 0
      claimed(j) == ~IsParked(j) /\ job[j].lease > 0
  IN [ready |-> counted(ready), claimed |-> counted(claimed), parked |-> counted(IsParked)]

(* Whatever a runner does to the table, on time or after its lease was     *)
(* given to another, is what the map makes of the same call at the same    *)
(* instant; a poll that finds nothing takes nothing; and the operator      *)
(* reads the same depth of both (queue.go:11, queue_memory.go:10).         *)
AgreesWithMemoryQueue ==
  [][/\ Depth = Memory!Depth(job)
     /\ \A w \in Workers :
          hand[w] = NoHands /\ hand'[w] # NoHands => job' \in Memory!Claims(job, BatchSize)
     /\ \A w \in Workers, j \in Jobs :
          hand[w][j] \in {"complete", "handBack"} /\ hand'[w][j] = "none" /\ job' # job =>
            job' = IF hand[w][j] = "complete" THEN Memory!Complete(job, j)
                   ELSE Memory!Release(job, j, RetryBackoff)
     /\ \A j \in Jobs :
          job[j].status = "absent" /\ job'[j].status = "queued" =>
            job' = Memory!Enqueue(job, j, job'[j].payload, job'[j].wait)]_queueVars
=============================================================================
