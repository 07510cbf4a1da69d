------------------------------ MODULE JobQueue ------------------------------
(***************************************************************************)
(* The job queue in Postgres and the runners that work through it.  A      *)
(* claim is a lease: it is believed until it lapses, and nothing else      *)
(* recovers the work of a worker that died.                                *)
(*                                                                         *)
(* Instants are kept as the time left until they come, so a clock that     *)
(* runs forever has finitely many states.  Which of several due jobs a     *)
(* full batch takes is left open: the age of an overdue job is not kept.   *)
(***************************************************************************)
EXTENDS Naturals, FiniteSets

CONSTANTS
  Workers, Jobs,
  Payloads,         (* What a job may carry; the queue never looks at it.  *)
  Delays,           (* How far ahead a job may be scheduled.               *)
  Lease, RetryBackoff, BatchSize, Concurrency, MaxJobAttempts,
  Overrun,          (* The jobs whose handler may outlast its lease.       *)
  None

ASSUME QueueAssumption ==
  /\ Delays \subseteq Nat
  /\ {Lease, RetryBackoff, BatchSize, Concurrency, MaxJobAttempts} \subseteq Nat \ {0}
  /\ Overrun \subseteq Jobs
  /\ None \notin Payloads

VARIABLES
  job,       (* job_queue, by identifier.                                  *)
  hand,      (* What each worker is doing with each job it claimed.        *)
  leaseLeft, (* What is left of the lease each worker was given.           *)
  finished   (* The jobs whose handler said they were finished.            *)

queueVars == <<job, hand, leaseLeft, finished>>

NoJob == [status |-> "absent", payload |-> None, wait |-> 0, attempts |-> 0, lease |-> 0]

Job == [status : {"absent", "queued", "removed"}, payload : Payloads \union {None},
        wait : Nat, attempts : 0 .. MaxJobAttempts, lease : 0 .. Lease]

Stage == {"none", "leased", "handling", "complete", "handBack"}

NoHands == [j \in Jobs |-> "none"]

QueueTypeOK ==
  /\ job \in [Jobs -> Job]
  /\ hand \in [Workers -> [Jobs -> Stage]]
  /\ leaseLeft \in [Workers -> [Jobs -> 0 .. Lease]]
  /\ finished \in SUBSET Jobs

QueueInit ==
  /\ job = [j \in Jobs |-> NoJob]
  /\ hand = [w \in Workers |-> NoHands]
  /\ leaseLeft = [w \in Workers |-> [j \in Jobs |-> 0]]
  /\ finished = {}
-----------------------------------------------------------------------------
IsParked(j) == job[j].attempts >= MaxJobAttempts

Enqueue(j, payload, delay) ==
  /\ job[j].status = "absent"
  /\ job' = [job EXCEPT ![j] = [NoJob EXCEPT !.status = "queued", !.payload = payload,
                                             !.wait = delay]]
  /\ UNCHANGED <<hand, leaseLeft, finished>>

(* Mutations: whoever comes late takes the job, leased or not; a job that  *)
(* spent its attempts is handed out once more.                             *)
ClaimableLeased ==
  {j \in Jobs : job[j].status = "queued" /\ job[j].wait = 0 /\ ~IsParked(j)}

ClaimableOnceMore ==
  {j \in Jobs : /\ job[j].status = "queued"
                /\ job[j].wait = 0
                /\ job[j].lease = 0
                /\ job[j].attempts <= MaxJobAttempts}

(* Due, not believed to be leased, and not parked.                         *)
Claimable ==
  {j \in Jobs : /\ job[j].status = "queued"
                /\ job[j].wait = 0
                /\ job[j].lease = 0
                /\ ~IsParked(j)}

(* Mutation: an attempt is not spent by the claim.                         *)
LeasedFree(stored) == [stored EXCEPT !.lease = Lease]

Leased(stored) == [stored EXCEPT !.lease = Lease, !.attempts = @ + 1]

(* One statement finds a batch and leases it, spending an attempt of each. *)
(* A runner polls when the batch before is done with.                      *)
Claim(w) ==
  /\ hand[w] = NoHands
  /\ \E batch \in SUBSET Claimable :
       /\ batch # {}
       /\ \/ Cardinality(batch) = BatchSize
          \/ Cardinality(batch) < BatchSize /\ batch = Claimable
       /\ job' = [j \in Jobs |-> IF j \in batch THEN Leased(job[j]) ELSE job[j]]
       /\ hand' = [hand EXCEPT ![w] = [j \in Jobs |-> IF j \in batch THEN "leased" ELSE "none"]]
       /\ leaseLeft' = [leaseLeft EXCEPT ![w] = [j \in Jobs |-> IF j \in batch THEN Lease ELSE 0]]
  /\ UNCHANGED finished

Working(w) == {j \in Jobs : hand[w][j] \in {"handling", "complete", "handBack"}}

Start(w, j) ==
  /\ hand[w][j] = "leased"
  /\ Cardinality(Working(w)) < Concurrency
  /\ hand' = [hand EXCEPT ![w][j] = "handling"]
  /\ UNCHANGED <<job, leaseLeft, finished>>

(* The handler says the job is finished, or fails.                         *)
HandlerReturns(w, j, ok) ==
  /\ hand[w][j] = "handling"
  /\ hand' = [hand EXCEPT ![w][j] = IF ok THEN "complete" ELSE "handBack"]
  /\ finished' = IF ok THEN finished \union {j} ELSE finished
  /\ UNCHANGED <<job, leaseLeft>>

LetGo(w, j) ==
  /\ hand' = [hand EXCEPT ![w][j] = "none"]
  /\ leaseLeft' = [leaseLeft EXCEPT ![w][j] = 0]
  /\ UNCHANGED finished

(* The row is gone; a worker that still runs the job has a copy of it.     *)
Removed(stored) == [stored EXCEPT !.status = "removed", !.wait = 0, !.lease = 0]

(* Whoever holds it by now, the job is deleted.                            *)
Complete(w, j) ==
  /\ hand[w][j] = "complete"
  /\ job' = IF job[j].status = "queued" THEN [job EXCEPT ![j] = Removed(@)]
            ELSE job                                           (* ErrJobNotFound *)
  /\ LetGo(w, j)

(* Mutation: a job that spent its attempts is dropped.                     *)
HandBackOrDrop(w, j) ==
  /\ hand[w][j] = "handBack"
  /\ job' = IF job[j].status # "queued" THEN job
            ELSE IF IsParked(j) THEN [job EXCEPT ![j] = Removed(@)]
            ELSE [job EXCEPT ![j].lease = 0, ![j].wait = RetryBackoff]
  /\ LetGo(w, j)

(* Whoever holds it by now, the lease is cleared and the job waits.        *)
HandBack(w, j) ==
  /\ hand[w][j] = "handBack"
  /\ job' = IF job[j].status = "queued"
            THEN [job EXCEPT ![j].lease = 0, ![j].wait = RetryBackoff]
            ELSE job                                           (* ErrJobNotFound *)
  /\ LetGo(w, j)

(* The last statement for a job fails: it stays as it is until its lease   *)
(* lapses.                                                                 *)
LoseJob(w, j) ==
  /\ hand[w][j] \in {"complete", "handBack"}
  /\ UNCHANGED job
  /\ LetGo(w, j)

CrashWorker(w) ==
  /\ hand[w] # NoHands
  /\ hand' = [hand EXCEPT ![w] = NoHands]
  /\ leaseLeft' = [leaseLeft EXCEPT ![w] = [j \in Jobs |-> 0]]
  /\ UNCHANGED <<job, finished>>

Less(n) == IF n = 0 THEN 0 ELSE n - 1

(* Where no handler outlasts its lease, time waits for the last of it.     *)
QueueTick ==
  /\ \A w \in Workers, j \in Jobs \ Overrun : hand[w][j] # "none" => leaseLeft[w][j] > 1
  /\ job' = [j \in Jobs |-> [job[j] EXCEPT !.wait = Less(@), !.lease = Less(@)]]
  /\ leaseLeft' = [w \in Workers |-> [j \in Jobs |-> Less(leaseLeft[w][j])]]
  /\ UNCHANGED <<hand, finished>>
-----------------------------------------------------------------------------
Dispatch(w, j) == Start(w, j) \/ Complete(w, j) \/ HandBack(w, j) \/ LoseJob(w, j)

QueueNext ==
  \/ \E j \in Jobs, payload \in Payloads, delay \in Delays : Enqueue(j, payload, delay)
  \/ \E w \in Workers :
       \/ Claim(w)
       \/ \E j \in Jobs : Dispatch(w, j) \/ (\E ok \in BOOLEAN : HandlerReturns(w, j, ok))
       \/ CrashWorker(w)
  \/ QueueTick

QueueSpec == QueueInit /\ [][QueueNext]_queueVars

(* Time passes, runners poll, and whatever they start they work through.   *)
QueueFairness ==
  /\ WF_queueVars(QueueTick)
  /\ \A w \in Workers :
       /\ WF_queueVars(Claim(w))
       /\ \A j \in Jobs : WF_queueVars(Dispatch(w, j) \/ \E ok \in BOOLEAN : HandlerReturns(w, j, ok))

FairQueueSpec == QueueSpec /\ QueueFairness
-----------------------------------------------------------------------------
(* A claimed job is invisible to the other worker until its lease runs     *)
(* out: no two workers hold leases on one job that both still run, however *)
(* late the handlers of other jobs are.  A job whose own handler outlasts  *)
(* its lease has no such promise: HandBack clears whatever lease it finds. *)
InvisibleWhileLeased ==
  \A j \in Jobs \ Overrun, w \in Workers : leaseLeft[w][j] > 0 =>
    \A v \in Workers \ {w} : leaseLeft[v][j] = 0

(* A job leaves the table only after a handler said it was finished, no    *)
(* matter who crashed, who lost a lease and who ran it twice.              *)
NoWorkIsDropped == \A j \in Jobs : job[j].status = "removed" => j \in finished

(* A job that spent its attempts is left for an operator: it is never      *)
(* handed out again, and only a worker that still has it may remove it.    *)
ParkedStaysParked ==
  [][\A j \in Jobs : job[j].status = "queued" /\ IsParked(j) =>
       /\ job'[j].status = "queued" => job'[j].attempts = job[j].attempts
       /\ job'[j].status = "removed" => \E w \in Workers : hand[w][j] = "complete"]_queueVars

(* Every job is finished or parked in the end, whatever crashes.           *)
EveryJobSettles ==
  \A j \in Jobs :
    job[j].status = "queued" ~>
      (job[j].status = "removed" \/ (IsParked(j) /\ job[j].lease = 0 /\ \A w \in Workers : hand[w][j] = "none"))
=============================================================================
