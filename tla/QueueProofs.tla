----------------------------- MODULE QueueProofs -----------------------------
(***************************************************************************)
(* The job queue is correct for any number of workers and jobs: no work is *)
(* dropped, a parked job stays parked, and a claimed job is invisible for  *)
(* as long as its holder keeps to its lease.                               *)
(***************************************************************************)
EXTENDS QueueAgreement, FiniteSetTheorems, TLAPS

USE QueueAssumption

LEMMA Settings ==
  /\ Lease \in Nat \ {0} /\ RetryBackoff \in Nat \ {0} /\ BatchSize \in Nat \ {0}
  /\ Concurrency \in Nat \ {0} /\ MaxJobAttempts \in Nat \ {0}
  /\ 0 \in Nat /\ 0 \in 0 .. Lease /\ Lease \in 0 .. Lease /\ 0 \in 0 .. MaxJobAttempts
OBVIOUS

(* A tick takes one off what is left, and nothing off nothing.             *)
LEMMA LessIsLess ==
  ASSUME NEW n \in Nat
  PROVE  Less(n) \in Nat /\ Less(n) <= n /\ (n > 0 => Less(n) = n - 1) /\ (n = 0 => Less(n) = 0)
BY DEF Less

(* What each step does to a row: it stays in its type, and is removed only *)
(* by a completion.                                                        *)
LEMMA RowTypes ==
  ASSUME NEW stored \in Job
  PROVE  /\ Removed(stored) \in Job
         /\ [stored EXCEPT !.lease = 0, !.wait = RetryBackoff] \in Job
         /\ [stored EXCEPT !.wait = Less(@), !.lease = Less(@)] \in Job
         /\ stored.attempts < MaxJobAttempts => Leased(stored) \in Job
<1>1. stored.wait \in Nat /\ stored.lease \in 0 .. Lease /\ stored.attempts \in 0 .. MaxJobAttempts
  BY DEF Job
<1>2. Less(stored.wait) \in Nat /\ Less(stored.lease) \in 0 .. Lease
  BY <1>1, Settings, LessIsLess
<1>3. Removed(stored) \in Job
  BY Settings DEF Removed, Job
<1>4. [stored EXCEPT !.lease = 0, !.wait = RetryBackoff] \in Job
  BY Settings DEF Job
<1>5. [stored EXCEPT !.wait = Less(@), !.lease = Less(@)] \in Job
  BY <1>2 DEF Job
<1>6. stored.attempts < MaxJobAttempts => Leased(stored) \in Job
  <2>1. stored.attempts < MaxJobAttempts => stored.attempts + 1 \in 0 .. MaxJobAttempts
    BY <1>1, Settings
  <2>2. QED
    BY <2>1, Settings DEF Leased, Job
<1>7. QED
  BY <1>3, <1>4, <1>5, <1>6

LEMMA QueueInitTypeOK == QueueInit => QueueTypeOK
<1>1. NoJob \in Job
  BY Settings DEF NoJob, Job
<1>2. QED
  BY <1>1, Settings DEF QueueInit, QueueTypeOK, NoHands, Stage

-----------------------------------------------------------------------------
(* Every step keeps the types.                                             *)
LEMMA QueueStepTypeOK == QueueTypeOK /\ [QueueNext]_queueVars => QueueTypeOK'
<1> SUFFICES ASSUME QueueTypeOK, [QueueNext]_queueVars PROVE QueueTypeOK'
  OBVIOUS
<1> USE DEF QueueTypeOK
<1>1. ASSUME NEW j \in Jobs, NEW payload \in Payloads, NEW delay \in Delays, Enqueue(j, payload, delay)
      PROVE  QueueTypeOK'
  <2>1. [NoJob EXCEPT !.status = "queued", !.payload = payload, !.wait = delay] \in Job
    BY Settings DEF NoJob, Job
  <2>2. QED
    BY <1>1, <2>1 DEF Enqueue
<1>2. ASSUME NEW w \in Workers, Claim(w) PROVE QueueTypeOK'
  <2>1. PICK batch \in SUBSET Claimable :
          /\ job' = [j \in Jobs |-> IF j \in batch THEN Leased(job[j]) ELSE job[j]]
          /\ hand' = [hand EXCEPT ![w] = [j \in Jobs |-> IF j \in batch THEN "leased" ELSE "none"]]
          /\ leaseLeft' = [leaseLeft EXCEPT ![w] = [j \in Jobs |-> IF j \in batch THEN Lease ELSE 0]]
    BY <1>2 DEF Claim
  <2>2. ASSUME NEW j \in batch PROVE Leased(job[j]) \in Job
    <3>1. job[j] \in Job /\ ~(job[j].attempts >= MaxJobAttempts)
      BY <2>2 DEF Claimable, IsParked
    <3>2. job[j].attempts < MaxJobAttempts
      BY <3>1, Settings DEF Job
    <3>3. QED
      BY <3>1, <3>2, RowTypes
  <2>3. job' \in [Jobs -> Job]
    BY <2>1, <2>2
  <2>4. hand' \in [Workers -> [Jobs -> Stage]]
    BY <2>1 DEF Stage
  <2>5. leaseLeft' \in [Workers -> [Jobs -> 0 .. Lease]]
    BY <2>1, Settings
  <2>6. QED
    BY <1>2, <2>3, <2>4, <2>5 DEF Claim
<1>3. ASSUME NEW w \in Workers, NEW j \in Jobs, Dispatch(w, j) PROVE QueueTypeOK'
  <2>1. Removed(job[j]) \in Job /\ [job[j] EXCEPT !.lease = 0, !.wait = RetryBackoff] \in Job
    BY RowTypes
  <2>2. CASE Start(w, j)
    BY <2>2 DEF Start, Stage
  <2>3. CASE Complete(w, j)
    BY <2>1, <2>3, Settings DEF Complete, LetGo, Stage
  <2>4. CASE HandBack(w, j)
    <3>1. job' \in [Jobs -> Job]
      BY <2>1, <2>4 DEF HandBack
    <3>2. QED
      BY <3>1, <2>4, Settings DEF HandBack, LetGo, Stage
  <2>5. CASE LoseJob(w, j)
    BY <2>5, Settings DEF LoseJob, LetGo, Stage
  <2>6. QED
    BY <1>3, <2>2, <2>3, <2>4, <2>5 DEF Dispatch
<1>4. ASSUME NEW w \in Workers, NEW j \in Jobs, NEW ok \in BOOLEAN, HandlerReturns(w, j, ok)
      PROVE  QueueTypeOK'
  BY <1>4 DEF HandlerReturns, Stage
<1>5. ASSUME NEW w \in Workers, CrashWorker(w) PROVE QueueTypeOK'
  BY <1>5, Settings DEF CrashWorker, NoHands, Stage
<1>6. CASE QueueTick
  <2>1. job' \in [Jobs -> Job]
    BY <1>6, RowTypes DEF QueueTick
  <2>2. \A n \in 0 .. Lease : Less(n) \in 0 .. Lease
    BY Settings, LessIsLess
  <2>3. QED
    BY <1>6, <2>1, <2>2 DEF QueueTick
<1>7. CASE UNCHANGED queueVars
  BY <1>7 DEF queueVars
<1>8. QED
  BY <1>1, <1>2, <1>3, <1>4, <1>5, <1>6, <1>7 DEF QueueNext

(* The state of the queue stays in its types.                              *)
THEOREM QueueTypeCorrect == QueueSpec => []QueueTypeOK
BY QueueInitTypeOK, QueueStepTypeOK, PTL DEF QueueSpec

-----------------------------------------------------------------------------
(* What is finished before it is removed, and by whom it is removed.       *)
CompletionsAreFinished ==
  \A w \in Workers, j \in Jobs : hand[w][j] = "complete" => j \in finished

FinishedInv == QueueTypeOK /\ CompletionsAreFinished /\ NoWorkIsDropped

(* Only a claim spends an attempt, and never of a parked job; only the     *)
(* completion of a job that was finished removes it.                       *)
LEMMA RowChanges ==
  ASSUME QueueTypeOK, [QueueNext]_queueVars, NEW j \in Jobs, job[j].status # "absent"
  PROVE  /\ \/ job'[j].status = job[j].status
            \/ /\ job[j].status = "queued" /\ job'[j].status = "removed"
               /\ \E w \in Workers : hand[w][j] = "complete"
         /\ \/ job'[j].attempts = job[j].attempts
            \/ job[j].status = "queued" /\ ~IsParked(j)
<1> DEFINE Result ==
             /\ \/ job'[j].status = job[j].status
                \/ /\ job[j].status = "queued" /\ job'[j].status = "removed"
                   /\ \E w \in Workers : hand[w][j] = "complete"
             /\ \/ job'[j].attempts = job[j].attempts
                \/ job[j].status = "queued" /\ ~IsParked(j)
<1> USE DEF QueueTypeOK
<1>0. job[j] \in Job /\ job \in [Jobs -> Job]
  OBVIOUS
<1>1. ASSUME NEW k \in Jobs, NEW payload \in Payloads, NEW delay \in Delays, Enqueue(k, payload, delay)
      PROVE  Result
  BY <1>1 DEF Enqueue
<1>2. ASSUME NEW w \in Workers, Claim(w) PROVE Result
  <2>1. PICK batch \in SUBSET Claimable :
          job' = [i \in Jobs |-> IF i \in batch THEN Leased(job[i]) ELSE job[i]]
    BY <1>2 DEF Claim
  <2>2. CASE j \in batch
    <3>1. job'[j] = Leased(job[j]) /\ job[j].status = "queued" /\ ~IsParked(j)
      BY <2>1, <2>2 DEF Claimable
    <3>2. job'[j].status = job[j].status
      BY <1>0, <3>1 DEF Leased, Job
    <3>3. QED
      BY <3>1, <3>2
  <2>3. CASE j \notin batch
    BY <2>1, <2>3
  <2>4. QED
    BY <2>2, <2>3
<1>3. ASSUME NEW w \in Workers, NEW k \in Jobs, Dispatch(w, k) PROVE Result
  <2>1. CASE Start(w, k) \/ LoseJob(w, k)
    BY <2>1 DEF Start, LoseJob
  <2>2. CASE Complete(w, k)
    <3>1. CASE k = j /\ job[j].status = "queued"
      <4>1. job'[j] = Removed(job[j]) /\ hand[w][j] = "complete"
        BY <1>0, <2>2, <3>1 DEF Complete
      <4>2. job'[j].status = "removed" /\ job'[j].attempts = job[j].attempts
        BY <1>0, <4>1 DEF Removed, Job
      <4>3. QED
        BY <3>1, <4>1, <4>2
    <3>2. CASE ~(k = j /\ job[j].status = "queued")
      BY <2>2, <3>2 DEF Complete
    <3>3. QED
      BY <3>1, <3>2
  <2>3. CASE HandBack(w, k)
    BY <1>0, <2>3 DEF HandBack, Job
  <2>4. QED
    BY <1>3, <2>1, <2>2, <2>3 DEF Dispatch
<1>4. ASSUME NEW w \in Workers, NEW k \in Jobs, NEW ok \in BOOLEAN, HandlerReturns(w, k, ok)
      PROVE  Result
  BY <1>4 DEF HandlerReturns
<1>5. ASSUME NEW w \in Workers, CrashWorker(w) PROVE Result
  BY <1>5 DEF CrashWorker
<1>6. CASE QueueTick
  BY <1>0, <1>6 DEF QueueTick, Job
<1>7. CASE UNCHANGED queueVars
  BY <1>7 DEF queueVars
<1>8. QED
  BY <1>1, <1>2, <1>3, <1>4, <1>5, <1>6, <1>7 DEF QueueNext

(* A job comes into the table by being enqueued, and not otherwise.        *)
LEMMA AbsentUntilEnqueued ==
  ASSUME QueueTypeOK, [QueueNext]_queueVars, NEW j \in Jobs, job[j].status = "absent"
  PROVE  \/ job'[j].status = "absent"
         \/ \E payload \in Payloads, delay \in Delays : Enqueue(j, payload, delay)
<1> USE DEF QueueTypeOK
<1>0. job[j] \in Job /\ job \in [Jobs -> Job]
  OBVIOUS
<1>1. ASSUME NEW k \in Jobs, NEW payload \in Payloads, NEW delay \in Delays,
             Enqueue(k, payload, delay), k # j
      PROVE  job'[j].status = "absent"
  BY <1>0, <1>1 DEF Enqueue
<1>2. ASSUME NEW w \in Workers, Claim(w) PROVE job'[j].status = "absent"
  <2>1. PICK batch \in SUBSET Claimable :
          job' = [i \in Jobs |-> IF i \in batch THEN Leased(job[i]) ELSE job[i]]
    BY <1>2 DEF Claim
  <2>2. j \notin batch
    BY <2>1 DEF Claimable
  <2>3. QED
    BY <2>1, <2>2
<1>3. ASSUME NEW w \in Workers, NEW k \in Jobs, Dispatch(w, k)
      PROVE  job'[j].status = "absent"
  <2>1. job[k].status = "queued" => k # j
    OBVIOUS
  <2>2. job'[j] = job[j]
    BY <1>0, <1>3, <2>1 DEF Dispatch, Start, Complete, HandBack, LoseJob
  <2>3. QED
    BY <2>2
<1>4. ASSUME NEW w \in Workers, NEW k \in Jobs, NEW ok \in BOOLEAN, HandlerReturns(w, k, ok)
      PROVE  job'[j].status = "absent"
  BY <1>4 DEF HandlerReturns
<1>5. ASSUME NEW w \in Workers, CrashWorker(w) PROVE job'[j].status = "absent"
  BY <1>5 DEF CrashWorker
<1>6. CASE QueueTick
  BY <1>0, <1>6 DEF QueueTick, Job
<1>7. CASE UNCHANGED queueVars
  BY <1>7 DEF queueVars
<1>8. QED
  BY <1>1, <1>2, <1>3, <1>4, <1>5, <1>6, <1>7 DEF QueueNext

LEMMA FinishedInit == QueueInit => FinishedInv
<1>1. QueueInit => CompletionsAreFinished
  BY DEF QueueInit, CompletionsAreFinished, NoHands
<1>2. QueueInit => NoWorkIsDropped
  BY DEF QueueInit, NoWorkIsDropped, NoJob
<1>3. QED
  BY <1>1, <1>2, QueueInitTypeOK DEF FinishedInv

(* A hand comes to hold a completion only by its handler saying so, and    *)
(* nothing that is finished becomes unfinished.                            *)
LEMMA CompletionsStayFinished ==
  ASSUME QueueTypeOK, CompletionsAreFinished, [QueueNext]_queueVars
  PROVE  finished \subseteq finished' /\ CompletionsAreFinished'
<1> USE DEF QueueTypeOK, CompletionsAreFinished
<1>1. ASSUME NEW j \in Jobs, NEW payload \in Payloads, NEW delay \in Delays, Enqueue(j, payload, delay)
      PROVE  finished \subseteq finished' /\ CompletionsAreFinished'
  BY <1>1 DEF Enqueue
<1>2. ASSUME NEW w \in Workers, Claim(w)
      PROVE  finished \subseteq finished' /\ CompletionsAreFinished'
  BY <1>2 DEF Claim
<1>3. ASSUME NEW w \in Workers, NEW j \in Jobs, Dispatch(w, j)
      PROVE  finished \subseteq finished' /\ CompletionsAreFinished'
  BY <1>3 DEF Dispatch, Start, Complete, HandBack, LoseJob, LetGo
<1>4. ASSUME NEW w \in Workers, NEW j \in Jobs, NEW ok \in BOOLEAN, HandlerReturns(w, j, ok)
      PROVE  finished \subseteq finished' /\ CompletionsAreFinished'
  BY <1>4 DEF HandlerReturns
<1>5. ASSUME NEW w \in Workers, CrashWorker(w)
      PROVE  finished \subseteq finished' /\ CompletionsAreFinished'
  BY <1>5 DEF CrashWorker, NoHands
<1>6. CASE QueueTick \/ UNCHANGED queueVars
  BY <1>6 DEF QueueTick, queueVars
<1>7. QED
  BY <1>1, <1>2, <1>3, <1>4, <1>5, <1>6 DEF QueueNext

LEMMA FinishedStep == FinishedInv /\ [QueueNext]_queueVars => FinishedInv'
<1> SUFFICES ASSUME FinishedInv, [QueueNext]_queueVars PROVE FinishedInv'
  OBVIOUS
<1>1. QueueTypeOK /\ QueueTypeOK'
  BY QueueStepTypeOK DEF FinishedInv
<1>2. finished \subseteq finished' /\ CompletionsAreFinished'
  BY CompletionsStayFinished DEF FinishedInv
<1>3. ASSUME NEW j \in Jobs, job'[j].status = "removed" PROVE j \in finished'
  <2>1. CASE job[j].status = "absent"
    <3>1. job'[j].status \in {"absent", "queued"}
      <4>1. CASE job'[j].status = "absent"
        BY <4>1
      <4>2. ASSUME NEW payload \in Payloads, NEW delay \in Delays, Enqueue(j, payload, delay)
            PROVE  job'[j].status = "queued"
        BY <1>1, <4>2 DEF Enqueue, NoJob, QueueTypeOK
      <4>3. QED
        BY <1>1, <2>1, <4>1, <4>2, AbsentUntilEnqueued
    <3>2. QED
      BY <1>3, <3>1
  <2>2. CASE job[j].status # "absent"
    <3>1. job[j].status = "removed" \/ \E w \in Workers : hand[w][j] = "complete"
      BY <1>1, <1>3, <2>2, RowChanges
    <3>2. j \in finished
      BY <3>1 DEF FinishedInv, NoWorkIsDropped, CompletionsAreFinished
    <3>3. QED
      BY <1>2, <3>2
  <2>3. QED
    BY <2>1, <2>2
<1>4. QED
  BY <1>1, <1>2, <1>3 DEF FinishedInv, NoWorkIsDropped

(* A job leaves the table only after a handler said it was finished, for   *)
(* any number of workers, whatever crashes and however late each of them   *)
(* completes or hands back.                                                *)
THEOREM NoWorkIsEverDropped == QueueSpec => []NoWorkIsDropped
<1>1. FinishedInv => NoWorkIsDropped
  BY DEF FinishedInv
<1>2. QED
  BY <1>1, FinishedInit, FinishedStep, PTL DEF QueueSpec

(* A job that spent its attempts is never handed out again, and only a     *)
(* worker that still has it removes it.                                    *)
THEOREM ParkedForGood == QueueSpec => ParkedStaysParked
<1>1. ASSUME QueueTypeOK, [QueueNext]_queueVars, NEW j \in Jobs,
             job[j].status = "queued", IsParked(j)
      PROVE  /\ job'[j].status = "queued" => job'[j].attempts = job[j].attempts
             /\ job'[j].status = "removed" => \E w \in Workers : hand[w][j] = "complete"
  BY <1>1, RowChanges
<1>2. QueueTypeOK /\ [QueueNext]_queueVars
        => [\A j \in Jobs : job[j].status = "queued" /\ IsParked(j) =>
              /\ job'[j].status = "queued" => job'[j].attempts = job[j].attempts
              /\ job'[j].status = "removed" => \E w \in Workers : hand[w][j] = "complete"]_queueVars
  BY <1>1
<1>3. QED
  BY <1>2, QueueTypeCorrect, PTL DEF QueueSpec, ParkedStaysParked

-----------------------------------------------------------------------------
(* What keeps a leased job invisible, where its handler keeps to its       *)
(* lease: a worker has the job exactly while its lease runs, and the row   *)
(* is queued and leased at least as long.                                  *)
LeaseIsHeld(j) ==
  \A w \in Workers :
    /\ leaseLeft[w][j] > 0 <=> hand[w][j] # "none"
    /\ leaseLeft[w][j] > 0 =>
         /\ job[j].status = "queued"
         /\ leaseLeft[w][j] <= job[j].lease
         /\ \A v \in Workers \ {w} : leaseLeft[v][j] = 0

LeaseInv == QueueTypeOK /\ \A j \in Jobs \ Overrun : LeaseIsHeld(j)

LEMMA LeaseInit == QueueInit => LeaseInv
<1> SUFFICES ASSUME QueueInit, NEW j \in Jobs \ Overrun PROVE LeaseIsHeld(j)
  BY QueueInitTypeOK DEF LeaseInv
<1>1. QED
  BY DEF QueueInit, NoHands, LeaseIsHeld

(* A claimed job had no lease, so nobody had it; now one worker has.       *)
LEMMA ClaimKeepsLeases ==
  ASSUME QueueTypeOK, NEW w \in Workers, Claim(w), NEW j \in Jobs, LeaseIsHeld(j)
  PROVE  LeaseIsHeld(j)'
<1> USE DEF QueueTypeOK
<1>0. job[j] \in Job /\ job \in [Jobs -> Job] /\ \A v \in Workers : leaseLeft[v][j] \in Nat
  BY Settings
<1>1. PICK batch \in SUBSET Claimable :
        /\ job' = [i \in Jobs |-> IF i \in batch THEN Leased(job[i]) ELSE job[i]]
        /\ hand' = [hand EXCEPT ![w] = [i \in Jobs |-> IF i \in batch THEN "leased" ELSE "none"]]
        /\ leaseLeft' = [leaseLeft EXCEPT ![w] = [i \in Jobs |-> IF i \in batch THEN Lease ELSE 0]]
  BY DEF Claim
<1>2. \A v \in Workers \ {w} : hand'[v][j] = hand[v][j] /\ leaseLeft'[v][j] = leaseLeft[v][j]
  BY <1>1
<1>3. CASE j \in batch
  <2>1. job[j].status = "queued" /\ job[j].lease = 0
    BY <1>1, <1>3 DEF Claimable
  <2>2. \A v \in Workers : leaseLeft[v][j] = 0 /\ hand[v][j] = "none"
    BY <1>0, <2>1 DEF LeaseIsHeld
  <2>3. job'[j].status = "queued" /\ job'[j].lease = Lease
    BY <1>0, <1>1, <1>3, <2>1 DEF Leased, Job
  <2>4. hand'[w][j] = "leased" /\ leaseLeft'[w][j] = Lease
    BY <1>1, <1>3
  <2>5. QED
    BY <1>2, <2>2, <2>3, <2>4, Settings DEF LeaseIsHeld
<1>4. CASE j \notin batch
  <2>1. hand[w][j] = "none" /\ leaseLeft[w][j] = 0
    BY <1>0 DEF Claim, NoHands, LeaseIsHeld
  <2>2. hand'[w][j] = "none" /\ leaseLeft'[w][j] = 0 /\ job'[j] = job[j]
    BY <1>1, <1>4
  <2>3. QED
    BY <1>2, <2>1, <2>2 DEF LeaseIsHeld
<1>5. QED
  BY <1>3, <1>4

(* Whoever lets a job go was the only one to have it.                      *)
LEMMA LettingGoKeepsLeases ==
  ASSUME QueueTypeOK, NEW w \in Workers, NEW k \in Jobs,
         Complete(w, k) \/ HandBack(w, k) \/ LoseJob(w, k),
         NEW j \in Jobs, LeaseIsHeld(j)
  PROVE  LeaseIsHeld(j)'
<1> USE DEF QueueTypeOK
<1>1. /\ hand[w][k] # "none"
      /\ hand' = [hand EXCEPT ![w][k] = "none"]
      /\ leaseLeft' = [leaseLeft EXCEPT ![w][k] = 0]
  BY DEF Complete, HandBack, LoseJob, LetGo
<1>2. CASE j = k
  <2>1. \A v \in Workers \ {w} : leaseLeft[v][j] = 0 /\ hand[v][j] = "none"
    BY <1>1, <1>2 DEF LeaseIsHeld
  <2>2. \A v \in Workers : leaseLeft'[v][j] = 0 /\ hand'[v][j] = "none"
    BY <1>1, <1>2, <2>1
  <2>3. QED
    BY <2>2 DEF LeaseIsHeld
<1>3. CASE j # k
  <2>1. \A v \in Workers : hand'[v][j] = hand[v][j] /\ leaseLeft'[v][j] = leaseLeft[v][j]
    BY <1>1, <1>3
  <2>2. job'[j] = job[j]
    BY <1>3 DEF Complete, HandBack, LoseJob
  <2>3. QED
    BY <2>1, <2>2 DEF LeaseIsHeld
<1>4. QED
  BY <1>2, <1>3

(* Time takes as much off the lease a worker counts on as off the row.     *)
LEMMA TickKeepsLeases ==
  ASSUME QueueTypeOK, QueueTick, NEW j \in Jobs \ Overrun, LeaseIsHeld(j)
  PROVE  LeaseIsHeld(j)'
<1> SUFFICES ASSUME NEW w \in Workers
             PROVE  /\ leaseLeft'[w][j] > 0 <=> hand'[w][j] # "none"
                    /\ leaseLeft'[w][j] > 0 =>
                         /\ job'[j].status = "queued"
                         /\ leaseLeft'[w][j] <= job'[j].lease
                         /\ \A v \in Workers \ {w} : leaseLeft'[v][j] = 0
  BY DEF LeaseIsHeld
<1> USE DEF QueueTypeOK
<1>1. job[j] \in Job /\ job[j].lease \in Nat /\ \A v \in Workers : leaseLeft[v][j] \in Nat
  BY Settings DEF Job
<1>2. /\ \A v \in Workers : leaseLeft'[v][j] = Less(leaseLeft[v][j])
      /\ hand' = hand
      /\ hand[w][j] # "none" => leaseLeft[w][j] > 1
  BY DEF QueueTick
<1>3. job'[j].status = job[j].status /\ job'[j].lease = Less(job[j].lease)
  BY <1>1 DEF QueueTick, Job
<1>4. leaseLeft'[w][j] > 0 <=> hand'[w][j] # "none"
  BY <1>1, <1>2 DEF LeaseIsHeld, Less
<1>5. ASSUME leaseLeft'[w][j] > 0
      PROVE  /\ job'[j].status = "queued"
             /\ leaseLeft'[w][j] <= job'[j].lease
             /\ \A v \in Workers \ {w} : leaseLeft'[v][j] = 0
  <2>1. leaseLeft[w][j] > 0
    BY <1>1, <1>2, <1>5 DEF Less
  <2>2. job[j].status = "queued" /\ leaseLeft[w][j] <= job[j].lease
    BY <2>1 DEF LeaseIsHeld
  <2>3. leaseLeft'[w][j] <= job'[j].lease
    BY <1>1, <1>2, <1>3, <2>1, <2>2 DEF Less
  <2>4. \A v \in Workers \ {w} : leaseLeft'[v][j] = 0
    BY <1>2, <2>1 DEF LeaseIsHeld, Less
  <2>5. QED
    BY <1>3, <2>2, <2>3, <2>4
<1>6. QED
  BY <1>4, <1>5

LEMMA LeaseStep == LeaseInv /\ [QueueNext]_queueVars => LeaseInv'
<1> SUFFICES ASSUME LeaseInv, [QueueNext]_queueVars, NEW j \in Jobs \ Overrun
             PROVE  LeaseIsHeld(j)'
  BY QueueStepTypeOK DEF LeaseInv
<1>0. QueueTypeOK /\ LeaseIsHeld(j)
  BY DEF LeaseInv
<1>1. ASSUME NEW k \in Jobs, NEW payload \in Payloads, NEW delay \in Delays, Enqueue(k, payload, delay)
      PROVE  LeaseIsHeld(j)'
  <2>1. job[j].status = "queued" => job'[j] = job[j]
    BY <1>0, <1>1 DEF Enqueue, QueueTypeOK
  <2>2. hand' = hand /\ leaseLeft' = leaseLeft
    BY <1>1 DEF Enqueue
  <2>3. QED
    BY <1>0, <2>1, <2>2 DEF LeaseIsHeld
<1>2. ASSUME NEW w \in Workers, Claim(w) PROVE LeaseIsHeld(j)'
  BY <1>0, <1>2, ClaimKeepsLeases
<1>3. ASSUME NEW w \in Workers, NEW k \in Jobs, Start(w, k) PROVE LeaseIsHeld(j)'
  <2>1. \A v \in Workers : hand'[v][j] # "none" <=> hand[v][j] # "none"
    BY <1>0, <1>3 DEF Start, QueueTypeOK
  <2>2. QED
    BY <1>0, <1>3, <2>1 DEF Start, LeaseIsHeld
<1>4. ASSUME NEW w \in Workers, NEW k \in Jobs, Complete(w, k) \/ HandBack(w, k) \/ LoseJob(w, k)
      PROVE  LeaseIsHeld(j)'
  BY <1>0, <1>4, LettingGoKeepsLeases
<1>5. ASSUME NEW w \in Workers, NEW k \in Jobs, NEW ok \in BOOLEAN, HandlerReturns(w, k, ok)
      PROVE  LeaseIsHeld(j)'
  <2>1. \A v \in Workers : hand'[v][j] # "none" <=> hand[v][j] # "none"
    BY <1>0, <1>5 DEF HandlerReturns, QueueTypeOK
  <2>2. QED
    BY <1>0, <1>5, <2>1 DEF HandlerReturns, LeaseIsHeld
<1>6. ASSUME NEW w \in Workers, CrashWorker(w) PROVE LeaseIsHeld(j)'
  <2>1. /\ hand'[w][j] = "none" /\ leaseLeft'[w][j] = 0
        /\ \A v \in Workers \ {w} : hand'[v][j] = hand[v][j] /\ leaseLeft'[v][j] = leaseLeft[v][j]
    BY <1>0, <1>6 DEF CrashWorker, NoHands, QueueTypeOK
  <2>2. QED
    BY <1>0, <1>6, <2>1 DEF CrashWorker, LeaseIsHeld
<1>7. CASE QueueTick
  BY <1>0, <1>7, TickKeepsLeases
<1>8. CASE UNCHANGED queueVars
  BY <1>0, <1>8 DEF queueVars, LeaseIsHeld
<1>9. QED
  BY <1>1, <1>2, <1>3, <1>4, <1>5, <1>6, <1>7, <1>8 DEF QueueNext, Dispatch

(* No two workers hold running leases on one job, unless its own handler   *)
(* may outlast its lease: for any number of workers, batches and leases.   *)
THEOREM LeasedIsInvisible == QueueSpec => []InvisibleWhileLeased
<1>1. LeaseInv => InvisibleWhileLeased
  BY DEF LeaseInv, LeaseIsHeld, InvisibleWhileLeased
<1>2. QED
  BY <1>1, LeaseInit, LeaseStep, PTL DEF QueueSpec

-----------------------------------------------------------------------------
(* The map's entries are counted as the table's rows are.                  *)
LEMMA SameCount == \A S : Memory!Cardinality(S) = Cardinality(S)
BY DEF Memory!Cardinality, Cardinality

(* The operator reads the same depth of the table and of the map.          *)
LEMMA DepthAgrees == QueueTypeOK => Depth = Memory!Depth(job)
<1> SUFFICES ASSUME QueueTypeOK PROVE Depth = Memory!Depth(job)
  OBVIOUS
<1> DEFINE queued == {j \in Jobs : job[j].status = "queued"}
           parked == {j \in queued : IsParked(j)}
           claimed == {j \in queued \ parked : job[j].lease > 0}
           ready == {j \in queued \ (parked \union claimed) : job[j].wait = 0}
<1>1. \A j \in Jobs : job[j].lease \in Nat
  BY Settings DEF QueueTypeOK, Job
<1>2. Memory!Depth(job) = [ready |-> Cardinality(ready), claimed |-> Cardinality(claimed),
                           parked |-> Cardinality(parked)]
  <2>1. Memory!Entries(job) = queued
    BY DEF Memory!Entries
  <2>2. {j \in Memory!Entries(job) : Memory!IsParked(job[j])} = parked
    BY <2>1 DEF Memory!IsParked, IsParked
  <2>3. {j \in Memory!Entries(job) \ parked : Memory!IsClaimed(job[j])} = claimed
    BY <2>1 DEF Memory!IsClaimed
  <2>4. {j \in Memory!Entries(job) \ (parked \union claimed) : Memory!IsDue(job[j])} = ready
    BY <2>1 DEF Memory!IsDue
  <2> HIDE DEF parked, claimed, ready
  <2>5. QED
    BY <2>2, <2>3, <2>4, SameCount DEF Memory!Depth
<1>3. parked = {j \in Jobs : job[j].status = "queued" /\ IsParked(j)}
  OBVIOUS
<1>4. claimed = {j \in Jobs : job[j].status = "queued" /\ ~IsParked(j) /\ job[j].lease > 0}
  OBVIOUS
<1>5. ready = {j \in Jobs : job[j].status = "queued"
                            /\ ~IsParked(j) /\ job[j].wait = 0 /\ job[j].lease = 0}
  BY <1>1
<1>6. QED
  BY <1>2, <1>3, <1>4, <1>5 DEF Depth

(* What one statement takes is what the map's claim may take.              *)
LEMMA ClaimAgrees ==
  ASSUME QueueTypeOK, NEW w \in Workers, Claim(w)
  PROVE  job' \in Memory!Claims(job, BatchSize)
<1>1. PICK batch \in SUBSET Claimable :
        /\ \/ Cardinality(batch) = BatchSize
           \/ Cardinality(batch) < BatchSize /\ batch = Claimable
        /\ job' = [j \in Jobs |-> IF j \in batch THEN Leased(job[j]) ELSE job[j]]
  BY DEF Claim
<1>2. Claimable = Memory!claimable(job)
  <2>1. \A j \in Jobs : job[j].lease \in Nat
    BY Settings DEF QueueTypeOK, Job
  <2>2. QED
    BY <2>1 DEF Claimable, IsParked, Memory!claimable, Memory!Entries, Memory!IsDue,
                Memory!IsClaimed, Memory!IsParked
<1>3. /\ IsFiniteSet(Claimable) /\ IsFiniteSet(batch)
      /\ Cardinality(Claimable) \in Nat /\ Cardinality(batch) \in Nat
      /\ Cardinality(batch) <= Cardinality(Claimable)
  <2>1. IsFiniteSet(Claimable)
    BY AgreementAssumption, FS_Subset DEF Claimable
  <2>2. QED
    BY <2>1, FS_Subset, FS_CardinalityType
<1>4. Cardinality(batch) = IF Cardinality(Claimable) < BatchSize THEN Cardinality(Claimable)
                           ELSE BatchSize
  BY <1>1, <1>3, Settings
<1>5. job' = [j \in Jobs |-> IF j \in batch
                THEN [job[j] EXCEPT !.attempts = @ + 1, !.lease = Lease] ELSE job[j]]
  <2>1. ASSUME NEW j \in Jobs
        PROVE  Leased(job[j]) = [job[j] EXCEPT !.attempts = @ + 1, !.lease = Lease]
    BY DEF QueueTypeOK, Job, Leased
  <2>2. QED
    BY <1>1, <2>1
<1>6. QED
  <2>1. batch \in {taken \in SUBSET Claimable :
                      Cardinality(taken) = IF Cardinality(Claimable) < BatchSize
                                           THEN Cardinality(Claimable) ELSE BatchSize}
    BY <1>4
  <2>2. QED
    BY <1>2, <1>5, <2>1, SameCount DEF Memory!Claims

LEMMA EnqueueAgrees ==
  ASSUME QueueTypeOK, NEW j \in Jobs, NEW payload \in Payloads, NEW delay \in Delays,
         Enqueue(j, payload, delay)
  PROVE  job' = Memory!Enqueue(job, j, job'[j].payload, job'[j].wait)
<1> DEFINE new == [NoJob EXCEPT !.status = "queued", !.payload = payload, !.wait = delay]
<1>1. new = [status |-> "queued", payload |-> payload, wait |-> delay, attempts |-> 0, lease |-> 0]
  <2>1. new \in Job
    BY Settings DEF NoJob, Job
  <2>2. /\ new.status = "queued" /\ new.payload = payload /\ new.wait = delay
        /\ new.attempts = 0 /\ new.lease = 0
    BY DEF NoJob
  <2>3. \A row \in Job : row = [status |-> row.status, payload |-> row.payload, wait |-> row.wait,
                              attempts |-> row.attempts, lease |-> row.lease]
    BY DEF Job
  <2> HIDE DEF new
  <2>4. QED
    BY <2>1, <2>2, <2>3
<1>2. job'[j] = [status |-> "queued", payload |-> payload, wait |-> delay, attempts |-> 0, lease |-> 0]
  BY <1>1 DEF Enqueue, QueueTypeOK
<1>3. j \notin Memory!Entries(job)
  BY DEF Enqueue, Memory!Entries
<1>4. QED
  BY <1>1, <1>2, <1>3 DEF Enqueue, Memory!Enqueue

LEMMA LastStatementAgrees ==
  ASSUME QueueTypeOK, NEW w \in Workers, NEW j \in Jobs, Complete(w, j) \/ HandBack(w, j)
  PROVE  job' = IF hand[w][j] = "complete" THEN Memory!Complete(job, j)
                ELSE Memory!Release(job, j, RetryBackoff)
BY DEF Complete, HandBack, Removed, Memory!Complete, Memory!Release, Memory!Entries

(* Which step it was that a worker let a job go by, or took one.           *)
LEMMA StepsOfAHand ==
  ASSUME QueueTypeOK, [QueueNext]_queueVars, NEW w \in Workers
  PROVE  /\ hand[w] = NoHands /\ hand'[w] # NoHands => Claim(w)
         /\ \A j \in Jobs :
              hand[w][j] \in {"complete", "handBack"} /\ hand'[w][j] = "none" /\ job' # job =>
                Complete(w, j) \/ HandBack(w, j)
<1> DEFINE Result ==
         /\ hand[w] = NoHands /\ hand'[w] # NoHands => Claim(w)
         /\ \A j \in Jobs :
              hand[w][j] \in {"complete", "handBack"} /\ hand'[w][j] = "none" /\ job' # job =>
                Complete(w, j) \/ HandBack(w, j)
<1> USE DEF QueueTypeOK
<1>1. ASSUME NEW u \in Workers, Claim(u) PROVE Result
  <2>1. w # u => hand'[w] = hand[w]
    BY <1>1 DEF Claim
  <2>2. w = u => hand[w] = NoHands
    BY <1>1 DEF Claim
  <2>3. QED
    BY <1>1, <2>1, <2>2 DEF NoHands
<1>2. ASSUME NEW u \in Workers, NEW k \in Jobs, Dispatch(u, k) PROVE Result
  <2>1. hand[u][k] # "none" /\ \A v \in Workers, i \in Jobs :
          v # u \/ i # k => hand'[v][i] = hand[v][i]
    <3>1. CASE Start(u, k)
      BY <3>1 DEF Start
    <3>2. CASE Complete(u, k) \/ HandBack(u, k) \/ LoseJob(u, k)
      BY <3>2 DEF Complete, HandBack, LoseJob, LetGo
    <3>3. QED
      BY <1>2, <3>1, <3>2 DEF Dispatch
  <2>2. hand[w] = NoHands => hand'[w] = NoHands
    <3>1. hand[w] = NoHands => w # u
      BY <2>1 DEF NoHands
    <3>2. w # u => hand'[w] = hand[w]
      BY <1>2 DEF Dispatch, Start, Complete, HandBack, LoseJob, LetGo
    <3>3. QED
      BY <3>1, <3>2
  <2>3. job' # job => Complete(u, k) \/ HandBack(u, k)
    BY <1>2 DEF Dispatch, Start, LoseJob
  <2>4. QED
    BY <2>1, <2>2, <2>3
<1>3. ASSUME NEW u \in Workers, NEW k \in Jobs, NEW ok \in BOOLEAN, HandlerReturns(u, k, ok)
      PROVE  Result
  <2>1. hand[w] = NoHands => w # u
    BY <1>3 DEF HandlerReturns, NoHands
  <2>2. hand[w] = NoHands => hand'[w] = NoHands
    BY <1>3, <2>1 DEF HandlerReturns
  <2>3. QED
    BY <1>3, <2>2 DEF HandlerReturns
<1>4. ASSUME NEW u \in Workers, CrashWorker(u) PROVE Result
  BY <1>4 DEF CrashWorker
<1>5. CASE hand' = hand
  BY <1>5
<1>6. QED
  BY <1>1, <1>2, <1>3, <1>4, <1>5 DEF QueueNext, queueVars, QueueTick, Enqueue

(* Whatever any number of runners does to the table, in time or late, is   *)
(* what the map of the fast tests makes of the same call.                  *)
THEOREM QueueAgrees == QueueSpec => AgreesWithMemoryQueue
<1> DEFINE Agrees ==
      /\ Depth = Memory!Depth(job)
      /\ \A w \in Workers :
           hand[w] = NoHands /\ hand'[w] # NoHands => job' \in Memory!Claims(job, BatchSize)
      /\ \A w \in Workers, j \in Jobs :
           hand[w][j] \in {"complete", "handBack"} /\ hand'[w][j] = "none" /\ job' # job =>
             job' = IF hand[w][j] = "complete" THEN Memory!Complete(job, j)
                    ELSE Memory!Release(job, j, RetryBackoff)
      /\ \A j \in Jobs :
           job[j].status = "absent" /\ job'[j].status = "queued" =>
             job' = Memory!Enqueue(job, j, job'[j].payload, job'[j].wait)
<1>1. ASSUME QueueTypeOK, [QueueNext]_queueVars PROVE [Agrees]_queueVars
  <2>1. CASE UNCHANGED queueVars
    BY <2>1
  <2>2. CASE QueueNext
    <3>1. \A w \in Workers :
            hand[w] = NoHands /\ hand'[w] # NoHands => job' \in Memory!Claims(job, BatchSize)
      BY <1>1, StepsOfAHand, ClaimAgrees
    <3>2. ASSUME NEW w \in Workers, NEW j \in Jobs,
                 hand[w][j] \in {"complete", "handBack"}, hand'[w][j] = "none", job' # job
          PROVE  job' = IF hand[w][j] = "complete" THEN Memory!Complete(job, j)
                        ELSE Memory!Release(job, j, RetryBackoff)
      BY <1>1, <3>2, StepsOfAHand, LastStatementAgrees
    <3>3. ASSUME NEW j \in Jobs, job[j].status = "absent", job'[j].status = "queued"
          PROVE  job' = Memory!Enqueue(job, j, job'[j].payload, job'[j].wait)
      <4>1. PICK payload \in Payloads, delay \in Delays : Enqueue(j, payload, delay)
        BY <1>1, <3>3, AbsentUntilEnqueued
      <4>2. QED
        BY <1>1, <4>1, EnqueueAgrees
    <3>4. QED
      BY <1>1, <3>1, <3>2, <3>3, DepthAgrees
  <2>3. QED
    BY <1>1, <2>1, <2>2
<1>2. QED
  BY <1>1, QueueTypeCorrect, PTL DEF QueueSpec, AgreesWithMemoryQueue
=============================================================================
