# Trial booking: a TLA+ model of seats, money, sessions and reads

The program lets parents book a seat for a child in a trial class. A parent
holds a place, pays, and is given a seat if one is still free; a parent who paid
and lost the race gets the money back from a background worker. This directory
models the state that has to stay right while all of that runs concurrently, on
two kinds of process (`cmd/api`, `cmd/worker`), one Postgres with a replica, one
Redis, a payment provider that may not answer, and a browser whose tabs share one
cookie jar.

Contents: [inventory](#1-inventory), [modules](#2-modules-and-how-they-follow-the-code),
[runs](#3-runs-and-what-they-show), [fairness](#4-fairness),
[proofs](#5-proofs), [disagreements](#6-where-the-documents-and-the-code-disagree),
[limits](#7-what-is-not-modelled), [plan](#8-plan).

`tlasany M.tla`, `tlc -config X.cfg MCM.tla` and `tlapm XProofs.tla` (for `Booking`, `Payment`, `Queue`, `Checkout`,
`Session`, `Read`, `Edge` and `Attempt`), run in this directory, parse, check and prove. `PROJECT.json` lists every run with
its properties, the lines each definition models, and the hazards.

## 1. Inventory

Paths are under `src/backend/internal` unless they start with `src/`.

| part | state | operations | hard because | right when | here |
|---|---|---|---|---|---|
| `booking` on Postgres | `bookings`, `booking_events`, row locks | Hold, Confirm, Cancel, Fail, Expire | several statements per transaction at READ COMMITTED; two lock levels | seats exclusive, one live booking per child, statuses follow the table, trail complete, no deadlock | `BookingTransactions`, proved |
| `booking` in memory | two maps under a mutex | the same five | the fast tests believe it | what Postgres commits is what it stores | `MemoryRepository`, `BookingAgreement`, proved |
| `payment` | `payment_attempts`; the provider's own memory | Pay, Refund, replay | the provider call sits between two statements, its answer may be lost | one charge per key, the table is true, one refund per charge | `Payments`, `MemoryAttempts`, proved |
| `queue` | `job_queue` | Enqueue, Claim, Complete, Release, Depth | leases lapse while their holder works | no double lease, no dropped job, parking | `JobQueue`, `MemoryQueue`, proved |
| `worker` | the batch in hand | poll, dispatch, hand back; expire a hold; reconcile a refund | crashes between a handler's effect and the job's deletion | every job settles; handlers may run twice | `JobQueue`, `Checkout` |
| `checkout` | none of its own | Hold then schedule; charge, confirm, queue the refund | four commits, any of which may be the last | money and seat agree, a debt is paid | `Checkout`; its safety proved |
| `httpx` | none; headers and the cached bodies | the guard chains; create, pay, cancel; conditional reads | checks before a charge, invalidation after a commit | a cached count is not older than its lifetime | `RequestChecks`, `ApiEdge`, `ResponseCache`; routes in `Checkout` |
| `auth` | `refresh_tokens`, the denylist in Redis, cookies | LogIn, Refresh (rotate), LogOut, Authenticate | rotation, reuse and family revocation race | one live token per family; a withdrawn token stays refused | `RefreshTokens`, `Session`, `MemoryTokens`; safety proved |
| `cache` | a version and a body per key in Redis | Entry, Save, Version, Invalidate | a fill races an invalidation | a tag never names two bodies | `ResponseCache` |
| `ratelimit` | a bucket per caller in Redis | Allow | clocks of two instances, rounding, one bucket under two rules | never more than burst + refill; the wait that is told suffices | `TokenBucket`, `ApiEdge`, proved |
| `faults` | armed points, per process | Arm, Trigger, List, Disarm | counts and deadlines under a mutex | a point fires at most as often as it was armed | `FaultRegistry`, `ApiEdge`, proved |
| `captcha` | a count of what it was asked | Verify | asked last, may be out of reach | nobody is asked about who has not paid with a token | `RequestChecks`, `ApiEdge`, proved |
| `catalogue`, `roster` | none | reads of a replica | lag | see `cache` | the class list's query is in `ResponseCache` |
| `operations`, `observability`, `config`, `database`, `identifier`, `bootstrap` | none that anything reads back | reads, logs, wiring | - | - | not modelled |
| `src/frontend`: payment attempt | the key of the attempt, the booking on screen | create, pay, load, reset | answers out of order, keys kept or renewed | a key is one parent's and is done when declined | `PaymentAttempt`, proved |
| `src/frontend`: session | the refresh in flight | call, refresh, retry, sign in and out | one refresh for many callers, tabs that share the jar | a rotated token is never sent twice by the tab that rotated it | `Session`; safety proved |
| `src/frontend`: read cache | entries with a tag and an age; the answer the browser itself keeps | read, revalidate, invalidate | a revalidation overtakes a mutation; the browser may answer in the api's place | nothing shown is older than its lifetimes added up | `ReadCache`; safety proved |
| screens, countdown, telemetry, containers, scripts | - | - | - | - | not modelled |

How they interact: the http routes call `checkout` (create, pay) and `booking`
(cancel); `checkout` calls `booking`, `payment` and `queue`, one commit each;
the worker claims jobs from `queue` and its handlers call `booking` (Expire,
Cancel) and `payment` (Refund). Whatever the processes share is in Postgres, and the
advisory parts (denylist, cached bodies, buckets) in Redis. A tab talks to the api
through one client, which refreshes the session for all of its calls, and keeps the
class list in a cache of its own, over the browser's HTTP cache and the api's.

## 2. Modules and how they follow the code

```
BookingRules              SeatLedger      ChargeLedger
   |       \                 ^ implements    ^ implements
   |     BookingTransactions-+           Payments    JobQueue
   |           |                          |   \       /   |
   |     BookingInvariant                 |  Checkout     |
   |           |                          |               |
MemoryRepository = BookingAgreement   PaymentAgreement   QueueAgreement
                                      = MemoryAttempts   = MemoryQueue

RefreshTokens--Session--SessionAgreement = MemoryTokens

ResponseCache--ReadCache          PaymentAttempt

TokenBucket, FaultRegistry, RequestChecks--ApiEdge

BookingAgreement--BookingProofs   SessionAgreement--SessionProofs
PaymentAgreement--PaymentProofs   ApiEdge--EdgeProofs
QueueAgreement--QueueProofs       PaymentAttempt--AttemptProofs
Checkout--CheckoutProofs          ReadCache--ReadProofs
  = PaymentProofs, QueueProofs
```

`--` is EXTENDS, `=` is INSTANCE of the module whose answers are compared, or whose theorems are used.
The `...Proofs` modules hold the invariants, the lemmas and the theorems. The `MC...` modules only add model values, symmetry sets and initial
states for TLC. Definitions marked "Mutation" are plausible bugs; nothing refers to them.
They stand before the definition they would replace and serve to show that each
property can fail.

### Seats

**`BookingRules`**: the pure rules (`status.go`, `hold.go`, `seat.go`): the arrows
between statuses, what a live hold is, how many holders a class takes, the lowest
free seat.

**`BookingTransactions`**: `repository_postgres.go`, one action per statement. A
session `tx[t]` stands at the statement it will run next; `classLock` and
`rowLock` are the `FOR UPDATE` locks. A write stays with its session until
`Commit` publishes it with its audit line and gives the locks back, which is what
READ COMMITTED shows to the others. `Abort` is every way a transaction can be rolled
back: an injected fault, a timeout, a dropped connection, a crash. The two partial
unique indexes are deliberately not in the model: the invariants say the locks
leave them nothing to refuse.

| code | action |
|---|---|
| `Hold` | `BeginHold`, `LockClass`, `CountDuplicates`, `CountStanding`, `CountHolders`, `Commit` |
| `Confirm` | `BeginConfirm`, `LockClass`, `LockRow`, `ChooseSeat`, `Commit` |
| `Cancel`, `Fail`, `Expire` | `BeginEnding`, `LockRow`, `Commit` |

**`SeatLedger`** is what that promises, with no lock or status in it: a seat is only
given to a holder and only while nobody owns it; a holder is only owed money
after the class was found full. `ImplementsLedger` says the transactions refine it.

**`MemoryRepository`** is `repository_memory.go`, each operation a function from what is
stored to an answer and what is stored after. **`BookingAgreement`** holds it against the
transactions: what hold, cancel, fail and expire commit is what it would have stored at the
instant of the commit; for confirm the instant is that of the seat query. A hold of a parent who has
holds in other classes is excepted (`HeldElsewhere`): the cap is counted across classes under the lock of one,
so one more may commit elsewhere between the count and the commit. The contract tests
compare the two one call at a time; here the Postgres side runs among others.

### Money and background work

**`Payments`**: `payment/service.go`, `refund.go`, `repository_postgres.go` and the
provider. `call[c]` is one Pay: `LookUp`, `Insert` (which answers from the winner's
row when the unique index on booking and key refuses it), `Charge`, `Settle`.
`refund[w]` is one Refund: `FindSettled`, `SendBack`. `Break` and `BreakRefund` are
the error returns, with a write that was lost and with one that was not. The provider
settles, declines, or cannot be reached; in the last case nobody knows whether money
moved, so both are possible. The provider remembers its refund keys, as the package
asks of it; in `Checkout`, `ProviderForgets` says whether they die with a worker, as those of the
mock do, which both processes are built with (one store for all workers, where each has its
own). The unique index is part of this model, because this package relies on it.

**`ChargeLedger`** is the promise: under one key of one booking money moves at most
once, what is recorded is true and final, and it moves back at most once.

**`MemoryAttempts`**, **`PaymentAgreement`**: the map of `payment/repository_memory.go`, and
that whatever `Payments` answers or stores is what the map would have, had it been asked in
one piece then. The map's foreign key to bookings is taken to hold. Lists of attempts are left
out: the map lists in the order of insertion, the table by `created_at`.

**`JobQueue`**: `queue_postgres.go` and `worker/runner.go`. `job[j]` is a row,
`hand[w][j]` where worker `w` is with a job it claimed, `leaseLeft[w][j]` the part of the
lease `w` still has, which the code does not look at. `Claim` is one statement and one
action; a runner polls when its batch is through. `Complete` and `HandBack` name the job
by its identifier only, as the code does. `Overrun` is the set of jobs whose handler may outlast
its lease: nothing in the code stops one. Instants are kept as the time
that is left, so time may run forever in finitely many states.

**`MemoryQueue`**, **`QueueAgreement`**: the map of `queue_memory.go`. Each claim, completion,
release and enqueue of a runner leaves what the map would have left, stale ones included, and
the depth an operator reads is the map's. Jobs that became due at the same instant are ordered
by their identifier, which the model leaves open on both sides.

**`Checkout`** puts `Payments` and `JobQueue` (as instances on its own variables)
beside one-step booking transactions, and adds the two things that neither has: the
order in which `checkout/hold.go` and `checkout/pay.go` call them, and the
worker's two handlers. A crash of either process is possible between any two steps.

| code | action |
|---|---|
| `checkout.Hold` | `Hold`, then `ScheduleExpiry` or `LoseExpiry` |
| `checkout.Pay` | `Pay`, `Charging` (the steps of `Payments`), `Charged`, `Confirm` or `ConfirmBreaks`, `QueueRefund` or `LoseRefund`; `EndOnDecline` |
| the cancel route | `Cancel` |
| `ExpireHoldHandler` | `HandleExpire` |
| `ReconcileRefundHandler` | `HandleRefund`, `Refunding`, `CloseRefunded` |
| `Runner` | `Runner` (the steps of `JobQueue`), `FailJob`, `CrashWorker` |

Collapsing a booking transaction to one step is justified by `BookingTransactions`: each
takes effect at its commit, and what it read under its locks is still true then
(`ReadsStayTrue` of the inductive invariant, proved). Whether a seat is free is left open in
`Decide`, since the other families of the class are not in this module.

### Sessions

**`RefreshTokens`**: `auth/service.go`, `store_postgres.go`, the guard of `middleware.go`,
`denylist_redis.go` and the handlers of `handler.go`. `req[r]` is a request with the
cookies it carries; a refresh token and the access token signed with it are one member of
`Tokens`. The denylist forgets at an instant of its own and ignores the one it is asked with
(`denylist_redis.go:80`); one that cannot be reached answers as if the token were withdrawn, and the
client signs out.

| code | action |
|---|---|
| `Guard.Authenticate` | `Verify`, `CheckDenylist`, `DenylistUnreachable` |
| `Service.Refresh`, `Rotate` | `BeginRefresh`, `LockAndJudge`, `Rotate`, `Sign`; after a reuse `StartRevoke`, `Revoke` |
| `LogOut` | `Withdraw`, `StartRevoke`, `Revoke` |
| `LogIn` | `Issue` or `RefuseLogIn`, `Sign` |
| a statement or the network fails | `Fault`, `Lose` |

The update that ends a family is two actions, because at READ COMMITTED it picks its rows
when it starts and waits for them afterwards.

**`Session`** is the browser half (`api/client.ts`, `api/refresh.ts`, `stores/auth.ts`): one
cookie jar with the lives of its cookies, the tabs that share it, and per tab the one refresh
that all its calls wait for (`AskRefresh`, `ReceiveRefresh`), the one retry, and what is shown.

**`MemoryTokens`**, **`SessionAgreement`**: the maps of `store_memory.go` and
`denylist_memory.go` held against the table and Redis: a refresh is judged as the map would
judge it, what is written is what it would have stored, and a family's update picks what
it would have ended.

### Reads

**`ResponseCache`**: `httpx/conditional.go` over `cache/store_redis.go` and a replica that lags.
A read is `ServeStored`, or `Miss`, `Build`, `ReadVersion`, `Publish`; a write is `Commit`,
then `Invalidate`, and each call may fail. A tag is the version and the digest; a content stands for
the bytes of one answer. Instants are not stored: a body carries the lifetime it has left, and the
history variable `gone` says how long ago the primary last had each content.

**`ReadCache`** puts the client's cache over it (`cache/read_through.ts`, `policy.ts`, `store.ts`,
`mutation.ts`): `ServeFresh`, `ServeStale`, `AskFirst` are the three tiers, `TakeBody`,
`TakeNotModified` and `TakeFailure` the answers, `EndWrite` the mutator, `SignOut` and `Reload` the
ways an entry is dropped or comes back. A 304 restamps whatever entry is held when it
arrives. The subscription of `read_through.ts:88` has no subscriber for the class list, so a
background answer never changes the screen. A call is taken to be answered or given up within
`Patience` ticks. The server's side has deadlines for that; the browser's transport has none.

Between the two is the HTTP cache of the browser. Class reads leave the api with `private, max-age=5,
stale-while-revalidate=30` (`httpx/response.go:20`) and the client fetches in the default mode
(`src/frontend/src/lib/api/transport.ts:76`), so the browser may `Keep` an answer to a call without a tag, and
`AnswerFromBrowser` gives it, up to 5 seconds old, or up to 35 with a `Revalidation` of its own started behind
it, to the next load that has no tag: after a sign-out, in a tab whose storage is empty or was refused, before the first
answer was stored. A load with a tag sets `If-None-Match` itself (`api/client.ts:174`), which makes the browser go
round its cache. What the browser keeps or drops is its own affair, so both are choices; no invalidation of the
client reaches the copy, and an answer from it enters the client's cache as new.

### The edge of the api

**`TokenBucket`**: `ratelimit/bucket.go` in exact arithmetic (a token is cut in as many parts as
both intervals need), with the expiry of the hash. **`FaultRegistry`**: `faults/registry.go`, each
method one step under its mutex. **`RequestChecks`**: the checks that keep no state: origin, role
and `httpx/botcheck.go` with its verifier.

**`ApiEdge`** puts them in the order of the router's chains. `Arrive` is what comes before the limiter
and reads the clock; `Allow` asks for one bucket, the account's and then the address's, so
other requests get in between and the instant is applied later than it was read; `Handle`
is the part of a handler that checks the form or reaches an injection point. What the code does
and the model keeps: reads and writes of one caller share a key under two rules, so a read
refills it at the read's rate and a write caps it to its own burst (`limiter.go:11-14`); an
instant that steps back is stored and the time after it is refilled twice
(`bucket.go:78-81`); a request without an address skips the second bucket; the token of the first is
spent even if the second refuses; the listing of the armed points is a GET under the rule of the writes
(`faults/handler.go:19`), so a limiter out of reach passes it on, as it does a read (`ratelimit.go:69`). The operator's
other reads are covered by the read route. A verifier
is taken to be wired.

### The payment attempt of a tab

**`PaymentAttempt`**: `stores/booking.ts`, `api/attempt.ts` and the screens that call them. `Create`,
`Pay`, `Mount`, `HoldReachedZero` send calls, `Serve...` answers each in one step as `Checkout` and
`Payments` show it, and `Receive...` applies the answer to whatever the store is by
then, also after a sign-out. What the code does and the model keeps: asking for a place always
starts a new key; a payment is for the booking in the address, while the form follows the
store; mounting the screen reads the booking again and so resets `submitting`; a screen is opened
late if its answer arrives late. A reload of the page loses the key; for the key's sake that is
a new tab, and is not an action of its own.

## 3. Runs and what they show

Every run that passes explores its whole instance.

| run | question | instance |
|---|---|---|
| `booking_seats` | do seats, live bookings, statuses, deadlines and trails stay consistent, does the cap hold within a class, can sessions wait in a circle, is it what the in-memory repository would have done? | 2 sessions, 3 bookings, 3 children of 2 parents, 1 seat, allowance 1, instants 0 and 1 |
| `booking_progress` | do the transactions refine the seat ledger, do standing holds fit the class, does every transaction end? | 2 sessions, 2 bookings, 1 seat, allowance 0, fair |
| `payments_charge` | is each key charged and refunded once, is the table true, is it the charge ledger, is it the in-memory repository? | 2 calls and 2 refunds at a time, 3 attempts, 2 keys, 2 amounts |
| `queue_leases` | is a job leased to one worker at a time, is work dropped, does every job settle, is it the in-memory queue? | 2 workers, 2 jobs of which one may outlast its lease, batch 2, lease 3, 2 attempts per job, fair |
| `checkout_money` | does money back every seat and every debt and a decline every failed payment, do overlapping workers close only what was refunded and never a kept seat? | 2 requests, 2 workers, overruns, withdrawals, 2 attempts, 1 booking, 2 keys |
| `checkout_progress` | is a debt settled, an abandoned hold released? | 1 request, 1 worker, overruns, a forgetful provider, fair |
| `sessions` | one live token per family, does a withdrawn token stay refused, does a tab reuse its own token, is it the in-memory store, does every call settle? | 2 tabs (2 calls and 1), 3 token pairs, access life 1, refresh life 2, instants 0 to 2, 2 calls started, fair |
| `reads` | how old is what is rendered, does the screen catch up with the primary? | 1 load, the background and the browser's own confirmation, this browser's write, 2 contents, lifetime 1, max-age 1 and a tick past it, fresh 1, stale 2, no lag, fair |
| `edge` | does a bucket let through more than it may, does the wait that is told suffice, does a point fire as armed, is the verifier only asked about who paid? | 2 requests, one bucket (no address), bursts 2 and 1, intervals 1 and 2, instants 0 to 3, 2 questions, 1 point |
| `attempt_keys` | is a key ever two parents', is a declined key sent again? | 2 parents, 1 booking, 2 calls at a time, 3 keys, 1 visit |

Two runs are expected to be violated; they are in section 6.

Why the bounds are enough. Two sessions are enough for every race between two
transactions, and the invariants proved in section 5 hold for any number; three
bookings are one seat, one that takes it and one that arrives meanwhile. Two
instants are before and at a deadline. Three attempts let a key be retried and
another key be used beside it. Two workers and two jobs let a batch hold both and let one
worker's lease end inside the other's. Two attempts per job
are one retry and the parking. One booking is enough in `Checkout` because nothing there
relates two bookings: rivalry for seats is `BookingTransactions`' subject. `sessions` starts
signed in on both tabs (`MCSession.SignedIn`), which saves the calls to get there: two refreshes can
race, a sign-out can race either, and the access token, the refresh token and the cookies
each run out. In `reads` the instant of a tick is where the lifetimes end; with `Patience = 0`
a tick waits until every call is through, and every interleaving within the tick is still there.
It starts from one of the two contents, which are alike, and an action constraint keeps it to two reads under way at a
time, any two of the three (`InPairs`). The safety part also passed with all three at once (1.2 million states), and with
`Patience = 1` and no time past max-age. `checkout_money` tells states apart without the two histories
its properties do not name (`MCCheckout.Seen`).
In `edge` the bursts differ and so do the rates, and the clock is long enough for a hash to be forgotten.
`WithinTheRefill` and `ToldWaitSuffices` speak of one bucket at a time, and the requests that share it
are those that can disturb it; the run leaves the second one out.
Bounds that cut something off: `MaxTime`, `MaxAttempts` (attempts minted), `MaxJobAttempts` (a
real setting, small here), `MaxCalls`, `MaxCommits`, `Horizon` (above `StaleBound`), `MaxAsked`, `MaxKeys`,
`MaxVisits`, and the finite sets of jobs, bookings and tokens.

Runs that check deadlock: those without `CHECK_DEADLOCK FALSE`. The others stop where a bound
ends them or where everybody is done.

The type invariants are not spent a run on: all are proved (section 5). `SeatIsNeverSwapped` and
`ParkedStaysParked` are proved and not run; `NeverLeftWaiting` (with `FairSpec`) passes and is not run.

What the less obvious properties say:

- `StandingHoldNeverExpires`: Expire compares the deadline with an instant it read before
  it waited for the row; a hold that stands is still never taken.
- `AgreesWithMemory`, `AgreesWithMemoryAttempts`, `AgreesWithMemoryQueue`, `AgreesWithMemoryTokens`:
  whatever the statements on Postgres answer and store, in pieces and among others, one
  call of the map at the instant of the commit would have answered and stored. `AgreesWithMemory`
  also compares the two reads that decide nothing, the live booking and the seats remaining. It speaks of
  the counts a hold makes only where no other class counts (`HeldElsewhere`, section 5).
- `TableTellsTheTruth`: a settled row agrees with what the provider did, and a caller who is
  told "paid" or "declined" is told what the row says.
- `InvisibleWhileLeased`: a job whose holder kept to its lease is claimed by nobody else.
- `NoWorkIsDropped`: a job only leaves the table after some handler finished it,
  even with stale releases and completions of workers whose lease is long over.
- `MoneyBacksStatus`: a seat or a debt implies a settled charge.
- `FailedRestsOnADecline`: a booking ends on a failed payment only where the provider declined a charge of
  it. That no other key of it was charged, which `status.go:19` says, is false (section 6).
- `SeatOrMoney`: a refunded booking never holds a seat. It needs the guard in Confirm: a
  retry of a paid key runs Confirm again while the refund is under way.
- `ClosedMeansRefunded`: the worker closes a booking after the refund, never before.
- `OwedIsSettled`, `HeldIsReleased`: as long as the job was written, it gets there or parks.
  Without a job nothing comes back for the booking; that gap is `RefundIsQueued` below.
- `OneLiveTokenPerFamily`: two refreshes with one token, or one and a sign-out, never leave two.
- `OwnRefreshIsNoReuse`: however many calls of a tab find the token expired, the tab does not
  present a token again whose successor it has; that would end the family.
- `WithdrawnIsRefused`: the denylist outlives the signature, with the clock read in between.
- `RenderedIsRecent`: what is shown left the primary at most `StaleBound` ago: the lag, the
  lifetime of the stored body, max-age and stale-while-revalidate of the browser's copy, the stale window of the
  client, and the time a call takes at four places. In `reads`, with one tick less it fails.
- `ScreenCatchesUp`: once writes are over, who keeps opening the list gets the primary's count.
- `WithinTheRefill`: a bucket allows its burst and the refill of the time between its instants,
  steps back of a clock included.
- `AskedIsPaidFor`: what the limiter refused, or could not judge, never reaches the verifier.
- `KeysAreNotShared`: a late answer of a previous parent may mint a key; the next parent never sends it
  under a key of theirs.
- `DeclinedKeyIsDone`: whatever arrives before or after, a declined key is not sent again.

## 4. Fairness

- `BookingTransactions`: weak fairness for the statements of an open transaction (a
  handler runs on), strong fairness for taking a lock (Postgres queues waiters, so one whose
  lock is released again and again gets it). Nothing makes a request arrive.
- `JobQueue`: weak fairness for time, for each runner's poll (`Runner.Run` loops until it is
  cancelled) and for each job in hand (`dispatchBatch` waits for all). Crashes have no
  fairness: they may never happen or happen forever. A crash loop still ends, since each
  claim spends an attempt.
- `Checkout`: weak fairness for time and for each worker's work as a whole. Nothing is asked
  of the requests, which may die anywhere, nor of the provider, which may refuse to answer
  every time; then the job parks.
- `Session`: weak fairness for a handler's steps and for the arrival of an answer, strong fairness
  for taking a row lock. Nothing makes a call start; an answer may be lost, which the client sees as a
  failure.
- `ReadCache`: weak fairness for the steps of a call, for the arrival or loss of its answer, for a write once it was
  started, for loading the list again and for the replica; strong fairness for time, and for `Build` and for an answer
  that arrives (`Takes`) of a parent's load, so that a replica or a network that fails now and then does not fail
  forever. Without it nothing could catch up. Nothing makes a write start or succeed, and nothing the browser's cache
  or the background confirmation do has to succeed.

## 5. Proofs

Every safety property that a passing run checks is also proved with TLAPS, for every value of the
constants: any number of sessions, workers, calls, bookings, classes, keys, tokens, jobs and lifetimes. So are the
two refinements, the agreements with the four in-memory implementations and all type invariants. The runs
show that the properties are not empty and can fail; the theorems, that the bounds hide nothing.

Hardly any of these properties is inductive: what makes them true is what a handler may count on
between two of its statements. Each proof module states that as an invariant, shows it to hold at first and to
survive every action, one lemma for each kind of step, and derives the theorems from it.

| module | theorem | property | run |
|---|---|---|---|
| `BookingProofs` | `SeatsNeverShared`, `SeatAndDeadlineCorrect`, `OneLiveBooking`, `StatusMachineHolds`, `StandingHoldKept`, `TrailCorrect`, `NoDeadlock`, `HoldCapKept`, `StoresAgree` | `SeatsAreExclusive`, `SeatAndDeadlineFollowStatus`, `OneLiveBookingPerChild`, `StatusMachine`, `StandingHoldNeverExpires`, `TrailLeadsToRow`, `NoWaitCycle`, `HoldCapWithinAClass`, `AgreesWithMemory` | `booking_seats` |
| | `HoldsFitTheClass`, `RefinesLedger` | `StandingHoldsFitTheClass`, `ImplementsLedger` | `booking_progress` |
| | `TypeCorrect`, `SeatKept` | `TypeOK`, `SeatIsNeverSwapped` | - |
| `PaymentProofs` | `ChargedOnce`, `TableTrue`, `RefundedAtMostOnce`, `PaymentsImplementLedger`, `AttemptsAgree` | `ChargedOncePerKey`, `TableTellsTheTruth`, `RefundedOnce`, `ImplementsCharges`, `AgreesWithMemoryAttempts` | `payments_charge` |
| `QueueProofs` | `NoWorkIsEverDropped`, `LeasedIsInvisible`, `QueueAgrees` | `NoWorkIsDropped`, `InvisibleWhileLeased`, `AgreesWithMemoryQueue` | `queue_leases` |
| | `ParkedForGood` | `ParkedStaysParked` | - |
| `CheckoutProofs` | `NoSeatUnpaid`, `SeatOrTheMoney`, `ClosedIsRefunded`, `FailedIsDeclined` | `MoneyBacksStatus`, `SeatOrMoney`, `ClosedMeansRefunded`, `FailedRestsOnADecline` | `checkout_money` |
| | `ChargesStayTrue`, `QueueIsUsedAsMeant`, `QueueKeepsItsWord`, `RefundedOnceIfRemembered` | what the two packages promise, in the composition | - |
| `SessionProofs` | `OneLiveLink`, `OwnRefreshIsSpentOnce`, `WithdrawnStaysRefused`, `SessionAgrees` | `OneLiveTokenPerFamily`, `OwnRefreshIsNoReuse`, `WithdrawnIsRefused`, `AgreesWithMemoryTokens` | `sessions` |
| `ReadProofs` | `ListIsNeverTooOld` | `RenderedIsRecent` | `reads` |
| `EdgeProofs` | `BurstAndRefillOnly`, `WaitIsLongEnough`, `PointsFireAsArmed`, `QuestionsArePaidFor` | `WithinTheRefill`, `ToldWaitSuffices`, `FiresAsArmed`, `AskedIsPaidFor` | `edge` |
| `AttemptProofs` | `AKeyIsOneParents`, `DeclinedIsDone` | `KeysAreNotShared`, `DeclinedKeyIsDone` | `attempt_keys` |

The type invariants are `TypeCorrect`, `PaymentTypeCorrect` and the `...TypeCorrect` of each other module.

### Seats

`BookingInvariant` states what a session may count on:

- `LocksAreHeld`: where a session stands implies which locks are recorded for it;
- `RequestsAreWellFormed`, `RequestsMeetTheirRows`: which operation may stand where, and that
  an identifier about to be inserted is used by nobody else;
- `ReadsStayTrue`: the status it found, the free seat it chose and the absence of a
  duplicate are still true when it commits;
- `RowsAreWellFormed`, `SeatAndDeadlineFollowStatus`, `SeatsAreExclusive`, `LiveBookingsDiffer`.

The argument for the seat: the chosen seat is free when it is chosen; only a commit
by a holder of the class lock can put a seat into the class, and that lock is ours until we
commit; giving a seat back only makes more seats free. The same for duplicates: only a hold adds a live
booking of the class, and it needs the lock. `TrailCorrect` and `NoDeadlock` have an invariant of their own: for
the latter `LocksAreUsed`, that no lock is recorded for a session that has moved on. A set of waiting
sessions that has a member holding a row lock has a member that waits for nobody; one that has none
waits for class locks only, and whoever holds one of those is past waiting for it.

The two caps need `CountsStand`: what a hold counted in its own class is still under the limit when it
commits. The sets that are counted gain a member only by a commit under the class lock (`HoldsAdded`,
`HoldersAdded`), and time only takes members away. Nothing of the kind is true of the parent's
holds in other classes, which is why the cap across classes is only written down (section 6) and why
`AgreesWithMemory` excepts `HeldElsewhere`: between the count and the commit of one hold, another
class may give the same parent one more.

`StoresAgree` compares what is committed with what the map would do at the deciding instant, operation
by operation; the locks have kept what each of them read in place. `RefinesLedger` maps a hold's
commit to the ledger's admission, the seat query that finds nothing to its refusal, the other commits to
owning, owing, leaving, vacating and closing, and everything else to a stutter.

### Money and background work

`PayInv` of the payments:

- `RowIsTrue`: a row was asked for at most once, is settled as the money went, and is refunded exactly
  if the provider remembers its refund key, which it only does for a settled charge;
- `CallMeetsItsRow`: until a call is answered its row is as the call left it, so nobody else charges or
  closes it; what makes this inductive is `CallsDiffer`, no identifier is minted twice;
- `KeysDiffer`: one row per booking and key, which the unique index gives at each insert;
- `AnswerIsTrue`, `RefundMeetsItsRow`: what was answered, or is about to be sent back, rests on a
  settled row, and settled rows never change.

`CallStep` shows once what every step of a call has in common: only its own row moves. For
the refinement, writing a row is the ledger's `Begin`, a charge that moved money its `Move`,
closing the row its `Record`, the first refund its `SendBack`, and everything else stutters. For the agreement
with the map, a row is opened, replayed and closed by one statement each, and each of them decides as the
map's method does (`OpeningAgrees`, `ReplayAgrees`, `ClosingAgrees`).

`FinishedInv` of the queue: a worker that holds a completion holds one of a job whose handler returned well.
`LeaseInv`: of a job that is never outlasted, the row's lease is no shorter than the one its only holder
counts on; a tick takes as much off both, and a claim needs a row whose lease is over.

`CheckoutProofs` instantiates `PaymentProofs` and `QueueProofs` and proves that every step of the
composition is a step of each or leaves it alone, so that their theorems and their invariants hold in it. The
provider of the composition may forget its refund keys, which `Payments` rules out; the instance therefore
counts money that moved back once or more as moved back once (`Money` in the module), which is a
provider that remembers. On top of that `CheckoutInv` says: a request past its charge has the settled row
to show for it (`RequestIsTrue`); a worker's handlers run one at a time, because a batch is one job
(`OneJobAtATime`); a refund under way is for a booking that owes one, or was cancelled (`RefundIsTrue`); every
status has the charge it needs (`StatusIsTrue`); money that was sent back belongs to a booking that
can never have a seat again; and what is closed was sent back first. `FailedIsDeclined` holds for any keys.

### Sessions, reads, the edge and the attempt

`SessionInv`: a judgement on a token stands until its successor is written, because its row is locked
(`JudgementStands`); a token about to be minted exists nowhere (`MintFits`, `TokensDiffer`); and a tab that
presents a token has not received a successor of its own (`PresentsUnspent`), because it only asks while none of
its calls has a refresh under way and the jar holds what it received last. The theorems are about `Spec` from an empty jar;
the run starts from a state that a sign-in leads to.
`SessionAgrees` compares each committed statement with the map's method at that instant.

`ReadInv` follows a content on its way: the replica lags by `Lag`; a body a call built has aged by the time the
call is open; a stored body by its lifetime so far; an answer by the time its call is open; an entry by its
age. The case that is easy to miss is a 304 that makes an entry young which it was not asked about:
`ConfirmsWhatIsRecent` says that either the call asked about this body, or the entry came after the
call did and so is no older than an answer is when it arrives plus the time the call is open. That is the last
`Patience` of `StaleBound`. The browser's copy is an answer that ages once more (`BrowserIsRecent`); whatever comes
from it is older by its age than what came from the api, and only a load without a tag gets it. `VersionsAreOfCommits` bounds the version: every invalidation has a commit of its own.

`EdgeInv` has for each bucket what it has let through plus what it holds, which never exceeds the burst and
the refill of the time passed, counted at the faster of the two rates and with the steps back of the clock
added (`BucketPays`). Forgetting a bucket keeps that true because by then a full burst would have come back, which
is the third conjunct of `MixAssumption`: 60 seconds for the reads' burst and 65 for the life of a hash the
writes' rule left (`limiter.go`); that margin is what an operator who changes the rules has to keep. `PaidAhead` has a
token spent for every question asked or about to be.

`AttemptInv`: the key in force was not declined and was sent by nobody but whoever is signed in, and the
counter of keys is above every key there is. `KeysFit` shows that the bound `MaxKeys` never stops an answer.

### Assumptions

All of them are stated in the modules, evaluated by TLC on every run, and are what the settings guarantee:

- `ConstantsAssumption`: capacities and the TTL are positive, allowances natural, `None` is nobody's name;
  `BookingsAssumption`: finitely many bookings, so that they can be counted (any number of them).
- `PaymentAssumption`, `RegistryAssumption`, `SessionAssumption`, `AttemptAssumption`, `ChecksAssumption`: bounds are
  natural numbers, of any size, and names differ.
- `QueueAssumption`: lease, backoff, batch, concurrency and attempts are positive; `AgreementAssumption`: finitely many jobs.
- `CheckoutAssumption`: the same for the composition's settings, and `None` is no booking, key, price or payload.
- `TokensAssumption`, `CacheAssumption`, `ClientAssumption`, `RuleAssumption`: lifetimes, windows, max-age, bursts and intervals are positive, the
  fresh window is shorter than the stale one; `CacheAssumption` also has finitely many writers.
- `EdgeAssumption`: finitely many requests at a time; `MixAssumption`: writes are the scarcer rule, and the margin above.

### Only model-checked

Liveness, since fairness and ENABLED are out of the prover's reach: `EveryTransactionEnds`, `EveryJobSettles`,
`OwedIsSettled`, `HeldIsReleased`, `EveryCallSettles`, `ScreenCatchesUp`. And the two properties of section 6 that
are expected to fail, which the runs refute.

## 6. Where the documents and the code disagree

Two have a run whose counterexample shows them, and an entry under "findings".

| run | the text | the code |
|---|---|---|
| `session_aged_out` (`StaysSignedIn`) | the long token is how long a parent stays signed in across visits (`auth/service.go:47`) | the browser drops the access cookie when its token expires, a request without it is `token_invalid`, and only `token_expired` refreshes |
| `paid_twice` (`OneChargePerBooking`) | a retry gives the first answer and no second charge (`src/frontend/src/lib/api/idempotency.ts:4`) | after a decline the form is open, the booking has ended, each press is charged, refused with `invalid_request`, and renews the key |

More are written down as properties which TLC refutes too, without a run of their own. To
see the counterexample, put the property in place of those of the run named and change what the last
column says.

| property | the text | the code | start from |
|---|---|---|---|
| `HoldCapAcrossClasses` | the cap on holds per parent spans every class (`booking/service.go:19`) | it is counted under the lock of one class | `booking_progress`, two classes, one parent, `ParentOf <- OneFamily` |
| `NobodyPaysForALostSeat` | with allowance 0 nobody pays for a seat they cannot get (`hold.go:10`) | a lapsed hold is not counted, yet can still be confirmed | `booking_progress` |
| `RefundIsQueued` | the refund job is written in the rejecting transaction, not after (`HLD.md:120`) | it is written after, as the comment at `pay.go:134-142` admits | `checkout_money` |
| `OnlyRefundCloses` | refund_required ends when the worker settled the refund (`HLD.md:137`) | the parent may cancel it first (`handler_bookings.go:238`), and the refund is never sent | `checkout_money` |
| `ExpiredBeforeSettled` | expired means no payment settled before (`status.go:27`) | the worker may expire between the charge and the confirm, and nothing schedules a refund | `checkout_money` |
| `FailedMeansNoMoney` | payment_failed means that no money moved (`status.go:19`) | a decline ends the booking whatever its other attempts did; another key may be charged before or after. The comment is right of the attempt that was declined, `FailedRestsOnADecline` | `checkout_money` |
| `RefundedOnce` | a repeated refund moves nothing (`reconcile_refund.go:107`) | the provider it is wired to forgets its keys when the worker restarts | `checkout_money`, `ProviderForgets = TRUE` |
| `NothingOfThePreviousParent` | a sign-out leaves nothing of the previous parent in memory (`stores/booking.ts:350`) | the answer of a call that was under way is stored afterwards | `attempt_keys` |
| `InvisibleWhileLeased`, for every job | a claimed job is invisible until its lease runs out (`job.go:11`) | Release clears the lease by identifier alone (`queue_postgres.go:145`) | `queue_leases`, with the restriction to jobs that keep to their lease taken off |
| `OnlyPendingIsCharged` | a request that will not be honoured costs nobody money (`handler_payments.go:71`) | the status is first read after the charge | `checkout_money` |
| `DeclineLeavesItPayable` | a declined booking can be paid again (frontend `LLD.md:503`) | a decline ends it for good | `checkout_money` |
| `SignOutEndsTheSession` | a sign-out ends the session everywhere (`session/sign_out_request.ts:20`) | without the access token it is refused before it reaches the family | `sessions` |

Two more are plain from the text and need no state space: a read that was asked before this
browser's own write stores its old body as fresh after the mutator aged every entry (`mutation.ts:31-33`
says a screen that goes back to the list can never be served the count it just changed; `RenderedIsRecent`
says how old it can be); and "A denial that is
already in the past is not stored" (`denylist_memory.go:35-36`), where the code stores it and drops it at the
next lookup, which nobody can tell from outside.

`ReuseEndsTheFamily` (that a reported reuse leaves nothing live in the family) is in `Session` as a question:
at READ COMMITTED the update may miss a successor that is not committed yet. No run answers it.

## 7. What is not modelled

- Validation that refuses a command before anything changes (amounts, keys, prices,
  bodies): it only removes behaviours.
- Encodings (the token's signature, ETag text, UUIDs, JSON payloads) and password hashing: what they
  answer is a choice, or a fresh name.
- The account directory, the roster, the worklist and the audit reads: nothing comes from them but
  their answer.
- `config`, `database`, `bootstrap`, `observability`, operations and readiness: wiring, I/O and
  reports that no part reads back.
- The in-memory cache store and the in-memory limiter: one mutex, the same rules as on Redis, which are
  modelled.
- The screens beyond what they send, the countdown's drawing, the client's telemetry, containers and
  scripts.

The definitions of the modules stand for about 31 % of the lines of the implementation. Most of the rest is
the list above, together with comments, which this code has many of.

## 8. Plan

Done: seats, money, the queue, their composition; sessions on both sides of the wire, the three caches of the class
list, the edge of the api, the payment attempt of a tab; the in-memory implementations of bookings, attempts, jobs
and tokens held against Postgres and Redis; the safety of all of it proved.

Left, in this order:

1. An abstract booking for the composition: a specification with one variable for each booking (unpaid, seated,
   owed, paid back) and the refinement of it by `Checkout`, checked first and then proved from `CheckoutInv`.
2. A proof that `BookingTransactions` implements the one-step booking transactions `Checkout` uses, which is now
   an argument in section 2 and not a theorem.
3. What the liveness arguments rest on and can be proved without fairness: that attempts only grow until a
   job parks, that an owed booking always has its job while none was lost.
