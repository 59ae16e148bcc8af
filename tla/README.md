# Verification of the payment queue system

TLA+ models of the payment queue system of this repository (BullMQ workers, an
idempotency service on Redis, a payment saga, and per-gateway guards), TLC
configurations that check them, and TLAPS proofs of what matters most about
them.  Paths are relative to the repository; `payment-processor` abbreviates
`src/payment/payment-processor.service.ts`.

## 1. The system

| Component | State | Operations | Interacts with |
|---|---|---|---|
| `PaymentProcessorService` | none per payment; the maps of gateways, breakers, semaphores | `process`, `runSaga`, `reconcile`, `finalize`, `registerGateway` | everything below |
| `PaymentSaga` | `completedSteps`, the context | `run`, `compensate`; steps authorize, capture, write_ledger, notify_customer | processor's step functions |
| `IdempotencyService` | `idem:lock:*` (120 s) and `idem:result:*` (24 h) in Redis | `acquireLock`, `releaseLock`, `hasLock`, `getResult`, `storeResult` | Redis |
| `PaymentRepository` | status and transaction per payment | `getStatus`, `upsertStatus` | processor |
| `GatewaySemaphore` | `inFlight`, `waiters` | `acquire`, `release` | shared by the three worker pools of a gateway |
| `CircuitBreaker` | state, failures, window, `openedAt`, half-open counters | `canAttempt`, `recordSuccess`, `recordFailure` | asked and told by `process`; its transitions drive the bucket |
| `TokenBucket` | tokens, last refill, capacity and rate | `tryConsume`, `adapt`, `reset` | asked by `process` |
| `QueueManagerService` | queues, workers, rate limiters, `shuttingDown` | `registerGateway`, `attachWorker`, `enqueue`, `moveToDeadLetter`, `shutdown` | BullMQ, events |
| `MetricsCollectorService` | start times, counters, latency windows | handlers of `payment.started/completed/failed` | events of processor and workers |
| `DashboardGateway` | heartbeat timer | connect, disconnect, forwarders | events, metrics |

A payment is enqueued as a BullMQ job whose id is its idempotency key.  A
worker of the queue of its gateway and priority calls `process`, which passes
the breaker and the bucket, looks for the outcome of an earlier attempt (Redis,
then the repository), takes the idempotency lock, waits for the semaphore and
runs the saga.  It returns (BullMQ completes the job) or throws.

What a throw leads to is not what the code was written for.  `enqueue` asks for
`maxRetries + 1` attempts with a backoff of type `exponentialWithJitter`
(`queue-manager.service.ts` 148), and `attachWorker` (113-116) gives its workers
no strategy of that name.  The last attempt needs no backoff and fails the job.
On any earlier one the BullMQ of `package-lock.json` (5.81.5) throws in
`moveToFailed` while it looks the strategy up: the attempt is not counted, no
`failed` is emitted, and the job stays active with nobody working on it.  BullMQ
finds it stalled and delivers it once more (`maxStalledCount` is 1 by default);
the second time it fails it, and nothing moves it to `payments-dlq`.

Around this, the queue manager shuts the pod down within a grace period, the
metrics take a run's latency from two events, and the dashboard gateway ticks
while anybody watches.

What is hard: every `await` lets other runs in; a payment may have several runs
at once (two queues, or redelivery of a stalled job); the lock has a TTL and no
owner; any step may reject after money has moved; a process may die between two
steps; the breaker hears of runs it let through long ago, or never; its
transitions resize a bucket that is refilled only when asked; shutdown closes
queues under runs that may outlast the grace period.
`PROJECT.json` lists the hazards with their lines and the properties that watch
them.

What makes each component correct: the processor charges a payment once, keeps
ledger, cache and reports in line with the gateway, and resolves every payment;
the semaphore keeps the limit and loses no wakeup; the breaker notices outages,
sheds load and recovers; the bucket bounds what it grants in an interval and
leaves the breaker its trials; a saga does everything or leaves nothing but what
was reported; the queue manager serves each gateway for itself and loses no dead
letter to shutdown within the grace period; a latency belongs to the run that
ended; one heartbeat ticks while there are clients.

## 2. Modules

| Module | Models | Correspondence |
|---|---|---|
| `IdempotencyService` | `idempotency.service.ts` | two sets of keys; each Redis command, and the MULTI of `storeResult`, is one step.  The lock carries no owner, as in the code |
| `PaymentProcessor` | `process`, `runSaga` with `saga.ts` inlined, `reconcile`, the catch block; what it needs of BullMQ, gateway and repository | one action per stretch of code between two awaits, with `pc[w]` naming the await a run is at |
| `Payment` | what the system vouches for, per payment: the charges that stand, the record, the reports, the dead letters | abstract; knows of no worker, attempt, lock or cache |
| `SagaContract` | what a saga promises whoever waits for it | abstract |
| `PaymentSaga` | `run` and `compensate` of `saga.ts`, over any number of steps | one action per await of a step or of a compensation; a step that throws may have taken effect |
| `SlotPool` | the promise of the semaphore | abstract |
| `GatewaySemaphore` | the class of that name, with the runs that use it | `acquire` and `release` hold no await, so each call is one action |
| `CircuitBreaker` | `circuit-breaker.ts`, with the runs that ask and report | one action per outcome of `canAttempt`, `recordSuccess`, `recordFailure`; time in ticks |
| `TokenBucket` | `token-bucket.ts` | `Refill` when asked, `Grant` and `Deny` for `tryConsume`, `Adapt`, `Reset`; `Pass` is a tick of time |
| `GatewayGuard` | the gates of `process` and the callback between breaker and bucket | extends both: `Ask` is `canAttempt` and `tryConsume` in one turn; a report and the resizing that its transition causes are one action |
| `QueueManager` | `queue-manager.service.ts` of one pod and the BullMQ queues behind it | `Enqueue`, `Fetch`, the ends of a run, dead-lettering; `shutdown` in its phases |
| `MetricsCollector` | the handlers of the three events | one action each; a start time is represented by the run it is the start of |
| `DashboardGateway` | connects, disconnects, the heartbeat's timer | one action each |
| `Operations` | the three of them in one pod, as `payment.module.ts` wires them | a job's step and the handlers of its event are one action, since the emitter calls listeners synchronously |

`MCPaymentProcessor` and `MCOperations` hold instances for TLC.
`PaymentProcessorProofs`, `PaymentSagaProofs`, `GatewaySemaphoreProofs`,
`CircuitBreakerProofs`, `TokenBucketProofs`, `GatewayGuardProofs` and
`OperationsProofs` hold theorems about the modules they are named for; `Payment`
holds its own two.

Operators called "Faulty variant of ..." are not part of the models: each is a
plausible bug in the definition that follows it, used to see that a property
notices it (`mutants` in `PROJECT.json`).

### Abstractions and external behaviour

* A job stands for one (queue, jobId) pair and a key for a payment.  BullMQ's
  part is modelled from its use: a jobId that is still in the queue is not
  added again; a throw has the consequences of section 1 (`Reject`); only the
  worker that owns a job can settle it; an active job without an owner, because
  its attempt threw, its process died or its run was found stalled, is
  redelivered once and failed the next time (`Redeliver`).  Delays and
  priorities are left out: a waiting job may be taken at any time.
* The gateway is external: it charges and says so, charges and the answer is
  lost, declines, or fails without charging.  It does not deduplicate charges
  on the idempotency key, since `PaymentGateway` does not say that it does.
  `getStatus` answers settled only for a charge that stands; any other answer,
  and a failed lookup, have the same effect in `reconcile`.
* `voided` stands for the transactions that the compensations ask to refund
  and void.  The code only logs them (`payment-processor` 215-227); the model
  takes the request for the deed.  The two compensations are one step `Unwind`:
  as they only log, neither can reject, and between them nothing changes that
  another run could see.
* A payment record is a status (`db`) and the transaction it names (`named`).
  `upsertStatus` replaces it as a whole, so each run of a payment that gets to
  its ledger write overwrites what another one wrote, and the reversal of a
  ledger entry leaves no transaction in it.  A rejecting write may have been
  carried out.
* The repository is durable, as its interface promises ("the DB is the source
  of truth").  `InMemoryPaymentRepository` is a stand-in that is not.
* `lost` stands for the charges the system does not know it made: the gateway's
  answer was lost, or the run that made them died before the record.  Only the
  refinement mapping and the invariants read it.
* `classifyFailure` is a choice between permanent and not, and a failure after
  authorize is not permanent.  Breaker and bucket refuse at will in
  `PaymentProcessor`; waiting for the semaphore is the time a run spends at
  `authorize`, during which its lock may lapse.
* `Faults` names what the environment of an instance may do wrong; the faults
  are listed with their meaning in `PaymentProcessor`.  `Txns` bounds the
  charges of a behaviour; `RetryLimits` are the values that the `maxRetries` of
  a payment is chosen from when it is submitted.
* In `CircuitBreaker` time is capped at `OpenDuration` and the count of failures
  at the threshold, above which the code does not tell values apart.  In
  `TokenBucket` fractional tokens are counted in units, of which a shrunk rate
  has a whole number per tick, and the time since the last refill is capped at
  `Horizon`, a time that fills the bucket at any rate.
* In `Operations` what a run does inside `process` is left to
  `PaymentProcessor`: a run completes, fails, or dead-letters its payment.  A
  throw of a job with attempts left makes it `lapsed`, active and without a run;
  a job with one attempt (`Single`) is failed.  A job taken from a run that goes
  on leaves a zombie behind.  Found stalled, a job is redelivered once and then
  failed (`StallOut`).  An `add` on a closed queue client rejects.
* A `pause`, the `close` of a worker or that of a queue client may reject and
  `shutdown` with it (`PauseFails`, `CloseFails`, the choice in `CloseQueues`):
  what it asked for before goes on, what follows is never done (`aborted`),
  since `shuttingDown` stays set.
* Ghost variables record history that the code does not keep: what was charged,
  reported, admitted, granted, stalled or lost.  No guard reads them, except
  those that bound an instance.

## 3. Runs

| Run | Instance | Shows |
|---|---|---|
| `processor_serial` | 1 job, 1 worker, 4 transactions, `maxRetries` 0, 1 or 2; all faults but crash, stall, lost answers and replies, and failures of the failure handler; fair | `AtMostOneCharge`, `CompletedJobsAreResolved`, `NoPaymentVanishes` through redelivered attempts, resubmissions, refusals, lost cache entries and lapsing locks |
| `processor_concurrent` | 2 jobs of one payment, 2 workers, 3 transactions, redelivery of running jobs, lapsing locks | `ChargedIsRecorded`, `NoOrphanLock`, `CompletedIsBacked` |
| `processor_faults` | 1 job, 2 workers, 4 transactions; all faults but stall | `ImplementsPayment`: charges, record, reports and dead letters change only as `Payment` allows; `LedgerBacksCharges`: the record names every charge that stands and is known; `TypeOK`, `CompletedIsBacked` |
| `semaphore` | 6 runs, 2 slots, fair | limit, no lost wakeup, FIFO, every waiter enters, `ImplementsPool` |
| `guard` | 3 runs that report when they are trials, threshold 3, window 4 (2 failures), 2 trials, a bucket of 8 shrunk to 2; fair | breaker: `LoadIsShed`, `NoticesOutage`, `TrialWhenIdle`, `ClosesAfterRecovery`; bucket: `NeverExceedsRate`, `ThrottleHolds`; both: `TrialsAreNotRefused`, `KeepsServing` |
| `saga` | 5 steps, the last with nothing to undo; fair | `StandsInOrder`, `KeepsPromise`, `Ends` |
| `operations` | a job with one attempt at a gateway that may hang; one with retries and a delayed one at a healthy gateway; one worker each, 2 dashboards; fair | `DeadLettersArrive`, `ShutdownEnds`, `HealthyGatewayServed`, `LatencyIsOwn`, `SettledLeavesNoStart`, `HeartbeatFollowsClients`, `EveryOutcomeIsShown` |

Bounds.  One payment is enough in `PaymentProcessor`: payments share no state
but the workers, which forget everything between runs.  Two workers give every
interleaving of two runs of a payment; in `processor_serial` a payment never has
two runs, and one does.  More than two transactions are needed only to let
attempts after a voided charge go on.  What the code makes of `maxRetries` is
told apart by 0 (retries used up, last attempt), 1 (used up, but not the last
attempt) and 2 (neither).  A larger limit behaves like 2, because no attempt but
the last is counted: a job is delivered, delivered once more, and failed; with
resubmissions it may go through that again.  The redelivery of a running job,
which `processor_faults` leaves out because neither `ImplementsPayment` nor
`LedgerBacksCharges` holds under it, is in `processor_concurrent`, with the
weaker `ChargedIsRecorded`.

Three runs in `guard` let an old run, a trial and a refused one coexist.  Runs
may come and go any number of times in a tick, so the bucket of 8 tokens runs
dry, and it may as well have savings when it is shrunk.  Its base rate is 11
units a tick, at 2 units a token, and the floor 20%: rate and capacity are
rounded, in both directions, and what is left just covers the trials after an
open period of 2 ticks (`TrialsFit`).  With a threshold of 3 and a rate of 2 in
4 the breaker trips for either reason without the other.  Five saga steps leave
completed steps on both sides of a compensation that rejects.

In `operations` one job per gateway is enough for what one gateway may do to
another, since nothing is shared between queues but the phase of the shutdown.
A job with one attempt and one with more give both outcomes of a throw; one
redelivery puts two runs of a job side by side; two dashboards give every order
of connects and disconnects.

`CHECK_DEADLOCK FALSE` is set where the system really stops: a processor
instance when its jobs are settled or its transactions used up, a saga that has
ended, and, in `breaker_stuck`, the breaker whose budget was used up by
unreported trials.

Fairness.  `processor_serial`: the event loop resumes a run whose promise has
settled (`Step`), workers fetch waiting jobs (`Take` or `Refuse`), BullMQ
notices jobs nobody works on (`Redeliver`) and Redis expires locks
(`LockExpires`); nothing obliges a client to submit or a fault to happen.
`semaphore`: every run that got in releases (the `finally` of `process`).
`guard`: time passes, payments keep coming, and runs end, in whatever way.
`saga`: every promise a step returns settles.  `operations`: workers take what
they can, runs at a gateway that answers end, timers fire, and a shutdown that
has begun goes on; a run at the hanging gateway need never end, and nobody is
obliged to shut down or to watch.

### Disagreements between the code and what is said of it

Each is a run that violates one property; `PROJECT.json` quotes the sentence.

| Run | What happens |
|---|---|
| `crash_unresolved` | `reconcile` returns on an unsettled answer, so BullMQ completes the job and nothing retries it |
| `crash_double_charge` | once a dead worker's lock has lapsed the retry charges again without asking the gateway |
| `breaker_stuck` | trials that end without a report are never given back: the breaker refuses for ever |
| `retries_not_counted` | a payment that fails for transient reasons is redelivered once and failed for stalling: `process` never sees its retries used up and it reaches no dead letter queue |
| `throttle_late` | the bucket still has its full size when the breaker trips: it is resized by the transitions only, and `severity` is read by nothing |

Other behaviour that the models show and no run is devoted to:

* `reconcile` takes the holder of a lock for dead.  It caches the settled answer
  of a run that is alive, and that run may void the charge after it.
* `storeResult` deletes the lock, whoever holds it.  Without any fault, three
  jobs of a payment can put two runs into the saga at once: one is between its
  record and its `storeResult`, another has looked for a result before, and the
  third, by backfilling or reconciling, deletes the first one's lock.
* Two runs of a payment may both charge, and both charges may stand.  The record
  is overwritten by the second and names its transaction only; nothing in the
  system remembers the other (`ChargedIsRecorded` says what is left).
* A delayed payment goes to `payments-scheduled` (`queue-manager.service.ts`
  132), and no worker is ever attached to that queue (103-125), although the
  comment at its head speaks of a worker that promotes delayed jobs (3-5).  In
  `operations` the delayed job waits for ever.
* A refusal by breaker or bucket throws like a failed attempt: the job is
  redelivered once, as stalled, and a second refusal fails it without the
  gateway ever having been asked.  Failed lookups do the same.
* With `maxRetries` 0 or 1, `process` gives a payment up at its first attempt:
  it compares `attemptsMade + 1` with `maxRetries`, while `attempts` is
  `maxRetries + 1`.  With 2 or more it never does.
* When `moveToDeadLetter` rejects on a declined payment the lock is not
  released. The next delivery finds it and ends in `reconcile`: BullMQ completes
  a job whose payment was reported failed and is in no dead letter queue.
* A `pause` or `close` that rejects in `shutdown` leaves the rest undone, and no
  later call makes up for it.
* A failed notification unwinds the charge and leaves its result cached, so the
  retry reports the refunded payment completed (the README of the repository
  warns of the unwinding, not of the cache; the comment in `reverseLedgerEntry`,
  257-260, says that "no idempotency result was stored yet at this point", but
  the step that is being compensated ended with `storeResult`).
* When `storeResult` rejects in `writeLedgerEntry`, the charge is voided and the
  record says COMPLETED.
* A payment that `reconcile` settles never reaches the ledger.
* A Redis command may run and its reply be lost (`LoseReply`).  After the SET NX
  that leaves a lock whose taker throws, or finds its own lock when the client
  sends the command again; a retry then ends like `crash_unresolved`.
* The result is looked up before the lock is taken and not again after, so a
  duplicate may call the gateway although a result exists.
* A saga step that throws after it took effect is never compensated, although
  the compensations of `saga.ts` look at the context as if they might be called
  for it.  `SagaContract` says exactly this much.
* The late success of a run from before the opening counts as a trial's.
* Whether the bucket leaves the breaker its trials is a matter of numbers
  (`TrialsFit`): it does for the three gateways of `payment.module.ts`, and
  would not for one of capacity 12 with the default floor and three trials.  Its
  third trial would then be refused and never reported.
* `shutdown` pauses the queues in Redis, for every pod and the next start, and
  nothing resumes them.  `enqueue` goes on accepting payments meanwhile.
  `main.ts` does not enable the hooks that would call it.
* Latencies of jobs that share an id, in two queues, are mixed up.  A throw with
  attempts left emits nothing, so its start time stays until the job is taken
  again or failed; the latency of a job failed for stalling may then include the
  time it lay there.
* A payment that was dead-lettered counts as a success in the metrics: its job
  completed.

Because of them several properties are checked under the faults that leave them
standing, and no more: the fault sets in `MCPaymentProcessor` are as large as
the code allows.

## 4. Proofs

All theorems hold for every value of the constants that the modules' named
assumptions admit.

**PaymentProcessorProofs.**
* `TypeCorrect` (`TypeOK`, all faults).  `TypeOK` is not inductive: that
  `attemptsMade` never exceeds 1 needs that a job which is waiting or active has
  counted no attempt and that only an active job is owned (`RunInv`).
* `NothingInvented` (`CompletedIsBacked`, all faults).  The invariant adds that
  a run which is about to record, backfill or settle is working on a payment
  that has a charge.
* `LocksAreReleased` (`NoOrphanLock`; no crash, no lost Redis reply, and
  releases and the dead letter queue work).  Inductive as it stands, given
  `RunInv`: although nobody owns a lock, a run leaves the locked section only by
  a step that deletes the entry.
* `NoSilentLeak` (`LedgerBacksCharges`; one job per payment, no redelivery of a
  running job; all other faults).  A charge that stands and is not lost is the
  one the record names, or its run is there to record or void it.  A consequence
  of `PaymentInv`, below.
* `ChargesAreRecorded` (`ChargedIsRecorded`; no crash, lost gateway answer or
  failed notification).  `LedgerInv` adds that a run past the ledger write has a
  payment with a completed record that names one of its charges, and that no run
  reverses one.  It needs nothing of locks or of who is alone: any number of
  jobs and redelivered runs may be at work on a payment.
* `ChargedOnce` (`AtMostOneCharge`; one job per payment, no crash, redelivery of
  a running job or lost gateway answer).  `OwnInv` makes the run of a payment
  alone with it; `ChargeInv` says for each of its program counters which charge
  stands, and for a payment at rest that it is recorded or has none; `TxnInv`
  that the gateway does not give out a transaction twice.  Together with
  `RunInv` and `DataInv` they are `PaymentInv`, which is inductive under crashes
  and lost answers as well: it speaks of the charges that are not `lost`, and
  says of a lost one that it is never voided.  Without those two faults nothing
  is lost.
* `PromiseKept` (`ImplementsPayment`; one job per payment, no redelivery of a
  running job; crashes, lost answers and replies, lapsing locks, lost cache
  entries, failing compensations and failure handlers are all allowed).  Under
  `PaymentInv` each step is one action of `Payment` or leaves its variables
  alone: a charge is an `Authorize`, a lost answer and a fatal crash a `Lose`,
  the ledger write a `Record`, `reverseLedgerEntry` a `Reverse`, `unwind` a
  `Void`, and every `finalize` a `Complete` or a `GiveUp`, from whichever of the
  six places it is called.  Both hypotheses are needed: two runs of a payment
  charge it twice (section 3).
* `AccountedForOnce` (`OneAccountedCharge`, under the same hypotheses), from
  `PromiseKept` and `NeverChargedTwice` of `Payment`: what `crash_double_charge`
  shows is the most that a crash or a lost answer can do.  Each of them may
  leave one charge unknown and charged again; a charge that the system knows of
  never is.
* `CompletedPaymentsArePaid` (`CompletedIsPaid`; in addition neither
  `storeResult` nor the notification fails).  What is reported, cached or
  recorded completed has a charge that stands.  It follows from `PromiseKept`
  and the theorem `CompletedStaysPaid` of `Payment`, with the part of
  `PaymentInv` about the cache.  TLC finds it violated when one of these two
  faults is allowed: the retry after a failed notification is answered from the
  cache.
* `NothingIsDropped` (`CompletedJobsAreResolved`; one job per payment, no crash
  or redelivery of a running job, and the failure handler works).  A run that is
  alone with its payment and found the lock taken would have found its own, by
  `NoOrphanLock`; so `ResolvedInv` keeps every run out of `reconcile`, and every
  other return has reported or dead-lettered.

**Payment.** `MayLose` and `MayUnwindRecorded` say which of the two things that
go beyond the ordinary may happen; in `PaymentProcessor` they follow from
`Faults`.  `NeverChargedTwice`, and `CompletedStaysPaid` under
`~MayUnwindRecorded`: if no step after the record may fail, a payment recorded
or reported completed keeps its charge.  `PaidInv` is the strengthening: nothing
is compensated, and a report rests on the record or on a lost charge.

**PaymentSagaProofs.** `SagaTypeCorrect`, `EffectsStandInOrder` and
`SagaKeepsPromise`.  The invariant says in each phase what `completedSteps` and
`remaining` are (the steps up to a point, in order) and which effects may stand;
the steps between the first and the last are stutters of the contract.

**GatewaySemaphoreProofs.** `SemaphoreTypeCorrect`, `SlotLimit`, `NoLostWakeup`,
`FirstComeFirstServed` and `SemaphoreImplementsPool`, from
`TypeOK /\ CountsHolders /\ NoIdleSlot`: `release` keeps the counter only because
a queue implies that every slot is taken, and each step then is a step of the
pool under the mapping of its sets to the runs inside and queued.

**CircuitBreakerProofs.** `BreakerTypeCorrect`, `TrialBudget`, `OutageNoticed`,
and, if every trial reports, `TrialsComeBack`.  The invariant adds that the
counters are below their limits in the states that read them, that the ghost
count of admitted runs is the breaker's own, that `consecutiveFailures`
counts at least the failures at the end of the window, whose suffix moves by one
with each push (`PushedWindow`), and that a closed breaker with a full window of
too many failures has just heard of a success (`RateWatched`).  `TrialsComeBack`
needs in addition that every slot handed out belongs to a trial still running or
to a success counted (`SlotsAccounted`).

**TokenBucketProofs.** `BucketTypeCorrect`, `RateIsKept` and `ThrottleIsKept`,
for every capacity, rate, floor and severity.  The ideal bucket is refilled on
every tick; the code's holds no more, and with what the time since its last
refill is worth no more either, unless the ideal one is full (`Covers`).

**GatewayGuardProofs.** The same for the composition (`GuardKeepsRate`,
`GuardKeepsThrottle`), whose steps are steps of the bucket or leave it alone;
and, from `TrialsFit`, `NoTrialIsRefused`.  The strengthening is that the bucket
has its shrunk size exactly while the breaker has tripped
(`ThrottleFollowsBreaker`), and `TrialsCovered`: while the breaker is open the
time that has passed is time since the last refill, and once it is half-open the
tokens suffice for the trials still to come.  Where no trial is refused a
behaviour of the guard is one of the breaker, and what is proved of the breaker
holds of it: `GuardTrialsComeBack` is `TrialWhenIdle` behind both gates.  What
does not depend on the numbers is proved without `TrialsFit` as well: a trial
that the bucket refuses ends by a step the breaker alone does not have, and the
breaker's invariant survives it (`GuardTypeCorrect`, `GuardShedsLoad`,
`GuardNoticesOutage`, `GuardBucketTypeCorrect`).

**OperationsProofs.** `OperationsTypeCorrect`; `OneHeartbeat`;
`NoLetterIsLostInGrace`, from the fact that the queue clients are closed only
when no run is left or the time is up; `LatenciesAreOwn` and `StartsAreTaken`,
inductive together, for any sharing of ids; that needs to know which jobs have
lapsed, since only such a job may be active with no start.

Only model-checked: the liveness properties (`NoPaymentVanishes`,
`EveryWaiterEnters`, `ClosesAfterRecovery`, `KeepsServing`, `Ends`,
`ShutdownEnds`, `HealthyGatewayServed`, `EveryOutcomeIsShown`), which are out of
the prover's reach.  Every invariant and every refinement that a passing run
checks is also proved, the processor's for any number of payments, jobs, workers
and retries.

## 5. Plan

Done: the processor with its store and queues and the payment it implements, the
saga and its contract, the semaphore and its pool, the breaker, the bucket and
their composition, the queue manager with metrics and dashboard.  Left, in this
order:

1. The semaphore behind the gates of `GatewayGuard`, for the time a trial spends
   waiting for its slot.
2. The restart of a pod, and several pods on one set of queues, with queues left
   paused by the shutdown of another.
3. The windows of the metrics: latency percentiles over the last samples, and
   the 60 s of timestamps behind the TPS.

## 6. Not modelled

`severity` of the breaker and `snapshot`s are read by nothing that acts.
`computeBackoffMs` is called by tests only; were it registered as the strategy
that `enqueue` asks for, a throw would be counted and retried, and `Reject`
would have to be changed.  The percentiles, the TPS window and the alerts of the
metrics only feed the dashboard and the log.  `classifyFailure` is a table of
regular expressions whose verdict the models leave open.  Tracing, bootstrap,
the load test and the dashboard page hold no state of their own.  Whether BullMQ
accepts the jobId `dlq:<key>` is left open: some versions refuse a custom id
with a colon.  The fault `dlq` stands for a refusal; where it is left out, the
models assume acceptance.
