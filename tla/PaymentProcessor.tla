-------------------------- MODULE PaymentProcessor --------------------------
(***************************************************************************)
(* PaymentProcessorService.process with the payment saga inlined, run by   *)
(* several workers against one Redis, one payment repository, one gateway  *)
(* and BullMQ.  Every `await` is a step boundary; between two awaits       *)
(* JavaScript runs alone, so what lies between them is one action.         *)
(*                                                                         *)
(* A payment stands for both its id, which keys the repository, and its    *)
(* idempotencyKey, which keys Redis and the queues.                        *)
(*                                                                         *)
(* The circuit breaker and the token bucket appear only as the choice to   *)
(* refuse an attempt, the gateway semaphore only as time spent before      *)
(* Authorize: see CircuitBreaker and GatewaySemaphore for them.            *)
(***************************************************************************)
EXTENDS Naturals, IdempotencyService

CONSTANTS
  Jobs,        \* BullMQ jobs: one per (queue, jobId) pair
  KeyOf,       \* the idempotency key of the payment a job carries
  Workers,     \* concurrent runs of process(), over all pools and pods
  Txns,        \* gateway transactions; bounds the successful authorizations
  RetryLimits, \* the values payment.maxRetries may have
  Faults,      \* what the environment of this instance may do wrong
  None

FaultKinds ==
  { "gate",       \* breaker open or bucket empty: the attempt is refused
    "decline",    \* the gateway says no for good
    "error",      \* the gateway fails, nothing was charged
    "timeout",    \* the gateway charges, the answer is lost
    "capture", "ledger", "notify",   \* that saga step throws
    "store",      \* upsertStatus or storeResult rejects, having written or not
    "reverse",    \* the ledger reversal of a compensation rejects
    "lookup",     \* a read or the SET NX rejects before the saga starts
    "release",    \* releaseLock rejects
    "reply",      \* a Redis command runs but its reply is lost
    "dlq",        \* adding to the dead letter queue rejects
    "crash",      \* the process of a worker dies
    "stall",      \* BullMQ redelivers the job of a worker still running
    "ttl",        \* the lock's TTL elapses while its taker still runs
    "evict",      \* Redis drops a cached result (24h TTL, memory, restart)
    "resubmit" }  \* a finished job is removed, so its jobId is usable again

ASSUME KeyOfType == KeyOf \in [Jobs -> Keys]
ASSUME NoneIsNone == None \notin Jobs \cup Workers \cup Txns
ASSUME RetryLimitsType == RetryLimits \subseteq Nat
ASSUME FaultsType == Faults \subseteq FaultKinds

VARIABLES
  \* BullMQ
  jobState,      \* [Jobs -> JobStates]
  maxRetries,    \* payment.maxRetries of the payment a job carries
  attemptsMade,  \* failed attempts BullMQ has counted
  owner,         \* the worker holding the job's BullMQ lock, or None
  stalled,       \* jobs found active without a run once already
  \* one run of process() per worker
  pc, job,
  made,          \* job.attemptsMade as read when the run started
  txn,           \* ctx.gatewayTransactionId of the running saga, or None
  \* payment repository and gateway
  db, named,     \* the payment record: status, gatewayTransactionId or None
  charges,       \* ghost: transactions the gateway authorized, per key
  voided,        \* ghost: transactions the saga asked to refund and void
  lost,          \* ghost: transactions whose answer was lost, or whose run
                 \* died before they were recorded
  \* outcomes
  reported,      \* ghost: statuses emitted as payment.status_changed
  dlq            \* payments-dlq, whose jobId is dlq:<key>

bull == <<jobState, maxRetries, attemptsMade, owner, stalled>>
run == <<pc, job, made, txn>>
money == <<db, named, charges, voided, lost>>
outcome == <<reported, dlq>>
vars == <<bull, run, redis, money, outcome>>

JobStates == {"absent", "waiting", "active", "completed", "failed"}
SagaPCs == {"authorize", "capture", "ledger", "store", "notify",
            "reverse", "unwind"}
\* From the lock's SET NX to the DEL that ends the attempt.
LockedPCs == SagaPCs \cup {"failed", "declined", "release"}
PCs == LockedPCs \cup {"idle", "result", "record", "backfill", "lock",
                       "haslock", "query", "settle", "retry"}

TypeOK ==
  /\ RedisTypeOK
  /\ jobState \in [Jobs -> JobStates]
  /\ maxRetries \in [Jobs -> Nat]
  /\ attemptsMade \in [Jobs -> 0..1]
  /\ stalled \subseteq Jobs
  /\ owner \in [Jobs -> Workers \cup {None}]
  /\ pc \in [Workers -> PCs]
  /\ job \in [Workers -> Jobs \cup {None}]
  /\ made \in [Workers -> 0..1]
  /\ txn \in [Workers -> Txns \cup {None}]
  /\ db \in [Keys -> {"none", "completed", "compensated"}]
  /\ named \in [Keys -> Txns \cup {None}]
  /\ charges \in [Keys -> SUBSET Txns]
  /\ voided \subseteq Txns /\ lost \subseteq Txns
  /\ reported \in [Keys -> SUBSET {"completed", "failed"}]
  /\ dlq \subseteq Keys
  /\ \A w \in Workers : pc[w] = "idle" <=> job[w] = None

Init ==
  /\ RedisInit
  /\ jobState = [j \in Jobs |-> "absent"]
  /\ maxRetries = [j \in Jobs |-> 0]
  /\ attemptsMade = [j \in Jobs |-> 0]
  /\ stalled = {}
  /\ owner = [j \in Jobs |-> None]
  /\ pc = [w \in Workers |-> "idle"]
  /\ job = [w \in Workers |-> None]
  /\ made = [w \in Workers |-> 0]
  /\ txn = [w \in Workers |-> None]
  /\ db = [k \in Keys |-> "none"]
  /\ named = [k \in Keys |-> None]
  /\ charges = [k \in Keys |-> {}]
  /\ voided = {} /\ lost = {}
  /\ reported = [k \in Keys |-> {}]
  /\ dlq = {}

-----------------------------------------------------------------------------
(* BullMQ, as the source uses it. *)

\* queue.add: a jobId that is still in the queue is not added again.
Submit(j) ==
  /\ jobState[j] = "absent"
  /\ jobState' = [jobState EXCEPT ![j] = "waiting"]
  /\ \E n \in RetryLimits : maxRetries' = [maxRetries EXCEPT ![j] = n]
  /\ attemptsMade' = [attemptsMade EXCEPT ![j] = 0]
  /\ stalled' = stalled \ {j}
  /\ UNCHANGED <<owner, run, redis, money, outcome>>

\* removeOnComplete: an old completed job is removed with its jobId.
Remove(j) ==
  /\ "resubmit" \in Faults
  /\ jobState[j] = "completed"
  /\ jobState' = [jobState EXCEPT ![j] = "absent"]
  /\ UNCHANGED <<maxRetries, attemptsMade, owner, stalled>>
  /\ UNCHANGED <<run, redis, money, outcome>>

\* The last of the attempts = maxRetries + 1 the job was enqueued with.
LastAttempt(j) == attemptsMade[j] >= maxRetries[j]

\* An attempt threw.  The last one fails the job.  Before that BullMQ looks for
\* the backoff of type "exponentialWithJitter" that enqueue asks for; no worker
\* is given such a strategy, so the lookup itself throws: the attempt is not
\* counted, and the job stays active with nobody working on it.
Reject(j) ==
  /\ \/ /\ ~LastAttempt(j)
        /\ jobState' = [jobState EXCEPT ![j] = "active"]
        /\ UNCHANGED attemptsMade
     \/ /\ LastAttempt(j)
        /\ jobState' = [jobState EXCEPT ![j] = "failed"]
        /\ attemptsMade' = [attemptsMade EXCEPT ![j] = @ + 1]
  /\ owner' = [owner EXCEPT ![j] = None]
  /\ UNCHANGED <<maxRetries, stalled>>

Resolve(j) ==
  /\ jobState' = [jobState EXCEPT ![j] = "completed"]
  /\ owner' = [owner EXCEPT ![j] = None]
  /\ UNCHANGED <<maxRetries, attemptsMade, stalled>>

\* An active job nobody works on has stalled: it waits again the first time
\* (maxStalledCount is 1) and is failed the second, by BullMQ alone.
Redeliver(j) ==
  /\ jobState[j] = "active" /\ owner[j] = None
  /\ jobState' =
       [jobState EXCEPT ![j] = IF j \in stalled THEN "failed" ELSE "waiting"]
  /\ stalled' = stalled \cup {j}
  /\ UNCHANGED <<maxRetries, attemptsMade, owner>>
  /\ UNCHANGED <<run, redis, money, outcome>>

-----------------------------------------------------------------------------
(* How a run of process() moves and ends. *)

Key(w) == KeyOf[job[w]]

Goto(w, l) == /\ pc' = [pc EXCEPT ![w] = l]
              /\ UNCHANGED <<job, made>>

\* Faulty variant of Leave: the run's job is not forgotten.
LeaveKeepingJob(w) ==
  /\ pc' = [pc EXCEPT ![w] = "idle"]
  /\ made' = [made EXCEPT ![w] = 0]
  /\ txn' = [txn EXCEPT ![w] = None]
  /\ UNCHANGED job

\* The run is over; a worker that lost the job's lock cannot settle the job.
Leave(w) ==
  /\ pc' = [pc EXCEPT ![w] = "idle"]
  /\ job' = [job EXCEPT ![w] = None]
  /\ made' = [made EXCEPT ![w] = 0]
  /\ txn' = [txn EXCEPT ![w] = None]

Return(w) ==
  /\ Leave(w)
  /\ \/ owner[job[w]] = w /\ Resolve(job[w])
     \/ owner[job[w]] # w /\ UNCHANGED bull

Throw(w) ==
  /\ Leave(w)
  /\ \/ owner[job[w]] = w /\ Reject(job[w])
     \/ owner[job[w]] # w /\ UNCHANGED bull

\* finalize(payment, status): emits payment.status_changed.
Finalize(w, status) ==
  reported' = [reported EXCEPT ![Key(w)] = @ \cup {status}]

\* Faulty variant of UpsertStatus: the extra fields are not written.
UpsertStatusAlone(w, status, t) ==
  /\ db' = [db EXCEPT ![Key(w)] = status]
  /\ named' = [named EXCEPT ![Key(w)] = None]

\* paymentRepo.upsertStatus replaces the whole record: its status, and t, the
\* gatewayTransactionId given with it or None.
UpsertStatus(w, status, t) ==
  /\ db' = [db EXCEPT ![Key(w)] = status]
  /\ named' = [named EXCEPT ![Key(w)] = t]

-----------------------------------------------------------------------------
(* process(job): the gates and the two-tier idempotency check. *)

\* A worker picks a job up and passes both gates: payment.started.
Take(w, j) ==
  /\ pc[w] = "idle" /\ jobState[j] = "waiting"
  /\ jobState' = [jobState EXCEPT ![j] = "active"]
  /\ owner' = [owner EXCEPT ![j] = w]
  /\ pc' = [pc EXCEPT ![w] = "result"]
  /\ job' = [job EXCEPT ![w] = j]
  /\ made' = [made EXCEPT ![w] = attemptsMade[j]]
  /\ UNCHANGED <<maxRetries, attemptsMade, stalled, txn, redis, money, outcome>>

\* The breaker or the bucket refuses: the run throws before any await.
Refuse(w, j) ==
  /\ "gate" \in Faults
  /\ pc[w] = "idle" /\ jobState[j] = "waiting"
  /\ Reject(j)
  /\ UNCHANGED <<run, redis, money, outcome>>

\* await idempotency.getResult: a cached result ends the run.
GetResult(w) ==
  /\ pc[w] = "result"
  /\ \/ /\ HasResult(Key(w))
        /\ Finalize(w, "completed")
        /\ Return(w)
     \/ /\ ~HasResult(Key(w))
        /\ Goto(w, "record")
        /\ UNCHANGED <<bull, txn, reported>>
  /\ UNCHANGED <<redis, money, dlq>>

\* Faulty variant of GetRecord: a Redis miss is taken for "never processed".
GetRecordTrustingRedis(w) ==
  /\ pc[w] = "record"
  /\ Goto(w, "lock")
  /\ UNCHANGED <<bull, txn, redis, money, outcome>>

\* await paymentRepo.getStatus: only COMPLETED counts as done.
GetRecord(w) ==
  /\ pc[w] = "record"
  /\ Goto(w, IF db[Key(w)] = "completed" THEN "backfill" ELSE "lock")
  /\ UNCHANGED <<bull, txn, redis, money, outcome>>

\* The DB hit is copied to Redis; storeResult also deletes the lock.
Backfill(w) ==
  /\ pc[w] = "backfill"
  /\ StoreResult(Key(w))
  /\ Finalize(w, "completed")
  /\ Return(w)
  /\ UNCHANGED <<money, dlq>>

\* await idempotency.acquireLock.
TryLock(w) ==
  /\ pc[w] = "lock"
  /\ \/ AcquireLock(Key(w)) /\ Goto(w, "authorize")
     \/ HasLock(Key(w)) /\ Goto(w, "haslock") /\ UNCHANGED redis
  /\ UNCHANGED <<bull, txn, money, outcome>>

\* A read or the SET NX rejects: nothing is caught, the run throws.
LookupFails(w) ==
  /\ "lookup" \in Faults
  /\ pc[w] \in {"result", "record", "backfill", "lock", "haslock"}
  /\ Throw(w)
  /\ UNCHANGED <<redis, money, outcome>>

\* A command on the entries runs, but its reply is lost: the run sees it
\* reject or, when the client sends SET NX again, its own lock as another's.
LoseReply(w) ==
  /\ "reply" \in Faults
  /\ \/ /\ pc[w] = "lock" /\ AcquireLock(Key(w))
        /\ \/ Throw(w)
           \/ Goto(w, "haslock") /\ UNCHANGED <<bull, txn>>
     \/ pc[w] = "backfill" /\ StoreResult(Key(w)) /\ Throw(w)
     \/ pc[w] \in {"release", "failed"} /\ ReleaseLock(Key(w)) /\ Throw(w)
  /\ UNCHANGED <<money, outcome>>

-----------------------------------------------------------------------------
(* reconcile: somebody else holds the lock. *)

Live(k) == charges[k] \ voided     \* charges nobody asked to void

\* The lock has gone meanwhile: reconcile, and with it the run, returns.
CheckLock(w) ==
  /\ pc[w] = "haslock"
  /\ \/ HasLock(Key(w)) /\ Goto(w, "query") /\ UNCHANGED <<bull, txn>>
     \/ ~HasLock(Key(w)) /\ Return(w)
  /\ UNCHANGED <<redis, money, outcome>>

\* Faulty variant of QueryGateway: any answer counts as settled.
QueryGatewayHopefully(w) ==
  /\ pc[w] = "query"
  /\ Goto(w, "settle")
  /\ UNCHANGED <<bull, txn, redis, money, outcome>>

\* gateway.getStatus answers settled only for a live charge; any other
\* answer, or a failed lookup, ends the run without an error.
QueryGateway(w) ==
  /\ pc[w] = "query"
  /\ \/ Live(Key(w)) # {} /\ Goto(w, "settle") /\ UNCHANGED <<bull, txn>>
     \/ Return(w)
  /\ UNCHANGED <<redis, money, outcome>>

\* storeResult and finalize; a rejection of the former is swallowed.
StoreSettled(w) ==
  /\ pc[w] = "settle"
  /\ \/ StoreResult(Key(w)) /\ Finalize(w, "completed")
     \/ /\ "store" \in Faults
        /\ StoreResult(Key(w)) \/ UNCHANGED redis
        /\ UNCHANGED reported
  /\ Return(w)
  /\ UNCHANGED <<money, dlq>>

-----------------------------------------------------------------------------
(* runSaga: four steps, compensated in reverse order when one throws. *)

\* gateway.process: charged, charged without an answer, or refused.
Charge(w, t) ==
  /\ \A k \in Keys : t \notin charges[k]
  /\ charges' = [charges EXCEPT ![Key(w)] = @ \cup {t}]
  /\ UNCHANGED <<db, named, voided>>

Authorize(w) ==
  /\ pc[w] = "authorize"
  /\ \/ \E t \in Txns : /\ Charge(w, t)
                        /\ txn' = [txn EXCEPT ![w] = t]
                        /\ Goto(w, "capture") /\ UNCHANGED lost
     \/ /\ "timeout" \in Faults
        /\ \E t \in Txns : Charge(w, t) /\ lost' = lost \cup {t}
        /\ Goto(w, "failed") /\ UNCHANGED txn
     \/ /\ "error" \in Faults
        /\ Goto(w, "failed") /\ UNCHANGED <<txn, money>>
     \/ /\ "decline" \in Faults
        /\ Goto(w, "declined") /\ UNCHANGED <<txn, money>>
  /\ UNCHANGED <<bull, redis, outcome>>

Capture(w) ==
  /\ pc[w] = "capture"
  /\ \/ Goto(w, "ledger")
     \/ "capture" \in Faults /\ Goto(w, "unwind")
  /\ UNCHANGED <<bull, txn, redis, money, outcome>>

\* writeLedgerEntry, first await: the DB record.
WriteLedger(w) ==
  /\ pc[w] = "ledger"
  /\ \/ UpsertStatus(w, "completed", txn[w]) /\ Goto(w, "store")
     \/ /\ "store" \in Faults
        /\ UpsertStatus(w, "completed", txn[w]) /\ Goto(w, "unwind")
     \/ "ledger" \in Faults /\ Goto(w, "unwind") /\ UNCHANGED <<db, named>>
  /\ UNCHANGED <<bull, txn, redis, charges, voided, lost, outcome>>

\* writeLedgerEntry, second await: the cached result and the lock.  A
\* rejection fails the step, so the ledger is not among those compensated.
CacheResult(w) ==
  /\ pc[w] = "store"
  /\ \/ StoreResult(Key(w)) /\ Goto(w, "notify")
     \/ /\ "store" \in Faults
        /\ StoreResult(Key(w)) \/ UNCHANGED redis
        /\ Goto(w, "unwind")
  /\ UNCHANGED <<bull, txn, money, outcome>>

\* The last step; then runSaga finalizes and process returns.
Notify(w) ==
  /\ pc[w] = "notify"
  /\ \/ Finalize(w, "completed") /\ Return(w)
     \/ /\ "notify" \in Faults
        /\ Goto(w, "reverse") /\ UNCHANGED <<bull, txn, reported>>
  /\ UNCHANGED <<redis, money, dlq>>

\* reverseLedgerEntry; a rejection is logged and the loop goes on.
ReverseLedger(w) ==
  /\ pc[w] = "reverse"
  /\ \/ UpsertStatus(w, "compensated", None)
     \/ "reverse" \in Faults /\ UNCHANGED <<db, named>>
  /\ Goto(w, "unwind")
  /\ UNCHANGED <<bull, txn, redis, charges, voided, lost, outcome>>

\* Faulty variant of Unwind: the compensations are skipped.
UnwindWithoutVoid(w) ==
  /\ pc[w] = "unwind"
  /\ txn' = [txn EXCEPT ![w] = None]
  /\ Goto(w, "failed")
  /\ UNCHANGED <<bull, redis, money, outcome>>

\* refund, then voidAuthorization: each logs the transaction to unwind, which
\* cannot reject and changes nothing another run sees, so they are one step.
Unwind(w) ==
  /\ pc[w] = "unwind"
  /\ voided' = voided \cup {txn[w]}
  /\ txn' = [txn EXCEPT ![w] = None]
  /\ Goto(w, "failed")
  /\ UNCHANGED <<bull, redis, db, named, charges, lost, outcome>>

-----------------------------------------------------------------------------
(* The catch of process. *)

\* finalize FAILED, then moveToDeadLetter.
DeadLetter(w) ==
  /\ Finalize(w, "failed")
  /\ dlq' = dlq \cup {Key(w)}

\* ... or the add rejects, which nothing catches.
DeadLetterFails(w) ==
  /\ "dlq" \in Faults
  /\ Finalize(w, "failed") /\ UNCHANGED dlq
  /\ Throw(w)

\* A permanent failure goes to the DLQ while the lock is held.
GiveUpDeclined(w) ==
  /\ pc[w] = "declined"
  /\ \/ DeadLetter(w) /\ Goto(w, "release") /\ UNCHANGED <<bull, txn>>
     \/ DeadLetterFails(w)
  /\ UNCHANGED <<redis, money>>

\* ... and then releases it; the run returns without an error.
ReleaseDeclined(w) ==
  /\ pc[w] = "release"
  /\ \/ ReleaseLock(Key(w)) /\ Return(w)
     \/ "release" \in Faults /\ UNCHANGED redis /\ Throw(w)
  /\ UNCHANGED <<money, outcome>>

\* Faulty variant of ReleaseFailed: the lock is kept over the backoff.
ReleaseFailedKeepingLock(w) ==
  /\ pc[w] = "failed"
  /\ Goto(w, "retry")
  /\ UNCHANGED <<bull, txn, redis, money, outcome>>

\* Any other failure releases the lock first.
ReleaseFailed(w) ==
  /\ pc[w] = "failed"
  /\ \/ ReleaseLock(Key(w)) /\ Goto(w, "retry") /\ UNCHANGED <<bull, txn>>
     \/ "release" \in Faults /\ UNCHANGED redis /\ Throw(w)
  /\ UNCHANGED <<money, outcome>>

\* job.attemptsMade + 1 >= payment.maxRetries, with job read at pick-up.
Exhausted(w) == made[w] + 1 >= maxRetries[job[w]]

\* Faulty variant of RetryOrGiveUp: the error is swallowed, not rethrown.
SwallowOrGiveUp(w) ==
  /\ pc[w] = "retry"
  /\ \/ ~Exhausted(w) /\ Return(w) /\ UNCHANGED outcome
     \/ Exhausted(w) /\ DeadLetter(w) /\ Return(w)
  /\ UNCHANGED <<redis, money>>

RetryOrGiveUp(w) ==
  /\ pc[w] = "retry"
  /\ \/ ~Exhausted(w) /\ Throw(w) /\ UNCHANGED outcome
     \/ Exhausted(w) /\ DeadLetter(w) /\ Return(w)
     \/ Exhausted(w) /\ DeadLetterFails(w)
  /\ UNCHANGED <<redis, money>>

-----------------------------------------------------------------------------
(* The environment. *)

\* The payment record vouches for this charge: completed, with its id.
Named(k, t) == db[k] = "completed" /\ named[k] = t

\* The process dies: its runs vanish, Redis and the repository stay.
Crash(w) ==
  /\ "crash" \in Faults
  /\ pc[w] # "idle"
  /\ Leave(w)
  /\ owner' = [j \in Jobs |-> IF owner[j] = w THEN None ELSE owner[j]]
  /\ lost' = IF txn[w] # None /\ ~Named(Key(w), txn[w])
               THEN lost \cup {txn[w]} ELSE lost
  /\ UNCHANGED <<jobState, maxRetries, attemptsMade, stalled>>
  /\ UNCHANGED <<redis, db, named, charges, voided, outcome>>

\* The job's lock is not renewed in time, the worker runs on.
Stall(w) ==
  /\ "stall" \in Faults
  /\ pc[w] # "idle" /\ owner[job[w]] = w
  /\ owner' = [owner EXCEPT ![job[w]] = None]
  /\ UNCHANGED <<jobState, maxRetries, attemptsMade, stalled>>
  /\ UNCHANGED <<run, redis, money, outcome>>

\* LOCK_TTL_SEC elapses: normally only once the taker has died.
LockExpires(k) ==
  /\ \/ "ttl" \in Faults
     \/ ~\E w \in Workers : pc[w] \in LockedPCs /\ Key(w) = k
  /\ DropLock(k)
  /\ UNCHANGED <<bull, run, money, outcome>>

ResultExpires(k) ==
  /\ "evict" \in Faults
  /\ DropResult(k)
  /\ UNCHANGED <<bull, run, money, outcome>>

-----------------------------------------------------------------------------
\* One step of a run of process().
Step(w) ==
  \/ GetResult(w) \/ GetRecord(w) \/ Backfill(w)
  \/ TryLock(w) \/ LookupFails(w) \/ LoseReply(w)
  \/ CheckLock(w) \/ QueryGateway(w) \/ StoreSettled(w)
  \/ Authorize(w) \/ Capture(w) \/ WriteLedger(w) \/ CacheResult(w)
  \/ Notify(w) \/ ReverseLedger(w) \/ Unwind(w)
  \/ GiveUpDeclined(w) \/ ReleaseDeclined(w)
  \/ ReleaseFailed(w) \/ RetryOrGiveUp(w)

Next ==
  \/ \E j \in Jobs : Submit(j) \/ Remove(j) \/ Redeliver(j)
  \/ \E w \in Workers, j \in Jobs : Take(w, j) \/ Refuse(w, j)
  \/ \E w \in Workers : Step(w) \/ Crash(w) \/ Stall(w)
  \/ \E k \in Keys : LockExpires(k) \/ ResultExpires(k)

Spec == Init /\ [][Next]_vars

\* Workers fetch waiting jobs and promises settle; lapsed job locks and lock
\* TTLs are noticed.  Nothing obliges a client to submit or a fault to occur.
FairSpec ==
  /\ Spec
  /\ \A w \in Workers : WF_vars(Step(w))
  /\ \A j \in Jobs : WF_vars(\E w \in Workers : Take(w, j) \/ Refuse(w, j))
  /\ \A j \in Jobs : WF_vars(Redeliver(j))
  /\ \A k \in Keys : WF_vars(LockExpires(k))
-----------------------------------------------------------------------------
(* Safety. *)

\* The charges that stand and the system knows of.
Kept(k) == Live(k) \ lost

\* The record names some charge of the payment.
Recorded(k) == \E t \in charges[k] : Named(k, t)

\* A run in its saga that carries transaction t of payment k.
Carries(w, t, k) == txn[w] = t /\ job[w] # None /\ Key(w) = k

\* No silent money leak: a charge that stands is the one the payment record
\* names as completed, or a run still carries its transaction and will record
\* or unwind it (writeLedgerEntry, reverseLedgerEntry, voidAuthorization).  One
\* run of a payment at a time, through retries, failing saga steps and
\* compensations; a crash or a lost answer costs the charge in flight, which
\* nothing knows of.
LedgerBacksCharges ==
  \A k \in Keys : \A t \in Kept(k) :
    Named(k, t) \/ \E w \in Workers : Carries(w, t, k)

\* With several runs of a payment that does not hold: two charges may stand,
\* and the record, overwritten by each run, names the last one only.  What is
\* left: for a charge that stands, the payment is recorded completed under a
\* charge made for it, though perhaps another, or a run still carries it.
ChargedIsRecorded ==
  \A k \in Keys : \A t \in Live(k) :
    \/ Recorded(k)
    \/ \E w \in Workers : Carries(w, t, k)

\* A lock never outlives the attempt that took it: while the entry exists some
\* run of that payment is still before its DEL.  Otherwise the retry would
\* find the lock and give the payment up to reconcile (process, 173-201).
NoOrphanLock ==
  \A k \in locks : \E w \in Workers :
    pc[w] \in LockedPCs \ {"notify"} /\ Key(w) = k

\* Whether the system may not know of a charge it made.
MayLose == Faults \cap {"timeout", "crash"} # {}

\* Whether a step of the saga after its record may throw.
MayUnwindRecorded == Faults \cap {"notify", "store"} # {}

\* What the system vouches for, however its locks, caches, retries and dead
\* letters work together: a payment is charged anew only when none of its
\* charges stands and none is recorded, is reported completed only on a record
\* or a lost charge, and is given up only with no charge standing.  A crash or
\* a lost answer costs the charge in flight and no more.  For one job per
\* payment whose run is not redelivered while it goes on.
Promise == INSTANCE Payment WITH
  charge <- [k \in Keys |-> Kept(k)],
  lost   <- [k \in Keys |-> lost \cap charges[k]],
  record <- db, told <- reported, letters <- dlq

ImplementsPayment == Promise!Spec

\* Of all the transactions authorized for a payment at most one stands that the
\* system knows of: a crash or a lost answer costs the customer the charge in
\* flight, and none of the retries after it charges twice.
OneAccountedCharge == \A k \in Keys : \A t, u \in Kept(k) : t = u

\* The customer pays once: of all transactions authorized for a payment over
\* its attempts, resubmissions and lost cache entries, at most one is live.
AtMostOneCharge == \A k \in Keys : \A t, u \in Live(k) : t = u

\* Nothing is told or recorded as done that the gateway never charged, in
\* particular by a reconciliation or a backfill by another run.
CompletedIsBacked ==
  \A k \in Keys :
    "completed" \in reported[k] \/ k \in results \/ db[k] # "none"
      => charges[k] # {}

\* ... and what is told, cached or recorded as done stays charged: no charge is
\* voided behind it.  For one run at a time whose saga fails before its record
\* or not at all; a failing storeResult or notification voids a charge that is
\* recorded (writeLedgerEntry, 255; reverseLedgerEntry leaves the cache alone).
CompletedIsPaid ==
  \A k \in Keys :
    "completed" \in reported[k] \/ k \in results \/ db[k] # "none"
      => Live(k) # {}

\* When BullMQ regards a job as done its payment was reported completed or is
\* in the dead letter queue: no return of process() loses a payment.
CompletedJobsAreResolved ==
  \A j \in Jobs : jobState[j] = "completed" =>
    "completed" \in reported[KeyOf[j]] \/ KeyOf[j] \in dlq

\* A payment whose retries are used up is reported failed and moved to the
\* dead letter queue (README, "Failure path"): no job fails outside of it.
FailedJobsAreDeadLettered ==
  \A j \in Jobs : jobState[j] = "failed" => KeyOf[j] \in dlq

\* An accepted payment does not vanish: it is eventually reported completed, or
\* is dead-lettered, or one of its jobs is left in BullMQ's failed set, where
\* removeOnFail: false keeps it.  However its attempts fail, are refused or
\* stall, the lock they took does not send the next one into reconcile, which
\* would end the job with nothing reported (191, 302-317).
NoPaymentVanishes ==
  \A j \in Jobs : jobState[j] = "waiting" ~>
    \/ "completed" \in reported[KeyOf[j]] \/ KeyOf[j] \in dlq
    \/ \E i \in Jobs : KeyOf[i] = KeyOf[j] /\ jobState[i] = "failed"

=============================================================================
