---------------------------- MODULE QueueManager ----------------------------
(***************************************************************************)
(* QueueManagerService of one pod and the BullMQ queues behind it: jobs    *)
(* are added and taken, and shutdown pauses the queues, closes the workers *)
(* within a grace period and then the queue clients.  Queues and jobs live *)
(* in Redis, the phase of the shutdown in the process.                     *)
(***************************************************************************)
EXTENDS Naturals, FiniteSets

CONSTANTS
  Jobs,         \* calls of enqueue
  IdOf,         \* the jobId of a job: the idempotency key of its payment
  WorkQueues,   \* payments-{gatewayId}-{priority}
  QueueOf,      \* the work queue of a job's gateway and priority
  Delayed,      \* the jobs enqueued with a delayMs
  Single,       \* the jobs with maxRetries = 0, that is, with one attempt
  Concurrency,  \* of each worker pool
  scheduled, dlq

ASSUME QueueTypes ==
  /\ DOMAIN IdOf = Jobs
  /\ QueueOf \in [Jobs -> WorkQueues]
  /\ Delayed \subseteq Jobs /\ Single \subseteq Jobs
  /\ scheduled \notin WorkQueues /\ dlq \notin WorkQueues /\ scheduled # dlq
  /\ Concurrency \in Nat \ {0}

VARIABLES
  jobState,    \* [Jobs -> JobStates]
  lapsed,      \* active jobs that nobody works on
  stalled,     \* jobs that BullMQ has found stalled once
  zombies,     \* runs that go on although their job was taken from them
  letters,     \* payments-dlq
  unlettered,  \* ghost: jobs whose dlq.add was rejected
  paused,      \* queues paused in Redis
  phase,       \* where shutdown is
  expired,     \* whether its grace period has run out
  aborted      \* whether it has rejected

jobVars == <<jobState, lapsed, stalled, zombies>>
letterVars == <<letters, unlettered>>
shutdownVars == <<paused, phase, expired, aborted>>
queueVars == <<jobVars, letterVars, shutdownVars>>

\* A job that waits for its delay or its backoff is waiting too.
JobStates == {"absent", "waiting", "active", "completed", "failed"}
Phases == {"up", "pausing", "draining", "closed"}

\* registerGateway and ensureSpecialQueues create the queues; onModuleInit
\* attaches a worker pool to each work queue and to no other.
Registered == WorkQueues \cup {scheduled, dlq}
Staffed == WorkQueues

\* The run of process that works on a job: one until the job is found stalled,
\* whether its attempt threw or just went on, and one after it.
RunOf(j) == <<j, j \in stalled>>
RunIds == Jobs \X BOOLEAN

QueueTypeOK ==
  /\ jobState \in [Jobs -> JobStates]
  /\ stalled \subseteq Jobs
  /\ zombies \subseteq RunIds
  /\ lapsed \subseteq {j \in Jobs : jobState[j] = "active"}
  /\ letters \subseteq {IdOf[j] : j \in Jobs} /\ unlettered \subseteq Jobs
  /\ paused \subseteq Registered
  /\ phase \in Phases /\ expired \in BOOLEAN /\ aborted \in BOOLEAN

QueueInit ==
  /\ jobState = [j \in Jobs |-> "absent"]
  /\ lapsed = {} /\ stalled = {} /\ zombies = {}
  /\ letters = {} /\ unlettered = {}
  /\ paused = {} /\ phase = "up" /\ expired = FALSE /\ aborted = FALSE

-----------------------------------------------------------------------------
(* Jobs come and are taken. *)

\* The queue a job is added to.
Holder(j) == IF j \in Delayed THEN scheduled ELSE QueueOf[j]

\* Some queue client of this pod is open.
ClientsOpen == phase # "closed" \/ aborted

\* enqueue: neither a pause nor shuttingDown keeps a job out, only a closed
\* client does.
Enqueue(j) ==
  /\ ClientsOpen
  /\ jobState[j] = "absent"
  /\ jobState' = [jobState EXCEPT ![j] = "waiting"]
  /\ UNCHANGED <<lapsed, stalled, zombies, letterVars, shutdownVars>>

\* The jobs that a worker of this pod works on.
Active == {j \in Jobs : jobState[j] = "active"} \ lapsed

\* Faulty variant of HasRoom: one pool serves the queues of all gateways.
HasRoomInOnePool(q) == Cardinality(Active) + Cardinality(zombies) < Concurrency

\* Each queue has a pool of its own, which stalled runs occupy too.
HasRoom(q) ==
  Cardinality({j \in Active : Holder(j) = q})
    + Cardinality({r \in zombies : Holder(r[1]) = q}) < Concurrency

\* A worker that is not closing takes a job whose delay is over.
WorkersUp == phase \in {"up", "pausing"}
Fetchable(j) ==
  /\ WorkersUp
  /\ jobState[j] = "waiting"
  /\ Holder(j) \in Staffed \ paused
  /\ HasRoom(Holder(j))

\* It passes the gates of process ...
Fetch(j) ==
  /\ Fetchable(j)
  /\ jobState' = [jobState EXCEPT ![j] = "active"]
  /\ UNCHANGED <<lapsed, stalled, zombies, letterVars, shutdownVars>>

\* An attempt threw.  The last one fails the job.  Any other leaves it active
\* with nobody working on it: the backoff "exponentialWithJitter" of enqueue
\* has no strategy in the workers of attachWorker, so BullMQ throws instead of
\* scheduling the retry, and emits no 'failed'.
Failed(j) ==
  /\ \/ /\ j \in Single /\ UNCHANGED lapsed
        /\ jobState' = [jobState EXCEPT ![j] = "failed"]
     \/ /\ j \notin Single /\ lapsed' = lapsed \cup {j}
        /\ jobState' = [jobState EXCEPT ![j] = "active"]
  /\ UNCHANGED <<stalled, zombies>>

\* ... or is refused by the breaker or the bucket.
FetchRefused(j) ==
  /\ Fetchable(j)
  /\ Failed(j)
  /\ UNCHANGED <<letterVars, shutdownVars>>

-----------------------------------------------------------------------------
(* Runs end. *)

Completed(j) ==
  /\ jobState' = [jobState EXCEPT ![j] = "completed"]
  /\ UNCHANGED <<lapsed, stalled, zombies>>

Complete(j) ==
  /\ j \in Active
  /\ Completed(j)
  /\ UNCHANGED <<letterVars, shutdownVars>>

Fail(j) ==
  /\ j \in Active
  /\ Failed(j)
  /\ UNCHANGED <<letterVars, shutdownVars>>

\* moveToDeadLetter, while the client of payments-dlq is open.
AddLetter(j) ==
  /\ ClientsOpen
  /\ letters' = letters \cup {IdOf[j]}
  /\ UNCHANGED unlettered

\* Its add rejects once that client is closed.
LoseLetter(j) ==
  /\ phase = "closed"
  /\ unlettered' = unlettered \cup {j}
  /\ UNCHANGED letters

\* process gives the payment up.
GiveUp(j) ==
  /\ j \in Active /\ AddLetter(j) /\ Completed(j)
  /\ UNCHANGED shutdownVars

\* ... and throws when it could not.
GiveUpInVain(j) ==
  /\ j \in Active /\ LoseLetter(j) /\ Failed(j)
  /\ UNCHANGED shutdownVars

-----------------------------------------------------------------------------
(* BullMQ's lock on a job lapses: because nobody works on it, or because the *)
(* run that does could not renew it in time and goes on.                     *)

\* What becomes of the run, if there is one.
Orphan(j) ==
  /\ lapsed' = lapsed \ {j}
  /\ zombies' = IF j \in lapsed THEN zombies ELSE zombies \cup {RunOf(j)}
  /\ UNCHANGED <<letterVars, shutdownVars>>

\* Faulty variant of Redeliver: the job is still taken for one without a run.
RedeliverAsLapsed(j) ==
  /\ WorkersUp /\ jobState[j] = "active" /\ j \notin stalled
  /\ jobState' = [jobState EXCEPT ![j] = "waiting"]
  /\ stalled' = stalled \cup {j}
  /\ UNCHANGED <<lapsed, zombies, letterVars, shutdownVars>>

\* The first time the job waits again (maxStalledCount is 1).
Redeliver(j) ==
  /\ WorkersUp /\ jobState[j] = "active" /\ j \notin stalled
  /\ jobState' = [jobState EXCEPT ![j] = "waiting"]
  /\ stalled' = stalled \cup {j}
  /\ Orphan(j)

\* The second time it fails, whatever attempts it has left.
StallOut(j) ==
  /\ WorkersUp /\ jobState[j] = "active" /\ j \in stalled
  /\ jobState' = [jobState EXCEPT ![j] = "failed"]
  /\ Orphan(j)
  /\ UNCHANGED stalled

\* A run that has lost its job ends: it cannot settle the job, but it may
\* dead-letter the payment.
ZombieEnds(r) ==
  /\ r \in zombies
  /\ zombies' = zombies \ {r}
  /\ AddLetter(r[1]) \/ LoseLetter(r[1]) \/ UNCHANGED letterVars
  /\ UNCHANGED <<jobState, lapsed, stalled, shutdownVars>>

-----------------------------------------------------------------------------
(* shutdown.  A promise it awaits may reject: then it rejects too, whatever  *)
(* was already asked for goes on, and later calls return at once.            *)

\* Only the first call does anything.
BeginShutdown ==
  /\ phase = "up" /\ phase' = "pausing"
  /\ UNCHANGED <<jobVars, letterVars, paused, expired, aborted>>

\* The pauses of all queues run at once, in any order.
PauseQueue(q) ==
  /\ phase = "pausing" /\ q \in Registered \ paused
  /\ paused' = paused \cup {q}
  /\ UNCHANGED <<jobVars, letterVars, phase, expired, aborted>>

\* The pause of a queue rejects: the workers are never told to close.
PauseFails ==
  /\ phase = "pausing" /\ paused # Registered /\ ~aborted
  /\ aborted' = TRUE
  /\ UNCHANGED <<jobVars, letterVars, paused, phase, expired>>

\* The workers are told to close, the grace period begins.
CloseWorkers ==
  /\ phase = "pausing" /\ paused = Registered /\ ~aborted
  /\ phase' = "draining"
  /\ UNCHANGED <<jobVars, letterVars, paused, expired, aborted>>

GraceExpires ==
  /\ phase = "draining" /\ ~expired /\ expired' = TRUE
  /\ UNCHANGED <<jobVars, letterVars, paused, phase, aborted>>

\* The close of a worker rejects before the time is up: the queue clients are
\* never closed.
CloseFails ==
  /\ phase = "draining" /\ ~expired /\ ~aborted
  /\ aborted' = TRUE
  /\ UNCHANGED <<jobVars, letterVars, paused, phase, expired>>

Drained == Active = {} /\ zombies = {}

\* Faulty variant of CloseQueues: the closing of the workers is not awaited.
CloseQueuesAtOnce ==
  /\ phase = "draining" /\ ~aborted
  /\ phase' = "closed" /\ aborted' \in BOOLEAN
  /\ UNCHANGED <<jobVars, letterVars, paused, expired>>

\* Faulty variant of CloseQueues: no grace period bounds the wait.
CloseQueuesWhenDrained ==
  /\ phase = "draining" /\ ~aborted /\ Drained
  /\ phase' = "closed" /\ aborted' \in BOOLEAN
  /\ UNCHANGED <<jobVars, letterVars, paused, expired>>

\* Promise.race: every worker has closed, or the time is up.  The close of a
\* client may reject, and that client stay open.
CloseQueues ==
  /\ phase = "draining" /\ ~aborted /\ (Drained \/ expired)
  /\ phase' = "closed" /\ aborted' \in BOOLEAN
  /\ UNCHANGED <<jobVars, letterVars, paused, expired>>
=============================================================================
