---------------------- MODULE PaymentProcessorProofs ----------------------
(***************************************************************************)
(* Theorems about PaymentProcessor, for any jobs, workers, payments,       *)
(* transactions and retry limits.                                          *)
(***************************************************************************)
EXTENDS PaymentProcessor, TLAPS

-----------------------------------------------------------------------------
(* Types.  attemptsMade stays in range because no job that is waiting or   *)
(* active has a counted attempt: only the throw that fails a job counts.   *)

\* Where a run carries the transaction its saga has authorized.
TxnPCs == {"capture", "ledger", "store", "notify", "reverse", "unwind"}

RunInv ==
  /\ jobState \in [Jobs -> JobStates]
  /\ maxRetries \in [Jobs -> Nat]
  /\ attemptsMade \in [Jobs -> 0..1]
  /\ stalled \subseteq Jobs
  /\ owner \in [Jobs -> Workers \cup {None}]
  /\ pc \in [Workers -> PCs]
  /\ job \in [Workers -> Jobs \cup {None}]
  /\ made \in [Workers -> 0..1]
  /\ txn \in [Workers -> Txns \cup {None}]
  /\ \A w \in Workers : /\ pc[w] = "idle" <=> job[w] = None
                        /\ pc[w] \in TxnPCs <=> txn[w] # None
  /\ \A j \in Jobs :
       /\ jobState[j] \in {"waiting", "active"} => attemptsMade[j] = 0
       /\ owner[j] # None => jobState[j] = "active"

DataInv ==
  /\ RedisTypeOK
  /\ db \in [Keys -> {"none", "completed", "compensated"}]
  /\ named \in [Keys -> Txns \cup {None}]
  /\ charges \in [Keys -> SUBSET Txns]
  /\ voided \subseteq Txns /\ lost \subseteq Txns
  /\ reported \in [Keys -> SUBSET {"completed", "failed"}]
  /\ dlq \subseteq Keys

LEMMA TypeParts == RunInv /\ DataInv => TypeOK
  BY DEF RunInv, DataInv, TypeOK

\* A run past its start carries a job, hence a key.
LEMMA KeyType ==
  ASSUME RunInv, NEW w \in Workers, pc[w] # "idle"
  PROVE  job[w] \in Jobs /\ Key(w) \in Keys
  BY KeyOfType DEF RunInv, Key

LEMMA GotoRun ==
  ASSUME RunInv, NEW w \in Workers, pc[w] # "idle",
         NEW l \in PCs \ {"idle"}, Goto(w, l), UNCHANGED bull,
         txn' \in [Workers -> Txns \cup {None}],
         \A v \in Workers \ {w} : txn'[v] = txn[v],
         l \in TxnPCs <=> txn'[w] # None
  PROVE  RunInv'
  BY DEF RunInv, Goto, bull

LEMMA ReturnRun ==
  ASSUME RunInv, NEW w \in Workers, pc[w] # "idle", Return(w)
  PROVE  RunInv'
  BY KeyType, NoneIsNone
  DEF RunInv, Return, Leave, Resolve, bull, PCs, TxnPCs, JobStates

LEMMA RejectRun ==
  ASSUME RunInv, NEW j \in Jobs, jobState[j] \in {"waiting", "active"},
         Reject(j), UNCHANGED run
  PROVE  RunInv'
  BY NoneIsNone DEF RunInv, Reject, run, JobStates

LEMMA ThrowRun ==
  ASSUME RunInv, NEW w \in Workers, pc[w] # "idle", Throw(w)
  PROVE  RunInv'
  BY KeyType, NoneIsNone
  DEF RunInv, Throw, Leave, Reject, bull, PCs, TxnPCs, JobStates
LEMMA EntryPCs ==
  PCs = {"authorize", "capture", "ledger", "store", "notify", "reverse",
         "unwind", "failed", "declined", "release", "idle", "result",
         "record", "backfill", "lock", "haslock", "query", "settle", "retry"}
  BY DEF PCs, LockedPCs, SagaPCs

\* A step of a run keeps the types of BullMQ and of the runs.
LEMMA StepRun ==
  ASSUME RunInv, DataInv, NEW w \in Workers, Step(w)
  PROVE  RunInv'
PROOF
<1> USE EntryPCs, NoneIsNone DEF TxnPCs
<1>1. CASE GetResult(w)
  BY <1>1, GotoRun, ReturnRun DEF GetResult, RunInv
<1>2. CASE GetRecord(w)
  BY <1>2, GotoRun DEF GetRecord, RunInv
<1>3. CASE Backfill(w)
  BY <1>3, ReturnRun DEF Backfill
<1>4. CASE TryLock(w)
  BY <1>4, GotoRun DEF TryLock, RunInv
<1>5. CASE LookupFails(w)
  BY <1>5, ThrowRun DEF LookupFails
<1>6. CASE CheckLock(w)
  BY <1>6, GotoRun, ReturnRun DEF CheckLock, RunInv
<1>7. CASE QueryGateway(w)
  BY <1>7, GotoRun, ReturnRun DEF QueryGateway, RunInv
<1>8. CASE StoreSettled(w)
  BY <1>8, ReturnRun DEF StoreSettled
<1>9. CASE Authorize(w)
  BY <1>9, GotoRun DEF Authorize, RunInv
<1>10. CASE Capture(w)
  BY <1>10, GotoRun DEF Capture, RunInv
<1>11. CASE WriteLedger(w)
  BY <1>11, GotoRun DEF WriteLedger, RunInv
<1>12. CASE CacheResult(w)
  BY <1>12, GotoRun DEF CacheResult, RunInv
<1>13. CASE Notify(w)
  BY <1>13, GotoRun, ReturnRun DEF Notify, RunInv
<1>14. CASE ReverseLedger(w)
  BY <1>14, GotoRun DEF ReverseLedger, RunInv
<1>15. CASE Unwind(w)
  BY <1>15, GotoRun DEF Unwind, RunInv
<1>16. CASE GiveUpDeclined(w)
  BY <1>16, GotoRun, ThrowRun DEF GiveUpDeclined, DeadLetterFails, RunInv
<1>17. CASE ReleaseDeclined(w)
  BY <1>17, ReturnRun, ThrowRun DEF ReleaseDeclined
<1>18. CASE ReleaseFailed(w)
  BY <1>18, GotoRun, ThrowRun DEF ReleaseFailed, RunInv
<1>19. CASE RetryOrGiveUp(w)
  BY <1>19, ReturnRun, ThrowRun DEF RetryOrGiveUp, DeadLetterFails
<1>20. CASE LoseReply(w)
  BY <1>20, GotoRun, ThrowRun DEF LoseReply, RunInv
<1> QED
  BY <1>1, <1>2, <1>3, <1>4, <1>5, <1>6, <1>7, <1>8, <1>9, <1>10, <1>11,
     <1>12, <1>13, <1>14, <1>15, <1>16, <1>17, <1>18, <1>19, <1>20 DEF Step

\* ... and the types of what it stores.
LEMMA StepData ==
  ASSUME RunInv, DataInv, NEW w \in Workers, Step(w)
  PROVE  DataInv'
PROOF
<1>1. pc[w] # "idle"
  BY DEF Step, GetResult, GetRecord, Backfill, TryLock, LookupFails,
     LoseReply, CheckLock, QueryGateway, StoreSettled, Authorize, Capture,
     WriteLedger, CacheResult, Notify, ReverseLedger, Unwind, GiveUpDeclined,
     ReleaseDeclined, ReleaseFailed, RetryOrGiveUp
<1>2. Key(w) \in Keys
  BY <1>1, KeyType
<1> USE <1>2 DEF DataInv, RedisTypeOK, redis, money, outcome
<1>3. CASE GetResult(w)
  BY <1>3 DEF GetResult, Finalize
<1>4. CASE Backfill(w)
  BY <1>4 DEF Backfill, StoreResult, Finalize
<1>5. CASE TryLock(w)
  BY <1>5 DEF TryLock, AcquireLock
<1>6. CASE StoreSettled(w)
  BY <1>6 DEF StoreSettled, StoreResult, Finalize
<1>7. CASE Authorize(w)
  BY <1>7 DEF Authorize, Charge
<1>8. CASE WriteLedger(w)
  BY <1>8 DEF WriteLedger, UpsertStatus, RunInv
<1>9. CASE CacheResult(w)
  BY <1>9 DEF CacheResult, StoreResult
<1>10. CASE Notify(w)
  BY <1>10 DEF Notify, Finalize
<1>11. CASE ReverseLedger(w)
  BY <1>11 DEF ReverseLedger, UpsertStatus
<1>12. CASE Unwind(w)
  BY <1>12 DEF Unwind, RunInv, TxnPCs
<1>13. CASE GiveUpDeclined(w)
  BY <1>13 DEF GiveUpDeclined, DeadLetter, DeadLetterFails, Finalize
<1>14. CASE ReleaseDeclined(w) \/ ReleaseFailed(w)
  BY <1>14 DEF ReleaseDeclined, ReleaseFailed, ReleaseLock
<1>15. CASE RetryOrGiveUp(w)
  BY <1>15 DEF RetryOrGiveUp, DeadLetter, DeadLetterFails, Finalize
<1>16. CASE GetRecord(w) \/ LookupFails(w) \/ CheckLock(w)
            \/ QueryGateway(w) \/ Capture(w)
  BY <1>16 DEF GetRecord, LookupFails, CheckLock, QueryGateway, Capture
<1>17. CASE LoseReply(w)
  BY <1>17 DEF LoseReply, AcquireLock, StoreResult, ReleaseLock
<1> QED
  BY <1>3, <1>4, <1>5, <1>6, <1>7, <1>8, <1>9, <1>10, <1>11, <1>12, <1>13,
     <1>14, <1>15, <1>16, <1>17 DEF Step

LEMMA TypeInductive ==
  ASSUME RunInv, DataInv, [Next]_vars
  PROVE  RunInv' /\ DataInv'
PROOF
<1>1. ASSUME NEW w \in Workers, Step(w)
      PROVE  RunInv' /\ DataInv'
  BY <1>1, StepRun, StepData
<1>2. ASSUME NEW w \in Workers, NEW j \in Jobs, Take(w, j)
      PROVE  RunInv' /\ DataInv'
  BY <1>2, NoneIsNone
  DEF Take, RunInv, DataInv, RedisTypeOK, redis, money, outcome, PCs,
      LockedPCs, SagaPCs, TxnPCs, JobStates
<1>3. ASSUME NEW w \in Workers, NEW j \in Jobs, Refuse(w, j)
      PROVE  RunInv' /\ DataInv'
  BY <1>3, RejectRun DEF Refuse, DataInv, RedisTypeOK, redis, money, outcome
<1>4. ASSUME NEW j \in Jobs, Submit(j) \/ Remove(j) \/ Redeliver(j)
      PROVE  RunInv' /\ DataInv'
  BY <1>4, RetryLimitsType
  DEF Submit, Remove, Redeliver, RunInv, DataInv, RedisTypeOK, run, redis,
      money, outcome, JobStates
<1>5. ASSUME NEW w \in Workers, Crash(w) \/ Stall(w)
      PROVE  RunInv' /\ DataInv'
  <2>1. DataInv'
    BY <1>5 DEF Crash, Stall, Leave, RunInv, DataInv, RedisTypeOK, redis,
        money, outcome
  <2>2. CASE Crash(w)
    BY <2>1, <2>2, NoneIsNone
    DEF Crash, Leave, RunInv, PCs, TxnPCs
  <2>3. CASE Stall(w)
    BY <2>1, <2>3, KeyType, NoneIsNone DEF Stall, RunInv, run
  <2> QED BY <1>5, <2>1, <2>2, <2>3
<1>6. ASSUME NEW k \in Keys, LockExpires(k) \/ ResultExpires(k)
      PROVE  RunInv' /\ DataInv'
  BY <1>6 DEF LockExpires, ResultExpires, DropLock, DropResult, RunInv,
      DataInv, RedisTypeOK, bull, run, money, outcome
<1>7. CASE UNCHANGED vars
  BY <1>7 DEF vars, bull, run, redis, money, outcome, RunInv, DataInv,
      RedisTypeOK
<1> QED
  BY <1>1, <1>2, <1>3, <1>4, <1>5, <1>6, <1>7 DEF Next

LEMMA TypeInitial == Init => RunInv /\ DataInv
  BY NoneIsNone
  DEF Init, RedisInit, RunInv, DataInv, RedisTypeOK, PCs, TxnPCs, JobStates

\* Every variable keeps to its type; in particular BullMQ never counts a
\* second failed attempt of a job: the first it counts is the last.
THEOREM TypeCorrect == Spec => []TypeOK
PROOF
<1>1. Init => RunInv /\ DataInv
  BY TypeInitial
<1>2. RunInv /\ DataInv /\ [Next]_vars => (RunInv /\ DataInv)'
  BY TypeInductive
<1>3. RunInv /\ DataInv => TypeOK
  BY TypeParts
<1> QED
  BY <1>1, <1>2, <1>3, PTL DEF Spec

-----------------------------------------------------------------------------
(* Frames: what a step of one run leaves alone.                            *)

\* No step touches another run, and a run keeps its job until it is over.
LEMMA StepFrame ==
  ASSUME RunInv, NEW w \in Workers, Step(w)
  PROVE  /\ pc[w] # "idle" /\ Key(w) \in Keys
         /\ pc'[w] = "idle" \/ (job'[w] = job[w] /\ Key(w)' = Key(w))
         /\ \A v \in Workers \ {w} :
              /\ pc'[v] = pc[v] /\ job'[v] = job[v] /\ txn'[v] = txn[v]
              /\ Key(v)' = Key(v)
PROOF
<1>1. pc[w] # "idle"
  BY DEF Step, GetResult, GetRecord, Backfill, TryLock, LookupFails,
     LoseReply, CheckLock, QueryGateway, StoreSettled, Authorize, Capture,
     WriteLedger, CacheResult, Notify, ReverseLedger, Unwind, GiveUpDeclined,
     ReleaseDeclined, ReleaseFailed, RetryOrGiveUp
<1>2. /\ (\E l \in PCs : Goto(w, l)) \/ Leave(w)
      /\ \/ UNCHANGED txn
         \/ \E t \in Txns \cup {None} : txn' = [txn EXCEPT ![w] = t]
  <2> USE EntryPCs
  <2>1. CASE GetResult(w)
    BY <2>1 DEF GetResult, Return, Leave
  <2>2. CASE GetRecord(w)
    BY <2>2 DEF GetRecord
  <2>3. CASE Backfill(w) \/ StoreSettled(w)
    BY <2>3 DEF Backfill, StoreSettled, Return, Leave
  <2>4. CASE TryLock(w) \/ LookupFails(w)
    BY <2>4 DEF TryLock, LookupFails, Throw, Leave
  <2>5. CASE CheckLock(w) \/ QueryGateway(w)
    BY <2>5 DEF CheckLock, QueryGateway, Return, Leave
  <2>6. CASE Authorize(w) \/ Capture(w) \/ WriteLedger(w) \/ CacheResult(w)
    BY <2>6 DEF Authorize, Capture, WriteLedger, CacheResult
  <2>7. CASE Notify(w) \/ ReverseLedger(w) \/ Unwind(w)
    BY <2>7 DEF Notify, ReverseLedger, Unwind, Return, Leave
  <2>8. CASE GiveUpDeclined(w) \/ ReleaseDeclined(w)
    BY <2>8 DEF GiveUpDeclined, ReleaseDeclined, DeadLetterFails, Return,
        Throw, Leave
  <2>9. CASE ReleaseFailed(w) \/ RetryOrGiveUp(w)
    BY <2>9 DEF ReleaseFailed, RetryOrGiveUp, DeadLetterFails, Return,
        Throw, Leave
  <2>10. CASE LoseReply(w)
    BY <2>10 DEF LoseReply, Throw, Leave
  <2> QED
    BY <2>1, <2>2, <2>3, <2>4, <2>5, <2>6, <2>7, <2>8, <2>9, <2>10 DEF Step
<1> QED
  BY <1>1, <1>2, KeyType DEF RunInv, Goto, Leave, Key

\* BullMQ's own steps and the expiry of entries change nothing of a run; a
\* worker that takes a job, or dies, changes only its own run.
LEMMA OtherFrame ==
  ASSUME RunInv, [Next]_vars,
         ~\E w \in Workers : Step(w)
  PROVE  /\ UNCHANGED <<db, named, charges, voided, outcome>>
         /\ results' \subseteq results /\ locks' \subseteq locks
         /\ \A w \in Workers :
              \/ pc'[w] = "idle"
              \/ pc'[w] = "result" /\ pc[w] = "idle"
              \/ pc'[w] = pc[w] /\ job'[w] = job[w] /\ Key(w)' = Key(w)
         /\ \A w \in Workers : txn'[w] = txn[w] \/ txn'[w] = None
PROOF
<1> DEFINE Frame ==
      /\ UNCHANGED <<db, named, charges, voided, outcome>>
      /\ results' \subseteq results /\ locks' \subseteq locks
      /\ \A w \in Workers :
           \/ pc'[w] = "idle"
           \/ pc'[w] = "result" /\ pc[w] = "idle"
           \/ pc'[w] = pc[w] /\ job'[w] = job[w] /\ Key(w)' = Key(w)
      /\ \A w \in Workers : txn'[w] = txn[w] \/ txn'[w] = None
<1>1. ASSUME NEW w \in Workers, NEW j \in Jobs, Take(w, j) PROVE Frame
  BY <1>1 DEF Take, RunInv, redis, money, Key
<1>2. ASSUME NEW w \in Workers, NEW j \in Jobs, Refuse(w, j) PROVE Frame
  BY <1>2 DEF Refuse, run, redis, money, Key
<1>3. ASSUME NEW j \in Jobs, Submit(j) \/ Remove(j) \/ Redeliver(j)
      PROVE  Frame
  BY <1>3 DEF Submit, Remove, Redeliver, run, redis, money, Key
<1>4. ASSUME NEW w \in Workers, Crash(w) \/ Stall(w) PROVE Frame
  BY <1>4 DEF Crash, Stall, Leave, RunInv, run, redis, money, Key
<1>5. ASSUME NEW k \in Keys, LockExpires(k) \/ ResultExpires(k) PROVE Frame
  BY <1>5 DEF LockExpires, ResultExpires, DropLock, DropResult, run, money, Key
<1>6. CASE UNCHANGED vars
  BY <1>6 DEF vars, bull, run, redis, money, Key
<1> QED
  BY <1>1, <1>2, <1>3, <1>4, <1>5, <1>6 DEF Next

-----------------------------------------------------------------------------
(* Nothing is reported, cached or recorded that was not charged.  The      *)
(* invariant follows the charge from the gateway to each of these places.  *)

\* Where a run is about to report, cache or record a charge.
BackedPCs ==
  {"capture", "ledger", "store", "notify", "reverse", "backfill", "settle"}

BackedInv ==
  /\ CompletedIsBacked
  /\ \A w \in Workers : pc[w] \in BackedPCs => charges[Key(w)] # {}

LEMMA BackedStep ==
  ASSUME RunInv, DataInv, BackedInv, NEW w \in Workers, Step(w)
  PROVE  BackedInv'
PROOF
<1>1. Key(w) \in Keys
  BY StepFrame
<1>2. \A k \in Keys : charges[k] \subseteq charges'[k]
  <2>1. CASE Authorize(w)
    BY <2>1, <1>1 DEF Authorize, Charge, money, DataInv
  <2>2. CASE ~Authorize(w)
    BY <2>2 DEF Step, GetResult, GetRecord, Backfill, TryLock, LookupFails,
       LoseReply, CheckLock, QueryGateway, StoreSettled, Capture, WriteLedger,
       CacheResult, Notify, ReverseLedger, Unwind, GiveUpDeclined,
       ReleaseDeclined, ReleaseFailed, RetryOrGiveUp, money
  <2> QED BY <2>1, <2>2
\* What this step reports, caches or records is its own payment's, and that
\* is charged.
<1>3. /\ pc'[w] \in BackedPCs => charges'[Key(w)] # {}
      /\ \A k \in Keys :
           \/ k = Key(w) /\ charges'[k] # {}
           \/ /\ "completed" \in reported'[k] => "completed" \in reported[k]
              /\ k \in results' => k \in results
              /\ db'[k] # "none" => db[k] # "none"
  <2> USE <1>1, <1>2 DEF BackedInv, BackedPCs, CompletedIsBacked, RunInv,
                         DataInv, Goto, Leave, Return, Throw, Finalize,
                         redis, money, outcome
  <2>1. CASE GetResult(w)
    BY <2>1 DEF GetResult, HasResult
  <2>2. CASE GetRecord(w)
    BY <2>2 DEF GetRecord
  <2>3. CASE Backfill(w)
    BY <2>3 DEF Backfill, StoreResult
  <2>4. CASE TryLock(w)
    BY <2>4 DEF TryLock, AcquireLock
  <2>5. CASE LookupFails(w)
    BY <2>5 DEF LookupFails
  <2>6. CASE CheckLock(w) \/ QueryGateway(w)
    BY <2>6 DEF CheckLock, QueryGateway, Live
  <2>7. CASE StoreSettled(w)
    BY <2>7 DEF StoreSettled, StoreResult
  <2>8. CASE Authorize(w)
    BY <2>8 DEF Authorize, Charge
  <2>9. CASE Capture(w)
    BY <2>9 DEF Capture
  <2>10. CASE WriteLedger(w)
    BY <2>10 DEF WriteLedger, UpsertStatus
  <2>11. CASE CacheResult(w)
    BY <2>11 DEF CacheResult, StoreResult
  <2>12. CASE Notify(w)
    BY <2>12 DEF Notify
  <2>13. CASE ReverseLedger(w)
    BY <2>13 DEF ReverseLedger, UpsertStatus
  <2>14. CASE Unwind(w)
    BY <2>14 DEF Unwind
  <2>15. CASE GiveUpDeclined(w)
    BY <2>15 DEF GiveUpDeclined, DeadLetter, DeadLetterFails
  <2>16. CASE ReleaseDeclined(w) \/ ReleaseFailed(w)
    BY <2>16 DEF ReleaseDeclined, ReleaseFailed, ReleaseLock
  <2>17. CASE RetryOrGiveUp(w)
    BY <2>17 DEF RetryOrGiveUp, DeadLetter, DeadLetterFails
  <2>18. CASE LoseReply(w)
    BY <2>18 DEF LoseReply, AcquireLock, StoreResult, ReleaseLock
  <2> QED
    BY <2>1, <2>2, <2>3, <2>4, <2>5, <2>6, <2>7, <2>8, <2>9, <2>10, <2>11,
       <2>12, <2>13, <2>14, <2>15, <2>16, <2>17, <2>18 DEF Step
<1>4. CompletedIsBacked'
  BY <1>2, <1>3 DEF BackedInv, CompletedIsBacked
<1>5. ASSUME NEW v \in Workers, pc'[v] \in BackedPCs
      PROVE  charges'[Key(v)'] # {}
  <2>1. CASE v = w
    BY <1>3, <1>5, <2>1, StepFrame DEF BackedPCs
  <2>2. CASE v # w
    <3>1. pc[v] \in BackedPCs /\ Key(v)' = Key(v)
      BY <1>5, <2>2, StepFrame
    <3>2. Key(v) \in Keys /\ charges[Key(v)] # {}
      BY <3>1, KeyType DEF BackedInv, BackedPCs
    <3> QED BY <1>2, <3>1, <3>2
  <2> QED BY <2>1, <2>2
<1> QED
  BY <1>4, <1>5 DEF BackedInv

LEMMA BackedInductive ==
  ASSUME RunInv, DataInv, BackedInv, [Next]_vars
  PROVE  BackedInv'
PROOF
<1>1. CASE \E w \in Workers : Step(w)
  BY <1>1, BackedStep
<1>2. CASE ~\E w \in Workers : Step(w)
  BY <1>2, OtherFrame
  DEF BackedInv, BackedPCs, CompletedIsBacked, outcome
<1> QED
  BY <1>1, <1>2

\* Whatever faults occur, a payment that is reported completed, cached or
\* recorded was authorized by the gateway: no shortcut of process() and no
\* reconciliation invents a success.
THEOREM NothingInvented == Spec => []CompletedIsBacked
PROOF
<1>1. Init => BackedInv
  BY DEF Init, RedisInit, BackedInv, BackedPCs, CompletedIsBacked
<1>2. RunInv /\ DataInv /\ BackedInv /\ [Next]_vars
        => (RunInv /\ DataInv /\ BackedInv)'
  BY TypeInductive, BackedInductive
<1>3. BackedInv => CompletedIsBacked
  BY DEF BackedInv
<1> QED
  BY TypeInitial, <1>1, <1>2, <1>3, PTL DEF Spec

-----------------------------------------------------------------------------
(* A lock is deleted by the attempt that took it.  Inductive as it stands: *)
(* the lock of a payment appears with a run at its saga, and a run leaves  *)
(* LockedPCs only by a step that deletes the entry.                        *)

LEMMA NoOrphanStep ==
  ASSUME Faults \cap {"crash", "release", "reply", "dlq"} = {},
         RunInv, NoOrphanLock, NEW w \in Workers, Step(w)
  PROVE  NoOrphanLock'
PROOF
<1> DEFINE Holding == LockedPCs \ {"notify"}
<1>1. Key(w) \in Keys
  BY StepFrame
\* The entry of another payment is left alone; the entry of this one, if it
\* is there afterwards, was there before or was set by this step.
<1>2. /\ \A k \in locks' : k = Key(w) \/ k \in locks
      /\ Key(w) \in locks' =>
           \/ pc'[w] \in Holding /\ Key(w)' = Key(w)
           \/ Key(w) \in locks /\ pc[w] \notin Holding
  <2> USE <1>1, StepFrame DEF LockedPCs, SagaPCs, RunInv, Goto, Leave, Return,
                              Throw, redis
  <2>1. CASE GetResult(w)
    BY <2>1 DEF GetResult
  <2>2. CASE GetRecord(w)
    BY <2>2 DEF GetRecord
  <2>3. CASE Backfill(w)
    BY <2>3 DEF Backfill, StoreResult
  <2>4. CASE TryLock(w)
    BY <2>4 DEF TryLock, AcquireLock
  <2>5. CASE LookupFails(w)
    BY <2>5 DEF LookupFails
  <2>6. CASE CheckLock(w) \/ QueryGateway(w)
    BY <2>6 DEF CheckLock, QueryGateway
  <2>7. CASE StoreSettled(w)
    BY <2>7 DEF StoreSettled, StoreResult
  <2>8. CASE Authorize(w)
    BY <2>8 DEF Authorize
  <2>9. CASE Capture(w)
    BY <2>9 DEF Capture
  <2>10. CASE WriteLedger(w)
    BY <2>10 DEF WriteLedger
  <2>11. CASE CacheResult(w)
    BY <2>11 DEF CacheResult, StoreResult
  <2>12. CASE Notify(w)
    BY <2>12 DEF Notify
  <2>13. CASE ReverseLedger(w) \/ Unwind(w)
    BY <2>13 DEF ReverseLedger, Unwind
  <2>14. CASE GiveUpDeclined(w)
    BY <2>14 DEF GiveUpDeclined, DeadLetterFails
  <2>15. CASE ReleaseDeclined(w) \/ ReleaseFailed(w)
    BY <2>15 DEF ReleaseDeclined, ReleaseFailed, ReleaseLock
  <2>16. CASE RetryOrGiveUp(w)
    BY <2>16 DEF RetryOrGiveUp, DeadLetterFails
  <2>17. CASE LoseReply(w)
    BY <2>17 DEF LoseReply
  <2> QED
    BY <2>1, <2>2, <2>3, <2>4, <2>5, <2>6, <2>7, <2>8, <2>9, <2>10, <2>11,
       <2>12, <2>13, <2>14, <2>15, <2>16, <2>17 DEF Step
<1>3. ASSUME NEW k \in locks'
      PROVE  \E v \in Workers : pc'[v] \in Holding /\ Key(v)' = k
  <2>1. CASE k = Key(w) /\ pc'[w] \in Holding /\ Key(w)' = Key(w)
    BY <2>1
  <2>2. CASE k \in locks /\ (k = Key(w) => pc[w] \notin Holding)
    <3>1. PICK v \in Workers : pc[v] \in Holding /\ Key(v) = k
      BY <2>2 DEF NoOrphanLock
    <3>2. v # w
      BY <2>2, <3>1
    <3> QED BY <3>1, <3>2, StepFrame
  <2> QED BY <1>2, <1>3, <2>1, <2>2
<1> QED
  BY <1>3 DEF NoOrphanLock

LEMMA NoOrphanOther ==
  ASSUME Faults \cap {"crash", "release", "reply", "dlq"} = {},
         RunInv, NoOrphanLock, [Next]_vars, ~\E w \in Workers : Step(w)
  PROVE  NoOrphanLock'
PROOF
<1>1. \A w \in Workers : pc[w] # "idle" => pc'[w] # "idle"
  BY DEF Next, Take, Refuse, Submit, Remove, Redeliver, Crash, Stall,
     LockExpires, ResultExpires, RunInv, run, bull, vars
<1>2. \A w \in Workers :
        pc[w] # "idle" => pc'[w] = pc[w] /\ Key(w)' = Key(w)
  BY <1>1, OtherFrame
<1>3. locks' \subseteq locks
  BY OtherFrame
<1> QED
  BY <1>2, <1>3 DEF NoOrphanLock, LockedPCs, SagaPCs

\* Unless a process dies, Redis loses a reply or a failure handler itself
\* fails, a lock entry always belongs to an attempt in progress.
THEOREM LocksAreReleased ==
  ASSUME Faults \cap {"crash", "release", "reply", "dlq"} = {}
  PROVE  Spec => []NoOrphanLock
PROOF
<1>1. Init => NoOrphanLock
  BY DEF Init, RedisInit, NoOrphanLock
<1>2. RunInv /\ DataInv /\ NoOrphanLock /\ [Next]_vars
        => (RunInv /\ DataInv /\ NoOrphanLock)'
  BY TypeInductive, NoOrphanStep, NoOrphanOther
<1> QED
  BY TypeInitial, <1>1, <1>2, PTL DEF Spec

-----------------------------------------------------------------------------
(* A payment that is charged is recorded, however many runs it has.  The   *)
(* transaction stays with its run until Unwind asks to void it or Notify   *)
(* leaves, and a run at store or notify has written the ledger.            *)

LedgerInv ==
  /\ ChargedIsRecorded
  /\ \A w \in Workers :
       /\ pc[w] \in TxnPCs => txn[w] \in charges[Key(w)]
       /\ pc[w] \in {"store", "notify"} => Recorded(Key(w))
       /\ pc[w] # "reverse"

\* Only Authorize charges, and only WriteLedger writes a record, that of the
\* transaction its run carries, unless a run reverses it.
LEMMA MoneyWrite ==
  ASSUME RunInv, DataInv, NEW w \in Workers, Step(w), pc[w] # "reverse"
  PROVE  /\ \A l \in Keys : charges[l] \subseteq charges'[l]
         /\ \/ UNCHANGED <<db, named>>
            \/ /\ UNCHANGED charges /\ pc[w] \in TxnPCs
               /\ db' = [db EXCEPT ![Key(w)] = "completed"]
               /\ named' = [named EXCEPT ![Key(w)] = txn[w]]
PROOF
<1>1. CASE Authorize(w)
  BY <1>1 DEF Authorize, Charge, money, DataInv
<1>2. CASE WriteLedger(w)
  BY <1>2 DEF WriteLedger, UpsertStatus, TxnPCs
<1>3. CASE ~Authorize(w) /\ ~WriteLedger(w)
  BY <1>3 DEF Step, GetResult, GetRecord, Backfill, TryLock, LookupFails,
     LoseReply, CheckLock, QueryGateway, StoreSettled, Capture,
     CacheResult, Notify, ReverseLedger, Unwind, GiveUpDeclined,
     ReleaseDeclined, ReleaseFailed, RetryOrGiveUp, money
<1> QED BY <1>1, <1>2, <1>3

LEMMA LedgerStep ==
  ASSUME Faults \cap {"timeout", "crash", "notify"} = {},
         RunInv, DataInv, RunInv', DataInv', LedgerInv,
         NEW w \in Workers, Step(w)
  PROVE  LedgerInv'
PROOF
<1> SUFFICES ASSUME NEW k \in Keys, k = Key(w)
             PROVE  LedgerInv'
  BY StepFrame
\* The record names a charge of its payment, if this step writes it,
<1>1. /\ \A l \in Keys : charges[l] \subseteq charges'[l]
      /\ \/ UNCHANGED <<db, named>>
         \/ /\ UNCHANGED charges /\ txn[w] \in charges[k]
            /\ db' = [db EXCEPT ![k] = "completed"]
            /\ named' = [named EXCEPT ![k] = txn[w]]
  BY MoneyWrite DEF LedgerInv
<1>2. \A l \in Keys : Recorded(l) => Recorded(l)'
  BY <1>1 DEF Recorded, Named, DataInv
\* the run at notify has a record, a new charge is the transaction of this
\* run, and the one it drops is voided or recorded.
<1>3. /\ pc'[w] \in {"store", "notify"} => Recorded(k)'
      /\ pc'[w] # "reverse"
      /\ pc'[w] \in TxnPCs => txn'[w] \in charges'[k]
      /\ \A l \in Keys : \A t \in Live(l)' :
           t \in Live(l) \/ (l = k /\ txn'[w] = t)
      /\ \/ txn[w] = None \/ txn'[w] = txn[w] \/ txn[w] \in voided'
         \/ Recorded(k)'
  <2> USE <1>1, <1>2, NoneIsNone
          DEF LedgerInv, RunInv, DataInv, TxnPCs, Goto, Leave, Return, Throw,
              Live, redis, money, outcome
  <2>1. CASE GetResult(w)
    BY <2>1 DEF GetResult
  <2>2. CASE GetRecord(w)
    BY <2>2 DEF GetRecord
  <2>3. CASE Backfill(w)
    BY <2>3 DEF Backfill
  <2>4. CASE TryLock(w)
    BY <2>4 DEF TryLock
  <2>5. CASE LookupFails(w)
    BY <2>5 DEF LookupFails
  <2>6. CASE CheckLock(w) \/ QueryGateway(w)
    BY <2>6 DEF CheckLock, QueryGateway
  <2>7. CASE StoreSettled(w)
    BY <2>7 DEF StoreSettled
  <2>8. CASE Authorize(w)
    BY <2>8 DEF Authorize, Charge
  <2>9. CASE Capture(w)
    BY <2>9 DEF Capture
  <2>10. CASE WriteLedger(w)
    BY <2>10 DEF WriteLedger, UpsertStatus, Recorded, Named
  <2>11. CASE CacheResult(w)
    BY <2>11 DEF CacheResult
  <2>12. CASE Notify(w)
    BY <2>12 DEF Notify
  <2>13. CASE ReverseLedger(w)
    BY <2>13 DEF ReverseLedger
  <2>14. CASE Unwind(w)
    BY <2>14 DEF Unwind
  <2>15. CASE GiveUpDeclined(w)
    BY <2>15 DEF GiveUpDeclined, DeadLetterFails
  <2>16. CASE ReleaseDeclined(w) \/ ReleaseFailed(w)
    BY <2>16 DEF ReleaseDeclined, ReleaseFailed
  <2>17. CASE RetryOrGiveUp(w)
    BY <2>17 DEF RetryOrGiveUp, DeadLetterFails
  <2>18. CASE LoseReply(w)
    BY <2>18 DEF LoseReply
  <2> QED
    BY <2>1, <2>2, <2>3, <2>4, <2>5, <2>6, <2>7, <2>8, <2>9, <2>10, <2>11,
       <2>12, <2>13, <2>14, <2>15, <2>16, <2>17, <2>18 DEF Step
<1>4. ChargedIsRecorded'
  <2> SUFFICES ASSUME NEW l \in Keys, NEW t \in Live(l)', ~Recorded(l)'
               PROVE  \E v \in Workers : Carries(v, t, l)'
    BY DEF ChargedIsRecorded
  <2> t \in Txns
    BY DEF Live, DataInv
  <2>1. ASSUME txn'[w] = t, l = k
        PROVE  Carries(w, t, l)'
    BY <2>1, StepFrame, NoneIsNone DEF RunInv, TxnPCs, Carries
  <2>2. CASE l = k /\ txn'[w] = t
    BY <2>1, <2>2
  <2>3. CASE t \in Live(l)
    <3>1. PICK v \in Workers : Carries(v, t, l)
      BY <1>2, <2>3 DEF LedgerInv, ChargedIsRecorded
    <3>2. CASE v # w
      BY <3>1, <3>2, StepFrame DEF Carries
    <3>3. CASE v = w
      \* dropped and not recorded, it would be voided, and not be live
      <4>1. txn'[w] = t
        BY <1>3, <3>1, <3>3, NoneIsNone DEF Live, Carries
      <4> QED BY <2>1, <3>1, <3>3, <4>1 DEF Carries
    <3> QED BY <3>2, <3>3
  <2> QED BY <1>3, <2>2, <2>3
<1>5. ASSUME NEW v \in Workers
      PROVE  /\ pc'[v] \in TxnPCs => txn'[v] \in charges'[Key(v)']
             /\ pc'[v] \in {"store", "notify"} =>
                  \E l \in Keys : l = Key(v)' /\ Recorded(l)'
             /\ pc'[v] # "reverse"
  <2> USE DEF TxnPCs
  <2>1. CASE v = w
    BY <1>3, <2>1, StepFrame
  <2>2. CASE v # w
    BY <1>1, <1>2, <2>2, StepFrame, KeyType DEF LedgerInv
  <2> QED BY <2>1, <2>2
<1>6. \A v \in Workers : pc'[v] \in {"store", "notify"} => Recorded(Key(v))'
  BY <1>5 DEF Recorded, Named
<1> QED
  BY <1>4, <1>5, <1>6 DEF LedgerInv

LEMMA LedgerOther ==
  ASSUME Faults \cap {"timeout", "crash", "notify"} = {},
         RunInv, LedgerInv, [Next]_vars, ~\E w \in Workers : Step(w)
  PROVE  LedgerInv'
PROOF
<1>1. \A w \in Workers : pc[w] # "idle" =>
        /\ pc'[w] = pc[w] /\ txn'[w] = txn[w] /\ job'[w] = job[w]
        /\ Key(w)' = Key(w)
  BY DEF Next, Take, Refuse, Submit, Remove, Redeliver, Crash, Stall,
     LockExpires, ResultExpires, RunInv, run, bull, vars, Key
<1>2. UNCHANGED <<db, named, charges, voided>>
  BY OtherFrame
<1>3. \A w \in Workers :
        pc[w] = "idle" => pc'[w] \in {"idle", "result"}
  BY OtherFrame
<1>4. \A w \in Workers : job[w] # None => pc[w] # "idle"
  BY DEF RunInv
<1>5. ChargedIsRecorded'
  BY <1>1, <1>2, <1>4
  DEF LedgerInv, ChargedIsRecorded, Live, Recorded, Named, Carries
<1> QED
  BY <1>1, <1>2, <1>3, <1>5 DEF LedgerInv, Recorded, Named, TxnPCs

\* Unless a process dies, the gateway's answer is lost or the notification
\* fails, a payment with a charge that stands is recorded completed under one
\* of its charges, or the run that made this one is there to record or void
\* it: duplicates, lost locks and lost cache entries cannot change that.
THEOREM ChargesAreRecorded ==
  ASSUME Faults \cap {"timeout", "crash", "notify"} = {}
  PROVE  Spec => []ChargedIsRecorded
PROOF
<1>1. Init => LedgerInv
  BY DEF Init, LedgerInv, ChargedIsRecorded, Live, TxnPCs
<1>2. RunInv /\ DataInv /\ LedgerInv /\ [Next]_vars
        => (RunInv /\ DataInv /\ LedgerInv)'
  BY TypeInductive, LedgerStep, LedgerOther
<1>3. LedgerInv => ChargedIsRecorded
  BY DEF LedgerInv
<1> QED
  BY TypeInitial, <1>1, <1>2, <1>3, PTL DEF Spec

-----------------------------------------------------------------------------
(* One run at a time: one job per payment, and no job that BullMQ gives to *)
(* another worker while its run goes on.  Then the run of a payment is     *)
(* alone with it, and its place in process() says which charge stands and  *)
(* what is recorded.  A run that dies leaves a lost charge behind.         *)

OneJobPerKey == \A i, j \in Jobs : KeyOf[i] = KeyOf[j] => i = j

\* A run owns its job.
OwnInv ==
  \A w \in Workers : pc[w] # "idle" =>
    owner[job[w]] = w /\ jobState[job[w]] = "active"

\* Where no charge is accounted for, where the payment is not recorded, and
\* where it is.
UnchargedPCs ==
  {"lock", "haslock", "query", "settle", "authorize", "failed", "declined",
   "retry"}
UnrecordedPCs ==
  {"lock", "haslock", "query", "authorize", "capture", "ledger"}
RecordedPCs == {"backfill", "store", "notify", "reverse"}

\* A payment as its run sees it,
RunView(w) ==
  /\ pc[w] \in TxnPCs => Kept(Key(w)) = {txn[w]}
  /\ pc[w] \in UnchargedPCs => Kept(Key(w)) = {}
  /\ pc[w] \in UnrecordedPCs => db[Key(w)] # "completed"
  /\ pc[w] \in RecordedPCs => db[Key(w)] = "completed"
  /\ pc[w] \in TxnPCs /\ db[Key(w)] = "completed" => named[Key(w)] = txn[w]
  /\ pc[w] = "settle" => lost \cap charges[Key(w)] # {}
  /\ pc[w] = "unwind" => db[Key(w)] = "none" \/ MayUnwindRecorded
  /\ pc[w] = "reverse" => MayUnwindRecorded

\* and as it is, at rest and whatever its run does.
KeyView(k) ==
  /\ (\A w \in Workers : pc[w] \in TxnPCs => Key(w) # k)
       => \A t \in Kept(k) : Named(k, t)
  /\ \A t, u \in Kept(k) : t = u
  /\ k \in results => db[k] # "none" \/ lost \cap charges[k] # {}
  /\ db[k] = "compensated" => MayUnwindRecorded

ChargeInv ==
  /\ \A w \in Workers : RunView(w)
  /\ \A k \in Keys : KeyView(k)

\* The gateway never gives out a transaction twice, only transactions it gave
\* out are voided or lost, and none is both.
TxnInv ==
  /\ \A k, l \in Keys : charges[k] \cap charges[l] # {} => k = l
  /\ \A t \in voided \cup lost : \E k \in Keys : t \in charges[k]
  /\ voided \cap lost = {}

LEMMA OwnStep ==
  ASSUME RunInv, OwnInv, NEW w \in Workers, Step(w)
  PROVE  OwnInv'
PROOF
<1>1. pc[w] # "idle" /\ job[w] \in Jobs
  BY StepFrame, KeyType
<1>2. \/ UNCHANGED bull
      \/ /\ pc'[w] = "idle"
         /\ \A j \in Jobs \ {job[w]} :
              owner'[j] = owner[j] /\ jobState'[j] = jobState[j]
  <2> USE <1>1 DEF RunInv, Goto, Leave, Return, Throw, Resolve, Reject
  <2>1. CASE GetResult(w)
    BY <2>1 DEF GetResult
  <2>2. CASE GetRecord(w) \/ TryLock(w)
    BY <2>2 DEF GetRecord, TryLock
  <2>3. CASE Backfill(w) \/ StoreSettled(w)
    BY <2>3 DEF Backfill, StoreSettled
  <2>4. CASE LookupFails(w)
    BY <2>4 DEF LookupFails
  <2>5. CASE CheckLock(w) \/ QueryGateway(w)
    BY <2>5 DEF CheckLock, QueryGateway
  <2>6. CASE Authorize(w) \/ Capture(w) \/ WriteLedger(w) \/ CacheResult(w)
    BY <2>6 DEF Authorize, Capture, WriteLedger, CacheResult
  <2>7. CASE Notify(w)
    BY <2>7 DEF Notify
  <2>8. CASE ReverseLedger(w) \/ Unwind(w)
    BY <2>8 DEF ReverseLedger, Unwind
  <2>9. CASE GiveUpDeclined(w)
    BY <2>9 DEF GiveUpDeclined, DeadLetterFails
  <2>10. CASE ReleaseDeclined(w) \/ ReleaseFailed(w)
    BY <2>10 DEF ReleaseDeclined, ReleaseFailed
  <2>11. CASE RetryOrGiveUp(w)
    BY <2>11 DEF RetryOrGiveUp, DeadLetterFails
  <2>12. CASE LoseReply(w)
    BY <2>12 DEF LoseReply
  <2> QED
    BY <2>1, <2>2, <2>3, <2>4, <2>5, <2>6, <2>7, <2>8, <2>9, <2>10, <2>11,
       <2>12 DEF Step
<1>3. \A v \in Workers \ {w} :
        pc[v] # "idle" => job[v] \in Jobs /\ job[v] # job[w]
  BY <1>1, KeyType DEF OwnInv
<1>4. \A v \in Workers \ {w} : pc'[v] = pc[v] /\ job'[v] = job[v]
  BY StepFrame
<1>5. pc'[w] = "idle" \/ job'[w] = job[w]
  BY StepFrame
<1> QED
  BY <1>1, <1>2, <1>3, <1>4, <1>5 DEF OwnInv, bull

LEMMA OwnOther ==
  ASSUME "stall" \notin Faults,
         RunInv, OwnInv, [Next]_vars, ~\E w \in Workers : Step(w)
  PROVE  OwnInv'
PROOF
<1>1. \A w \in Workers : pc[w] # "idle" => job[w] \in Jobs
  BY KeyType
<1> USE <1>1 DEF RunInv, OwnInv
<1>2. ASSUME NEW w \in Workers, NEW j \in Jobs, Take(w, j) PROVE OwnInv'
  BY <1>2 DEF Take
<1>3. ASSUME NEW w \in Workers, NEW j \in Jobs, Refuse(w, j) PROVE OwnInv'
  BY <1>3 DEF Refuse, Reject, run
<1>4. ASSUME NEW j \in Jobs, Submit(j) \/ Remove(j) \/ Redeliver(j)
      PROVE  OwnInv'
  BY <1>4, NoneIsNone DEF Submit, Remove, Redeliver, run
<1>5. ASSUME NEW w \in Workers, Crash(w) \/ Stall(w) PROVE OwnInv'
  BY <1>5, NoneIsNone DEF Crash, Stall, Leave
<1>6. ASSUME NEW k \in Keys, LockExpires(k) \/ ResultExpires(k) PROVE OwnInv'
  BY <1>6 DEF LockExpires, ResultExpires, bull, run
<1>7. CASE UNCHANGED vars
  BY <1>7 DEF vars, bull, run
<1> QED
  BY <1>2, <1>3, <1>4, <1>5, <1>6, <1>7 DEF Next

\* Two runs at work are at work on different payments.
LEMMA Alone ==
  ASSUME OneJobPerKey, RunInv, OwnInv, NEW v \in Workers, NEW w \in Workers,
         pc[v] # "idle", pc[w] # "idle", Key(v) = Key(w)
  PROVE  v = w
  BY KeyType DEF OneJobPerKey, OwnInv, Key

\* What a step that moves no money may do: where the run goes, what it puts
\* into the cache, and what it tells the outside.
Quiet(w) ==
  /\ UNCHANGED money
  /\ pc'[w] \in TxnPCs => pc[w] \in TxnPCs /\ txn'[w] = txn[w]
  /\ pc[w] \in TxnPCs => pc'[w] \in TxnPCs \/ pc[w] = "notify"
  /\ pc'[w] = "lock" => pc[w] = "record" /\ db[Key(w)] # "completed"
  /\ pc'[w] = "backfill" => db[Key(w)] = "completed"
  /\ pc'[w] = "settle" => pc[w] = "query" /\ Live(Key(w)) # {}
  /\ pc'[w] \in {"haslock", "authorize"} => pc[w] = "lock"
  /\ pc'[w] = "query" => pc[w] = "haslock"
  /\ pc'[w] \in {"failed", "declined"} => pc[w] = "authorize"
  /\ pc'[w] = "retry" => pc[w] = "failed"
  /\ pc'[w] \notin {"capture", "store"} /\ pc[w] # "unwind"
  /\ pc'[w] = "ledger" => pc[w] = "capture"
  /\ pc'[w] = "notify" => pc[w] = "store"
  /\ pc'[w] = "reverse" => pc[w] = "notify" /\ MayUnwindRecorded
  /\ pc'[w] = "unwind" =>
       pc[w] \in {"capture", "ledger", "reverse"} \/ MayUnwindRecorded
  /\ \A k \in results' :
       \/ k \in results
       \/ k = Key(w) /\ pc[w] \in {"backfill", "settle", "store"}
  /\ \/ UNCHANGED outcome
     \/ /\ Finalize(w, "completed") /\ UNCHANGED dlq
        /\ Key(w) \in results \/ pc[w] \in {"backfill", "settle", "notify"}
     \/ /\ Finalize(w, "failed") /\ dlq' \in {dlq, dlq \cup {Key(w)}}
        /\ pc[w] \in {"declined", "retry"}

\* A step moves money only for its own payment: it charges, with or without
\* an answer, it records or takes the record back, or it voids.
Moves(w) ==
  /\ \/ /\ pc[w] = "authorize"
        /\ \E t \in Txns :
             /\ Charge(w, t)
             /\ \/ pc'[w] = "capture" /\ txn'[w] = t /\ UNCHANGED lost
                \/ /\ pc'[w] = "failed" /\ lost' = lost \cup {t}
                   /\ "timeout" \in Faults
     \/ /\ pc[w] = "ledger"
        /\ pc'[w] = "store" \/ (pc'[w] = "unwind" /\ "store" \in Faults)
        /\ UpsertStatus(w, "completed", txn[w])
        /\ UNCHANGED <<txn, charges, voided, lost>>
     \/ /\ pc[w] = "reverse" /\ pc'[w] = "unwind"
        /\ UpsertStatus(w, "compensated", None)
        /\ UNCHANGED <<txn, charges, voided, lost>>
     \/ /\ pc[w] = "unwind" /\ pc'[w] = "failed"
        /\ voided' = voided \cup {txn[w]}
        /\ UNCHANGED <<db, named, charges, lost>>
  /\ UNCHANGED <<results, outcome>>

LEMMA MoneyStep ==
  ASSUME RunInv, DataInv, NEW w \in Workers, Step(w)
  PROVE  Moves(w) \/ Quiet(w)
PROOF
<1>1. Key(w) \in Keys
  BY StepFrame
<1> USE <1>1 DEF RunInv, DataInv, TxnPCs, Goto, Leave, Return, Throw,
                 redis, money, outcome
<1>2. CASE GetResult(w)
  BY <1>2 DEF GetResult, HasResult, Quiet
<1>3. CASE GetRecord(w)
  BY <1>3 DEF GetRecord, Quiet
<1>4. CASE Backfill(w)
  BY <1>4 DEF Backfill, StoreResult, Quiet
<1>5. CASE TryLock(w)
  BY <1>5 DEF TryLock, AcquireLock, Quiet
<1>6. CASE LookupFails(w)
  BY <1>6 DEF LookupFails, Quiet
<1>7. CASE CheckLock(w) \/ QueryGateway(w)
  BY <1>7 DEF CheckLock, QueryGateway, Quiet
<1>8. CASE StoreSettled(w)
  BY <1>8 DEF StoreSettled, StoreResult, Quiet
<1>9. CASE Authorize(w)
  BY <1>9 DEF Authorize, Charge, Moves, Quiet
<1>10. CASE Capture(w)
  BY <1>10 DEF Capture, Quiet
<1>11. CASE WriteLedger(w)
  BY <1>11 DEF WriteLedger, Moves, Quiet
<1>12. CASE CacheResult(w)
  BY <1>12 DEF CacheResult, StoreResult, Quiet, MayUnwindRecorded
<1>13. CASE Notify(w)
  BY <1>13 DEF Notify, Quiet, MayUnwindRecorded
<1>14. CASE ReverseLedger(w)
  BY <1>14 DEF ReverseLedger, Moves, Quiet
<1>15. CASE Unwind(w)
  BY <1>15 DEF Unwind, Moves
<1>16. CASE GiveUpDeclined(w)
  BY <1>16 DEF GiveUpDeclined, DeadLetter, DeadLetterFails, Quiet
<1>17. CASE ReleaseDeclined(w) \/ ReleaseFailed(w)
  BY <1>17 DEF ReleaseDeclined, ReleaseFailed, ReleaseLock, Quiet
<1>18. CASE RetryOrGiveUp(w)
  BY <1>18 DEF RetryOrGiveUp, DeadLetter, DeadLetterFails, Quiet
<1>19. CASE LoseReply(w)
  BY <1>19 DEF LoseReply, AcquireLock, StoreResult, ReleaseLock, Quiet
<1> QED
  BY <1>2, <1>3, <1>4, <1>5, <1>6, <1>7, <1>8, <1>9, <1>10, <1>11, <1>12,
     <1>13, <1>14, <1>15, <1>16, <1>17, <1>18, <1>19 DEF Step

\* What Moves and Quiet do to the transactions, and to other payments.
LEMMA TxnStep ==
  ASSUME RunInv, DataInv, TxnInv, ChargeInv, NEW w \in Workers, Step(w)
  PROVE  /\ TxnInv'
         /\ \A k \in Keys \ {Key(w)} :
              /\ Kept(k)' = Kept(k) /\ db'[k] = db[k] /\ named'[k] = named[k]
              /\ lost' \cap charges'[k] = lost \cap charges[k]
              /\ k \in results' => k \in results
PROOF
<1> DEFINE Others ==
      \A k \in Keys \ {Key(w)} :
        /\ Kept(k)' = Kept(k) /\ db'[k] = db[k] /\ named'[k] = named[k]
        /\ lost' \cap charges'[k] = lost \cap charges[k]
        /\ k \in results' => k \in results
<1>1. Key(w) \in Keys
  BY StepFrame
<1>2. ASSUME NEW t \in Txns, Charge(w, t), UNCHANGED results,
             UNCHANGED lost \/ lost' = lost \cup {t}
      PROVE  TxnInv' /\ Others
  BY <1>1, <1>2 DEF Charge, TxnInv, Kept, Live, DataInv
<1>3. CASE /\ pc[w] = "unwind" /\ voided' = voided \cup {txn[w]}
           /\ UNCHANGED <<db, named, charges, lost, results>>
  <2>1. txn[w] \in charges[Key(w)] /\ txn[w] \notin lost
    BY <1>3 DEF ChargeInv, RunView, TxnPCs, Kept, Live
  <2> QED BY <1>1, <1>3, <2>1 DEF TxnInv, Kept, Live, DataInv
<1>4. CASE /\ UNCHANGED <<charges, voided, lost>>
           /\ \A k \in Keys \ {Key(w)} :
                /\ db'[k] = db[k] /\ named'[k] = named[k]
                /\ k \in results' => k \in results
  BY <1>4 DEF TxnInv, Kept, Live
<1>5. CASE Moves(w)
  BY <1>2, <1>3, <1>4, <1>5 DEF Moves, UpsertStatus, DataInv
<1>6. CASE Quiet(w)
  BY <1>4, <1>6 DEF Quiet, money
<1> QED
  BY <1>5, <1>6, MoneyStep

\* What a step makes of the charges of its own payment.
LEMMA KeptStep ==
  ASSUME RunInv, DataInv, TxnInv, ChargeInv, NEW w \in Workers, Step(w),
         NEW k \in Keys, k = Key(w)
  PROVE  /\ pc[w] = "authorize" /\ pc'[w] = "capture" => Kept(k)' = {txn'[w]}
         /\ pc[w] = "authorize" /\ pc'[w] = "failed" => Kept(k)' = {}
         /\ pc[w] = "unwind" => pc'[w] = "failed" /\ Kept(k)' = {}
         /\ \/ pc[w] = "authorize" /\ pc'[w] \in {"capture", "failed"}
            \/ pc[w] = "unwind"
            \/ Kept(k)' = Kept(k)
PROOF
<1>1. ASSUME NEW t \in Txns, Charge(w, t), pc[w] = "authorize"
      PROVE  /\ UNCHANGED lost => Kept(k)' = {t}
             /\ lost' = lost \cup {t} => Kept(k)' = {}
  <2>1. Kept(k) = {} /\ t \notin voided \cup lost
    BY <1>1 DEF ChargeInv, RunView, UnchargedPCs, TxnInv, Charge
  <2>2. charges'[k] = charges[k] \cup {t} /\ voided' = voided
    BY <1>1 DEF Charge, DataInv
  <2> QED BY <2>1, <2>2 DEF Kept, Live
<1>2. CASE Moves(w) /\ pc[w] = "unwind"
  <2>1. Kept(k) = {txn[w]}
    BY <1>2 DEF ChargeInv, RunView, TxnPCs
  <2> QED BY <1>2, <2>1 DEF Moves, Kept, Live
<1>3. CASE Moves(w) /\ pc[w] = "authorize"
  BY <1>1, <1>3 DEF Moves
<1>4. CASE Moves(w) /\ pc[w] \notin {"authorize", "unwind"}
  BY <1>4 DEF Moves, Kept, Live
<1>5. CASE Quiet(w)
  <2>1. Kept(k)' = Kept(k)
    BY <1>5 DEF Quiet, Kept, Live, money
  <2>2. pc[w] = "authorize" => Kept(k) = {} /\ pc'[w] # "capture"
    BY <1>5 DEF Quiet, ChargeInv, RunView, UnchargedPCs
  <2>3. pc[w] # "unwind"
    BY <1>5 DEF Quiet
  <2> QED BY <2>1, <2>2, <2>3
<1> QED
  BY <1>2, <1>3, <1>4, <1>5, MoneyStep

LEMMA ChargeStep ==
  ASSUME OneJobPerKey, RunInv, RunInv', DataInv, OwnInv, TxnInv, ChargeInv,
         NEW w \in Workers, Step(w)
  PROVE  ChargeInv'
PROOF
<1> SUFFICES ASSUME NEW k \in Keys, k = Key(w)
             PROVE  ChargeInv'
  BY StepFrame
<1>1. pc[w] # "idle"
  BY StepFrame
\* No other run works on this payment, before or after the step.
<1>2. \A v \in Workers \ {w} : pc[v] # "idle" => Key(v) # k
  BY <1>1, Alone
\* Outside its saga the run sees the payment at rest.
<1>3. pc[w] \notin TxnPCs => \A t \in Kept(k) : Named(k, t)
  BY <1>1, <1>2 DEF ChargeInv, KeyView, TxnPCs
\* The charges of this payment,
<1>4. /\ pc'[w] \in TxnPCs => Kept(k)' = {txn'[w]}
      /\ pc'[w] \in UnchargedPCs => Kept(k)' = {}
      /\ pc'[w] \notin TxnPCs => \A t \in Kept(k)' : Named(k, t)'
      /\ \A t, u \in Kept(k)' : t = u
  <2>1. CASE Moves(w)
    BY <2>1, KeptStep DEF Moves, ChargeInv, RunView, TxnPCs, UnchargedPCs
  <2>2. CASE Quiet(w)
    <3>1. Kept(k)' = Kept(k) /\ db'[k] = db[k] /\ named'[k] = named[k]
      BY <2>2 DEF Quiet, Kept, Live, money
    <3>2. pc'[w] \in TxnPCs => Kept(k) = {txn'[w]}
      BY <2>2 DEF Quiet, ChargeInv, RunView
    <3>3. pc'[w] \in UnchargedPCs => Kept(k) = {}
      BY <1>3, <2>2
      DEF Quiet, ChargeInv, RunView, UnchargedPCs, UnrecordedPCs, TxnPCs,
          Named
    <3>4. pc'[w] \notin TxnPCs => \A t \in Kept(k) : Named(k, t)
      BY <1>3, <2>2 DEF Quiet, ChargeInv, RunView, RecordedPCs, TxnPCs, Named
    <3> QED BY <3>1, <3>2, <3>3, <3>4 DEF ChargeInv, KeyView, Named
  <2> QED BY <2>1, <2>2, MoneyStep
\* its record,
<1>5. /\ pc'[w] \in UnrecordedPCs => db'[k] # "completed"
      /\ pc'[w] \in RecordedPCs => db'[k] = "completed"
      /\ pc'[w] \in TxnPCs /\ db'[k] = "completed" => named'[k] = txn'[w]
      /\ pc'[w] = "unwind" => db'[k] = "none" \/ MayUnwindRecorded
      /\ pc'[w] = "reverse" => MayUnwindRecorded
      /\ db'[k] = "compensated" => MayUnwindRecorded
  BY MoneyStep
  DEF Moves, Quiet, ChargeInv, RunView, KeyView, UnrecordedPCs, RecordedPCs,
      TxnPCs, UpsertStatus, Charge, DataInv, MayUnwindRecorded, money
\* and what is cached of it.
<1>6. /\ pc'[w] = "settle" => lost' \cap charges'[k] # {}
      /\ k \in results' => db'[k] # "none" \/ lost' \cap charges'[k] # {}
  <2>1. CASE Moves(w)
    BY <2>1 DEF Moves, ChargeInv, KeyView, UpsertStatus, Charge, DataInv
  <2>2. CASE Quiet(w)
    BY <2>2
    DEF Quiet, ChargeInv, RunView, KeyView, RecordedPCs, UnchargedPCs, Kept,
        Live, money
  <2> QED BY <2>1, <2>2, MoneyStep
\* The payments of other runs, and those at rest, are as before.
<1>7. \A l \in Keys \ {k} :
        /\ Kept(l)' = Kept(l) /\ db'[l] = db[l] /\ named'[l] = named[l]
        /\ lost' \cap charges'[l] = lost \cap charges[l]
        /\ l \in results' => l \in results
  BY TxnStep
<1>8. \A v \in Workers \ {w} : pc'[v] # "idle" =>
        /\ Key(v) \in Keys \ {k} /\ Key(v)' = Key(v)
        /\ pc'[v] = pc[v] /\ txn'[v] = txn[v]
  BY <1>2, StepFrame, KeyType
<1>9. pc'[w] = "idle" \/ Key(w)' = k
  BY StepFrame
<1>10. ASSUME NEW v \in Workers
       PROVE  RunView(v)'
  <2> USE DEF TxnPCs, UnchargedPCs, UnrecordedPCs, RecordedPCs
  <2>1. CASE v # w /\ pc'[v] # "idle"
    <3>1. PICK l \in Keys \ {k} : l = Key(v) /\ l = Key(v)'
      BY <1>8, <2>1
    <3> QED BY <1>7, <1>8, <2>1, <3>1 DEF ChargeInv, RunView, MayUnwindRecorded
  <2>2. CASE v = w /\ pc'[v] # "idle"
    BY <1>4, <1>5, <1>6, <1>9, <2>2 DEF RunView, MayUnwindRecorded
  <2>3. CASE pc'[v] = "idle"
    BY <2>3 DEF RunView
  <2> QED BY <2>1, <2>2, <2>3
<1>11. ASSUME NEW l \in Keys
       PROVE  KeyView(l)'
  <2>1. CASE l = k
    BY <1>4, <1>5, <1>6, <1>9, <2>1
    DEF TxnPCs, KeyView, Named, MayUnwindRecorded
  <2>2. CASE l # k
    <3>1. (\A v \in Workers : pc'[v] \in TxnPCs => Key(v)' # l)
            => \A v \in Workers : pc[v] \in TxnPCs => Key(v) # l
      BY <1>8, <2>2, StepFrame DEF TxnPCs
    <3> QED
      BY <1>7, <2>2, <3>1 DEF ChargeInv, KeyView, Named, MayUnwindRecorded
  <2> QED BY <2>1, <2>2
<1> QED
  BY <1>10, <1>11 DEF ChargeInv

\* A run that dies loses the charge it carries, unless that is recorded.
LEMMA CrashCharge ==
  ASSUME OneJobPerKey, RunInv, DataInv, OwnInv, TxnInv, ChargeInv,
         NEW w \in Workers, Crash(w), NEW k \in Keys, k = Key(w)
  PROVE  /\ TxnInv'
         /\ \A l \in Keys \ {k} :
              /\ Kept(l)' = Kept(l)
              /\ lost' \cap charges[l] = lost \cap charges[l]
         /\ \/ /\ txn[w] \in Txns /\ Kept(k) = {txn[w]}
               /\ db[k] # "completed" /\ Kept(k)' = {}
               /\ lost' \cap charges[k] = (lost \cap charges[k]) \cup {txn[w]}
            \/ /\ UNCHANGED lost /\ Kept(k)' = Kept(k)
               /\ \A t \in Kept(k) : Named(k, t)
PROOF
<1>1. pc[w] # "idle" /\ UNCHANGED <<db, named, charges, voided>>
  BY DEF Crash
<1>2. CASE txn[w] # None /\ ~Named(k, txn[w])
  <2>1. lost' = lost \cup {txn[w]}
    BY <1>2 DEF Crash
  <2>2. Kept(k) = {txn[w]} /\ txn[w] \in Txns
    BY <1>2 DEF ChargeInv, RunView, RunInv
  <2>6. db[k] # "completed"
    BY <1>2 DEF ChargeInv, RunView, RunInv, Named
  <2>3. txn[w] \in charges[k] /\ txn[w] \notin voided
    BY <2>2 DEF Kept, Live
  <2>4. TxnInv'
    BY <1>1, <2>1, <2>3 DEF TxnInv
  <2>5. \A l \in Keys \ {k} : txn[w] \notin charges[l]
    BY <2>3 DEF TxnInv
  <2> QED
    BY <1>1, <1>2, <2>1, <2>2, <2>3, <2>4, <2>5, <2>6 DEF Kept, Live
<1>3. CASE txn[w] = None \/ Named(k, txn[w])
  <2>1. UNCHANGED lost
    BY <1>3 DEF Crash
  <2>2. txn[w] = None => \A t \in Kept(k) : Named(k, t)
    BY <1>1, Alone DEF ChargeInv, KeyView, RunInv, TxnPCs
  <2>3. txn[w] # None => Kept(k) = {txn[w]}
    BY DEF ChargeInv, RunView, RunInv
  <2> QED
    BY <1>1, <1>3, <2>1, <2>2, <2>3 DEF TxnInv, Kept, Live
<1> QED
  BY <1>2, <1>3

\* Nothing else in the environment touches money or a run at work.
LEMMA QuietOther ==
  ASSUME "stall" \notin Faults, RunInv, [Next]_vars,
         ~\E w \in Workers : Step(w) \/ Crash(w)
  PROVE  /\ UNCHANGED <<money, outcome>>
         /\ \A w \in Workers : pc[w] # "idle" =>
              pc'[w] = pc[w] /\ txn'[w] = txn[w] /\ Key(w)' = Key(w)
PROOF
<1>1. UNCHANGED money
  BY DEF Next, Take, Refuse, Submit, Remove, Redeliver, Stall, LockExpires,
     ResultExpires, vars
<1>2. \A w \in Workers : pc[w] # "idle" =>
        pc'[w] = pc[w] /\ txn'[w] = txn[w] /\ Key(w)' = Key(w)
  BY DEF Next, Take, Refuse, Submit, Remove, Redeliver, Stall, LockExpires,
     ResultExpires, RunInv, run, bull, vars, Key
<1> QED
  BY <1>1, <1>2, OtherFrame

LEMMA ChargeOther ==
  ASSUME OneJobPerKey, "stall" \notin Faults, RunInv, DataInv, OwnInv, TxnInv,
         ChargeInv, [Next]_vars, ~\E w \in Workers : Step(w)
  PROVE  TxnInv' /\ ChargeInv'
PROOF
<1> USE DEF TxnPCs, UnchargedPCs, UnrecordedPCs, RecordedPCs
<1>1. ASSUME NEW w \in Workers, Crash(w) PROVE TxnInv' /\ ChargeInv'
  <2>1. PICK k \in Keys : k = Key(w)
    BY <1>1, KeyType DEF Crash
  <2>2. /\ pc'[w] = "idle" /\ UNCHANGED <<db, named, charges>>
        /\ results' = results
        /\ \A v \in Workers \ {w} :
             pc'[v] = pc[v] /\ txn'[v] = txn[v] /\ Key(v)' = Key(v)
    BY <1>1 DEF Crash, Leave, RunInv, redis, Key
  <2>3. \A v \in Workers \ {w} : pc[v] # "idle" => Key(v) \in Keys \ {k}
    BY <1>1, <2>1, Alone, KeyType DEF Crash
  <2>4. ASSUME NEW v \in Workers
        PROVE  RunView(v)'
    <3>1. CASE v # w /\ pc[v] # "idle"
      <4>1. PICK l \in Keys \ {k} : l = Key(v) /\ l = Key(v)'
        BY <2>2, <2>3, <3>1
      <4> QED
        BY <1>1, <2>1, <2>2, <3>1, <4>1, CrashCharge
        DEF ChargeInv, RunView, MayUnwindRecorded
    <3>2. CASE v = w \/ pc[v] = "idle"
      BY <2>2, <3>2 DEF RunView
    <3> QED BY <3>1, <3>2
  <2>5. ASSUME NEW l \in Keys
        PROVE  KeyView(l)'
    <3>1. CASE l = k
      BY <1>1, <2>1, <2>2, <3>1, CrashCharge
      DEF ChargeInv, KeyView, Named, MayUnwindRecorded
    <3>2. CASE l # k
      <4>1. (\A v \in Workers : pc'[v] \in TxnPCs => Key(v)' # l)
              => \A v \in Workers : pc[v] \in TxnPCs => Key(v) # l
        BY <2>1, <2>2, <3>2
      <4> QED
        BY <1>1, <2>1, <2>2, <3>2, <4>1, CrashCharge
        DEF ChargeInv, KeyView, Named, MayUnwindRecorded
    <3> QED BY <3>1, <3>2
  <2> QED
    BY <1>1, <2>1, <2>4, <2>5, CrashCharge DEF ChargeInv
<1>2. CASE ~\E w \in Workers : Crash(w)
  <2>1. /\ UNCHANGED <<db, named, charges, voided, lost>>
        /\ \A w \in Workers : pc[w] # "idle" =>
             pc'[w] = pc[w] /\ txn'[w] = txn[w] /\ Key(w)' = Key(w)
    BY <1>2, QuietOther DEF money
  <2>2. /\ results' \subseteq results
        /\ \A w \in Workers : pc[w] = "idle" => pc'[w] \in {"idle", "result"}
    BY OtherFrame
  <2>3. \A k \in Keys : Kept(k)' = Kept(k)
    BY <2>1 DEF Kept, Live
  <2>4. ASSUME NEW v \in Workers
        PROVE  RunView(v)'
    <3>1. CASE pc[v] # "idle"
      <4>1. PICK l \in Keys : l = Key(v) /\ l = Key(v)'
        BY <2>1, <3>1, KeyType
      <4> QED
        BY <2>1, <2>3, <3>1, <4>1 DEF ChargeInv, RunView, MayUnwindRecorded
    <3>2. CASE pc[v] = "idle"
      BY <2>2, <3>2 DEF RunView
    <3> QED BY <3>1, <3>2
  <2>5. ASSUME NEW l \in Keys
        PROVE  KeyView(l)'
    <3>1. (\A v \in Workers : pc'[v] \in TxnPCs => Key(v)' # l)
            => \A v \in Workers : pc[v] \in TxnPCs => Key(v) # l
      BY <2>1
    <3> QED
      BY <2>1, <2>2, <2>3, <3>1
      DEF ChargeInv, KeyView, Named, MayUnwindRecorded
  <2> QED
    BY <2>1, <2>4, <2>5 DEF ChargeInv, TxnInv
<1> QED
  BY <1>1, <1>2

\* The inductive invariant of this section.
PaymentInv == RunInv /\ DataInv /\ OwnInv /\ TxnInv /\ ChargeInv

LEMMA PaymentInvInitial == Init => PaymentInv
PROOF
<1> SUFFICES ASSUME Init PROVE PaymentInv
  OBVIOUS
<1>1. \A k \in Keys : charges[k] = {} /\ Kept(k) = {}
  BY DEF Init, Kept, Live
<1>2. \A w \in Workers : pc[w] = "idle"
  BY DEF Init
<1> QED
  BY TypeInitial, <1>1, <1>2
  DEF Init, RedisInit, PaymentInv, OwnInv, TxnInv, ChargeInv, RunView, KeyView,
      TxnPCs, UnchargedPCs, UnrecordedPCs, RecordedPCs

LEMMA PaymentInvInductive ==
  ASSUME OneJobPerKey, "stall" \notin Faults, PaymentInv, [Next]_vars
  PROVE  PaymentInv'
PROOF
<1>1. RunInv' /\ DataInv'
  BY TypeInductive DEF PaymentInv
<1>2. CASE \E w \in Workers : Step(w)
  BY <1>1, <1>2, OwnStep, TxnStep, ChargeStep DEF PaymentInv
<1>3. CASE ~\E w \in Workers : Step(w)
  BY <1>1, <1>3, OwnOther, ChargeOther DEF PaymentInv
<1> QED
  BY <1>2, <1>3

\* A payment enqueued as one job whose runs never overlap is charged at most
\* once, however many attempts, resubmissions, failed saga steps, failed
\* compensations of the ledger, lost locks and lost cache entries there are.
THEOREM ChargedOnce ==
  ASSUME OneJobPerKey, Faults \cap {"timeout", "crash", "stall"} = {}
  PROVE  Spec => []AtMostOneCharge
PROOF
<1>1. Init => PaymentInv /\ lost = {}
  BY PaymentInvInitial DEF Init
<1>2. PaymentInv /\ lost = {} /\ [Next]_vars => (PaymentInv /\ lost = {})'
  <2> SUFFICES ASSUME PaymentInv, lost = {}, [Next]_vars
               PROVE  lost' = {}
    BY PaymentInvInductive
  <2>1. ASSUME NEW w \in Workers, Step(w) PROVE lost' = lost
    BY <2>1, MoneyStep DEF PaymentInv, Moves, Quiet, money
  <2>2. CASE ~\E w \in Workers : Step(w)
    <3>1. ~\E w \in Workers : Crash(w)
      BY DEF Crash
    <3> QED BY <2>2, <3>1, QuietOther DEF PaymentInv, money
  <2> QED BY <2>1, <2>2
<1>3. PaymentInv /\ lost = {} => AtMostOneCharge
  BY DEF PaymentInv, ChargeInv, KeyView, Kept, AtMostOneCharge
<1> QED
  BY <1>1, <1>2, <1>3, PTL DEF Spec

\* Under every fault but the redelivery of a running job, a payment enqueued
\* as one job has no silent leak: a charge that stands is named by its payment
\* record, or its run is still there to record or unwind it, or its answer was
\* lost or its run died, which costs that charge and no more.
THEOREM NoSilentLeak ==
  ASSUME OneJobPerKey, "stall" \notin Faults
  PROVE  Spec => []LedgerBacksCharges
PROOF
<1>1. Init => PaymentInv
  BY PaymentInvInitial
<1>2. PaymentInv /\ [Next]_vars => PaymentInv'
  BY PaymentInvInductive
<1>3. PaymentInv => LedgerBacksCharges
  <2> SUFFICES ASSUME PaymentInv, NEW k \in Keys, NEW t \in Kept(k),
                      ~Named(k, t)
               PROVE  \E w \in Workers : Carries(w, t, k)
    BY DEF LedgerBacksCharges
  <2>1. PICK w \in Workers : pc[w] \in TxnPCs /\ Key(w) = k
    BY DEF PaymentInv, ChargeInv, KeyView
  <2>2. txn[w] = t /\ job[w] # None
    BY <2>1 DEF PaymentInv, RunInv, ChargeInv, RunView, TxnPCs
  <2> QED BY <2>1, <2>2 DEF Carries
<1> QED
  BY <1>1, <1>2, <1>3, PTL DEF Spec

-----------------------------------------------------------------------------
(* The system keeps what Payment promises.                                 *)

\* The functions that stand for charge and lost change only where they have
\* to.
LEMMA MappedCharges ==
  ASSUME NEW k \in Keys, NEW c, NEW l,
         Kept(k)' = c, lost' \cap charges'[k] = l,
         \A i \in Keys \ {k} :
           /\ Kept(i)' = Kept(i)
           /\ lost' \cap charges'[i] = lost \cap charges[i]
  PROVE  /\ [i \in Keys |-> Kept(i)]'
              = [[i \in Keys |-> Kept(i)] EXCEPT ![k] = c]
         /\ [i \in Keys |-> lost \cap charges[i]]'
              = [[i \in Keys |-> lost \cap charges[i]] EXCEPT ![k] = l]
  BY DEF Kept, Live

\* Every step of a run is a step of Payment for the run's payment, or none.
LEMMA StepKeepsPromise ==
  ASSUME PaymentInv, NEW w \in Workers, Step(w)
  PROVE  [Promise!Next]_(Promise!paymentVars)
PROOF
<1> USE DEF PaymentInv
<1>1. PICK k \in Keys : k = Key(w)
  BY StepFrame
<1>2. \A i \in Keys \ {k} :
        /\ Kept(i)' = Kept(i)
        /\ lost' \cap charges'[i] = lost \cap charges[i]
  BY <1>1, TxnStep
<1>3. ASSUME NEW t \in Txns, pc[w] = "authorize", Charge(w, t),
             UNCHANGED outcome,
             \/ pc'[w] = "capture" /\ txn'[w] = t /\ UNCHANGED lost
             \/ /\ pc'[w] = "failed" /\ lost' = lost \cup {t}
                /\ "timeout" \in Faults
      PROVE  Promise!Authorize(k, t) \/ Promise!Lose(k, t)
  <2>1. /\ Kept(k) = {} /\ db[k] # "completed" /\ t \notin lost
        /\ charges'[k] = charges[k] \cup {t} /\ db' = db
    BY <1>1, <1>3
    DEF ChargeInv, RunView, UnchargedPCs, UnrecordedPCs, TxnInv, Charge,
        DataInv
  <2>2. CASE pc'[w] = "capture" /\ txn'[w] = t /\ UNCHANGED lost
    <3>1. Kept(k)' = {t} /\ lost' \cap charges'[k] = lost \cap charges[k]
      BY <1>1, <1>3, <2>1, <2>2, KeptStep
    <3> QED
      BY <1>2, <1>3, <2>1, <3>1, MappedCharges DEF Promise!Authorize, outcome
  <2>3. CASE /\ pc'[w] = "failed" /\ lost' = lost \cup {t}
             /\ "timeout" \in Faults
    <3>1. /\ Kept(k)' = {}
          /\ lost' \cap charges'[k] = (lost \cap charges[k]) \cup {t}
      BY <1>1, <1>3, <2>1, <2>3, KeptStep
    <3> QED
      BY <1>2, <1>3, <2>1, <2>3, <3>1, MappedCharges
      DEF Promise!Lose, MayLose, outcome
  <2> QED BY <1>3, <2>2, <2>3
<1>4. CASE Moves(w) /\ pc[w] = "authorize"
  BY <1>1, <1>3, <1>4 DEF Moves, Promise!Next
<1>5. CASE Moves(w) /\ pc[w] = "unwind"
  <2>1. Kept(k) # {} /\ (db[k] = "none" \/ MayUnwindRecorded)
    BY <1>1, <1>5 DEF ChargeInv, RunView, TxnPCs
  <2>2. Kept(k)' = {} /\ UNCHANGED <<db, charges, lost, outcome>>
    BY <1>1, <1>5, KeptStep DEF Moves
  <2>3. /\ [i \in Keys |-> Kept(i)]'
             = [[i \in Keys |-> Kept(i)] EXCEPT ![k] = {}]
        /\ UNCHANGED [i \in Keys |-> lost \cap charges[i]]
    BY <1>2, <2>2, MappedCharges
  <2>4. Promise!Void(k)
    BY <2>1, <2>2, <2>3 DEF Promise!Void, outcome
  <2> QED BY <2>4 DEF Promise!Next
<1>6. ASSUME Kept(k)' = Kept(k), UNCHANGED <<charges, lost>>
      PROVE  UNCHANGED <<[i \in Keys |-> Kept(i)],
                         [i \in Keys |-> lost \cap charges[i]]>>
  BY <1>2, <1>6 DEF Kept, Live
<1>7. CASE Moves(w) /\ pc[w] \in {"ledger", "reverse"}
  <2>1. Kept(k) # {}
    BY <1>1, <1>7 DEF ChargeInv, RunView, TxnPCs
  <2>2. Kept(k)' = Kept(k) /\ UNCHANGED <<charges, lost, outcome>>
    BY <1>1, <1>7, KeptStep DEF Moves
  <2>3. pc[w] = "reverse" => db[k] = "completed" /\ MayUnwindRecorded
    BY <1>1 DEF ChargeInv, RunView, RecordedPCs
  <2>4. Promise!Record(k) \/ Promise!Reverse(k)
    BY <1>1, <1>6, <1>7, <2>1, <2>2, <2>3
    DEF Moves, UpsertStatus, Promise!Record, Promise!Reverse, outcome
  <2> QED BY <2>4 DEF Promise!Next
<1>8. CASE Quiet(w)
  <2>1. Kept(k)' = Kept(k) /\ UNCHANGED <<db, charges, lost>>
    BY <1>8 DEF Quiet, Kept, Live, money
  <2>2. CASE /\ Finalize(w, "completed") /\ UNCHANGED dlq
             /\ k \in results \/ pc[w] \in {"backfill", "settle", "notify"}
    <3>1. \/ db[k] = "completed" \/ lost \cap charges[k] # {}
          \/ MayUnwindRecorded /\ db[k] = "compensated"
      BY <1>1, <2>2
      DEF ChargeInv, RunView, KeyView, RecordedPCs, DataInv
    <3>2. Promise!Complete(k)
      BY <1>1, <1>6, <2>1, <2>2, <3>1 DEF Promise!Complete, Finalize
    <3> QED BY <3>2 DEF Promise!Next
  <2>3. CASE /\ Finalize(w, "failed") /\ dlq' \in {dlq, dlq \cup {k}}
             /\ pc[w] \in {"declined", "retry"}
    <3>1. Kept(k) = {}
      BY <1>1, <2>3 DEF ChargeInv, RunView, UnchargedPCs
    <3>2. Promise!GiveUp(k)
      BY <1>1, <1>6, <2>1, <2>3, <3>1 DEF Promise!GiveUp, Finalize
    <3> QED BY <3>2 DEF Promise!Next
  <2>4. CASE UNCHANGED outcome
    BY <1>6, <2>1, <2>4 DEF Promise!paymentVars, outcome
  <2> QED BY <1>1, <1>8, <2>2, <2>3, <2>4 DEF Quiet
<1> QED
  BY <1>4, <1>5, <1>7, <1>8, MoneyStep DEF Moves

\* A run that dies with a charge loses it; nothing else in the environment is
\* a step of Payment.
LEMMA OtherKeepsPromise ==
  ASSUME OneJobPerKey, "stall" \notin Faults, PaymentInv, [Next]_vars,
         ~\E w \in Workers : Step(w)
  PROVE  [Promise!Next]_(Promise!paymentVars)
PROOF
<1> USE DEF PaymentInv
<1>1. ASSUME NEW w \in Workers, Crash(w)
      PROVE  [Promise!Next]_(Promise!paymentVars)
  <2>1. PICK k \in Keys : k = Key(w)
    BY <1>1, KeyType DEF Crash
  <2>2. UNCHANGED <<db, charges, outcome>>
    BY <1>1 DEF Crash
  <2>3. /\ \A i \in Keys \ {k} :
             /\ Kept(i)' = Kept(i)
             /\ lost' \cap charges'[i] = lost \cap charges[i]
        /\ \/ /\ txn[w] \in Txns /\ Kept(k) = {txn[w]}
              /\ db[k] # "completed" /\ Kept(k)' = {}
              /\ lost' \cap charges'[k] = (lost \cap charges[k]) \cup {txn[w]}
           \/ UNCHANGED lost /\ Kept(k)' = Kept(k)
    BY <1>1, <2>1, <2>2, CrashCharge
  <2>4. CASE /\ txn[w] \in Txns /\ Kept(k) = {txn[w]}
             /\ db[k] # "completed" /\ Kept(k)' = {}
             /\ lost' \cap charges'[k] = (lost \cap charges[k]) \cup {txn[w]}
    <3>1. PICK t \in Txns : t = txn[w]
      BY <2>4
    <3>2. MayLose
      BY <1>1 DEF Crash, MayLose
    <3>3. Promise!Lose(k, t)
      BY <2>2, <2>3, <2>4, <3>1, <3>2, MappedCharges
      DEF Promise!Lose, outcome
    <3> QED BY <3>3 DEF Promise!Next
  <2>5. CASE UNCHANGED lost /\ Kept(k)' = Kept(k)
    <3>1. \A i \in Keys : Kept(i)' = Kept(i)
      BY <2>3, <2>5
    <3> QED
      BY <2>2, <2>5, <3>1 DEF Promise!paymentVars, outcome, Kept, Live
  <2> QED BY <2>3, <2>4, <2>5
<1>2. CASE ~\E w \in Workers : Crash(w)
  BY <1>2, QuietOther DEF Promise!paymentVars, money, outcome, Kept, Live
<1> QED
  BY <1>1, <1>2

\* For any number of payments, workers and retries, and under every fault but
\* the redelivery of a job whose run goes on: process, with its locks, caches,
\* retries, compensations and dead letters, implements Payment.
THEOREM PromiseKept ==
  ASSUME OneJobPerKey, "stall" \notin Faults
  PROVE  Spec => ImplementsPayment
PROOF
<1>1. Init => PaymentInv
  BY PaymentInvInitial
<1>2. PaymentInv /\ [Next]_vars => PaymentInv'
  BY PaymentInvInductive
<1>3. Init => Promise!Init
  BY DEF Init, Promise!Init, Kept, Live
<1>4. PaymentInv /\ [Next]_vars => [Promise!Next]_(Promise!paymentVars)
  BY StepKeepsPromise, OtherKeepsPromise
<1> QED
  BY <1>1, <1>2, <1>3, <1>4, PTL DEF Spec, ImplementsPayment, Promise!Spec

\* Crashes and lost answers included, no payment is charged by a retry while a
\* charge that the system knows of stands.
THEOREM AccountedForOnce ==
  ASSUME OneJobPerKey, "stall" \notin Faults
  PROVE  Spec => []OneAccountedCharge
PROOF
<1>1. Promise!Spec => []Promise!OneCharge
  BY Promise!NeverChargedTwice
<1>2. Promise!OneCharge => OneAccountedCharge
  BY DEF Promise!OneCharge, OneAccountedCharge
<1> QED
  BY <1>1, <1>2, PromiseKept, PTL DEF ImplementsPayment

\* A payment that is reported completed, cached or recorded is charged and
\* stays so, as long as no saga step after the record fails: neither a later
\* attempt nor a reconciliation is told of a charge that is voided.
THEOREM CompletedPaymentsArePaid ==
  ASSUME OneJobPerKey, "stall" \notin Faults, ~MayUnwindRecorded
  PROVE  Spec => []CompletedIsPaid
PROOF
<1>1. Init => PaymentInv
  BY PaymentInvInitial
<1>2. PaymentInv /\ [Next]_vars => PaymentInv'
  BY PaymentInvInductive
<1>3. Promise!Spec => []Promise!CompletedIsPaid
  BY Promise!CompletedStaysPaid
<1>4. PaymentInv /\ Promise!CompletedIsPaid => CompletedIsPaid
  <2> SUFFICES ASSUME PaymentInv, Promise!CompletedIsPaid, NEW k \in Keys,
                      \/ "completed" \in reported[k] \/ k \in results
                      \/ db[k] # "none"
               PROVE  Live(k) # {}
    BY DEF CompletedIsPaid
  <2>1. db[k] = "completed" \/ "completed" \in reported[k]
          => Kept(k) \cup (lost \cap charges[k]) # {}
    BY DEF Promise!CompletedIsPaid
  <2>2. db[k] # "none" => db[k] = "completed"
    BY DEF PaymentInv, DataInv, ChargeInv, KeyView
  <2>3. k \in results => db[k] # "none" \/ lost \cap charges[k] # {}
    BY DEF PaymentInv, ChargeInv, KeyView
  <2>4. Kept(k) \cup (lost \cap charges[k]) \subseteq Live(k)
    BY DEF PaymentInv, TxnInv, Kept, Live
  <2> QED BY <2>1, <2>2, <2>3, <2>4
<1> QED
  BY <1>1, <1>2, <1>3, <1>4, PromiseKept, PTL DEF Spec, ImplementsPayment

-----------------------------------------------------------------------------
(* No job is completed with its payment unresolved.  A run that is alone   *)
(* with its payment and finds its lock taken would have found its own, so  *)
(* no run gets to reconcile, and every other return reports or             *)
(* dead-letters.                                                           *)

ReconcilePCs == {"haslock", "query", "settle"}

ResolvedInv ==
  /\ CompletedJobsAreResolved
  /\ \A w \in Workers : /\ pc[w] \notin ReconcilePCs
                        /\ pc[w] = "release" => Key(w) \in dlq

LEMMA ResolvedStep ==
  ASSUME OneJobPerKey,
         Faults \cap {"crash", "stall", "release", "reply", "dlq"} = {},
         RunInv, DataInv, OwnInv, NoOrphanLock, ResolvedInv,
         NEW w \in Workers, Step(w)
  PROVE  ResolvedInv'
PROOF
<1>1. pc[w] # "idle" /\ job[w] \in Jobs /\ Key(w) \in Keys
  BY StepFrame, KeyType
<1>2. pc[w] = "lock" => ~HasLock(Key(w))
  BY <1>1, Alone DEF NoOrphanLock, HasLock, LockedPCs, SagaPCs
\* Reports and dead letters stay, and a job the step completes has one.
<1> DEFINE Told(k) == "completed" \in reported'[k] \/ k \in dlq'
<1>3. /\ dlq \subseteq dlq'
      /\ \A k \in Keys : reported[k] \subseteq reported'[k]
      /\ pc'[w] \notin ReconcilePCs
      /\ pc'[w] = "release" => Key(w) \in dlq'
      /\ \A j \in Jobs : jobState'[j] = "completed" =>
           jobState[j] = "completed" \/ (j = job[w] /\ Told(Key(w)))
  <2> USE <1>1, <1>2 DEF ResolvedInv, ReconcilePCs, RunInv, DataInv, Goto,
        Leave, Return, Throw, Resolve, Reject, Finalize, bull, outcome
  <2>1. CASE GetResult(w)
    BY <2>1 DEF GetResult
  <2>2. CASE GetRecord(w)
    BY <2>2 DEF GetRecord
  <2>3. CASE Backfill(w)
    BY <2>3 DEF Backfill
  <2>4. CASE TryLock(w)
    BY <2>4 DEF TryLock
  <2>5. CASE LookupFails(w)
    BY <2>5 DEF LookupFails
  <2>6. CASE CheckLock(w) \/ QueryGateway(w) \/ StoreSettled(w) \/ LoseReply(w)
    BY <2>6 DEF CheckLock, QueryGateway, StoreSettled, LoseReply
  <2>7. CASE Authorize(w)
    BY <2>7 DEF Authorize
  <2>8. CASE Capture(w) \/ WriteLedger(w) \/ CacheResult(w)
    BY <2>8 DEF Capture, WriteLedger, CacheResult
  <2>9. CASE Notify(w)
    BY <2>9 DEF Notify
  <2>10. CASE ReverseLedger(w) \/ Unwind(w)
    BY <2>10 DEF ReverseLedger, Unwind
  <2>11. CASE GiveUpDeclined(w)
    BY <2>11 DEF GiveUpDeclined, DeadLetter, DeadLetterFails
  <2>12. CASE ReleaseDeclined(w)
    BY <2>12 DEF ReleaseDeclined
  <2>13. CASE ReleaseFailed(w)
    BY <2>13 DEF ReleaseFailed
  <2>14. CASE RetryOrGiveUp(w)
    BY <2>14 DEF RetryOrGiveUp, DeadLetter, DeadLetterFails
  <2> QED
    BY <2>1, <2>2, <2>3, <2>4, <2>5, <2>6, <2>7, <2>8, <2>9, <2>10, <2>11,
       <2>12, <2>13, <2>14 DEF Step
<1>4. CompletedJobsAreResolved'
  BY <1>1, <1>3, KeyOfType DEF ResolvedInv, CompletedJobsAreResolved, Key
<1>5. \A v \in Workers : /\ pc'[v] \notin ReconcilePCs
                         /\ pc'[v] = "release" => Key(v)' \in dlq'
  BY <1>3, StepFrame DEF ResolvedInv
<1> QED
  BY <1>4, <1>5 DEF ResolvedInv

LEMMA ResolvedOther ==
  ASSUME RunInv, ResolvedInv, [Next]_vars, ~\E w \in Workers : Step(w)
  PROVE  ResolvedInv'
PROOF
<1>1. \A j \in Jobs : jobState'[j] = "completed" => jobState[j] = "completed"
  BY DEF Next, Take, Refuse, Reject, Submit, Remove, Redeliver, Crash, Stall,
     LockExpires, ResultExpires, RunInv, bull, vars
<1> QED
  BY <1>1, OtherFrame
  DEF ResolvedInv, ReconcilePCs, CompletedJobsAreResolved, outcome

\* With one job per payment, and no crash, redelivery of a running job, lost
\* Redis reply or failing failure handler, BullMQ never completes a job whose
\* payment was neither reported completed nor dead-lettered: whatever fails in
\* the saga or the lookups, process returns only once the payment is resolved.
THEOREM NothingIsDropped ==
  ASSUME OneJobPerKey,
         Faults \cap {"crash", "stall", "release", "reply", "dlq"} = {}
  PROVE  Spec => []CompletedJobsAreResolved
PROOF
<1> DEFINE Inv == RunInv /\ DataInv /\ OwnInv /\ NoOrphanLock /\ ResolvedInv
<1>1. Init => Inv
  BY TypeInitial
  DEF Init, RedisInit, OwnInv, NoOrphanLock, ResolvedInv, ReconcilePCs,
      CompletedJobsAreResolved
<1>2. Inv /\ [Next]_vars => Inv'
  <2> SUFFICES ASSUME Inv, [Next]_vars PROVE Inv'
    OBVIOUS
  <2>1. CASE \E w \in Workers : Step(w)
    BY <2>1, TypeInductive, OwnStep, NoOrphanStep, ResolvedStep
  <2>2. CASE ~\E w \in Workers : Step(w)
    BY <2>2, TypeInductive, OwnOther, NoOrphanOther, ResolvedOther
  <2> QED BY <2>1, <2>2
<1>3. Inv => CompletedJobsAreResolved
  BY DEF ResolvedInv
<1> QED
  BY <1>1, <1>2, <1>3, PTL DEF Spec
=============================================================================
