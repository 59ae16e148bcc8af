------------------------ MODULE MCPaymentProcessor ------------------------
(***************************************************************************)
(* Instances of PaymentProcessor for TLC.                                  *)
(***************************************************************************)
EXTENDS PaymentProcessor, TLC

CONSTANTS j1, j2, w1, w2, t1, t2, t3, t4, k1

\* One payment, enqueued once.
OneJob == {j1}
\* One payment enqueued twice, in two priority queues: BullMQ removes
\* duplicates of a jobId within one queue only.
TwoJobs == {j1, j2}
OneKey == {k1}
\* Every job carries the one payment.
SameKey == [j \in Jobs |-> k1]

OneWorker == {w1}
TwoWorkers == {w1, w2}
TwoTxns == {t1, t2}
ThreeTxns == {t1, t2, t3}
FourTxns == {t1, t2, t3, t4}

\* Workers and transactions are only compared and stored.
RunSymmetry == Permutations(Workers) \cup Permutations(Txns)
DuplicateSymmetry ==
  Permutations(Jobs) \cup Permutations(Workers) \cup Permutations(Txns)

\* Faults under which one run at a time works on a payment and its failure
\* handler succeeds.
SerialFaults ==
  FaultKinds \ {"timeout", "crash", "stall", "release", "reply", "dlq"}
\* Faults that leave a payment to one run at a time.
SoloFaults == FaultKinds \ {"stall"}
\* Faults that leave every charge to the run that made it, and every lock to
\* be deleted by the run that took it.
ConcurrentFaults ==
  {"decline", "capture", "ledger", "store", "lookup", "stall", "ttl",
   "evict"}
=============================================================================
