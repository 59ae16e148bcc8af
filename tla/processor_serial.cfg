SPECIFICATION FairSpec
CONSTANTS
  j1 = j1
  j2 = j2
  w1 = w1
  w2 = w2
  t1 = t1
  t2 = t2
  t3 = t3
  t4 = t4
  k1 = k1
  None = None
  Keys <- OneKey
  Jobs <- OneJob
  KeyOf <- SameKey
  Workers <- OneWorker
  Txns <- FourTxns
  RetryLimits = {0, 1, 2}
  Faults <- SerialFaults
INVARIANTS AtMostOneCharge CompletedJobsAreResolved
PROPERTY NoPaymentVanishes
CHECK_DEADLOCK FALSE
