SPECIFICATION Spec
CONSTANTS
  j1 = j1
  j2 = j2
  w1 = w1
  w2 = w2
  t1 = t1
  t2 = t2
  t3 = t3
  t4 = t4
  k1 = k1
  None = None
  Keys <- OneKey
  Jobs <- OneJob
  KeyOf <- SameKey
  Workers <- TwoWorkers
  Txns <- TwoTxns
  RetryLimits = {2}
  Faults = {"crash"}
INVARIANT AtMostOneCharge
CHECK_DEADLOCK FALSE
