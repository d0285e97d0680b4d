SPECIFICATION Spec
CONSTANTS
  k1 = k1  c1 = c1  c2 = c2  t1 = t1  x1 = x1  j1 = j1
  NoOwner = NoOwner  NoFp = NoFp
  Keys = {k1}
  Callers = {c1, c2, t1}
  KeyOf <- SameKey
  FpOf <- TwoRequests
  Prevent = {t1}
  Cleaners = {x1}
  LifecycleJobs = {j1}
  LeaseTTL = 1
  MaxFaults = 2
  MaxInterventions = 1
  MaxPurges = 1
INVARIANTS TypeOK ReceiptExact ExternalCallOnce SuccessWasCommitted
PROPERTIES PurgeOnlyExpired ImplementsReceipt
SYMMETRY Interchange
CHECK_DEADLOCK FALSE
