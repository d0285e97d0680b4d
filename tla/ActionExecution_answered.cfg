SPECIFICATION FairSpec
CONSTANTS
  k1 = k1  c1 = c1  c2 = c2  t1 = t1  x1 = x1  j1 = j1
  NoOwner = NoOwner  NoFp = NoFp
  Keys = {k1}
  Callers = {c1, c2, t1}
  KeyOf <- SameKey
  FpOf <- OneRequest
  Prevent = {t1}
  Cleaners = {}
  LifecycleJobs = {j1}
  LeaseTTL = 1
  MaxFaults = 1
  MaxInterventions = 1
  MaxPurges = 1
PROPERTIES CallersAnswered
CHECK_DEADLOCK FALSE
