SPECIFICATION Spec
CONSTANTS
  t1 = t1  t2 = t2  t3 = t3  w1 = w1  w2 = w2  o1 = o1  NoOwner = NoOwner
  Timers = {t1, t2}
  Workers = {w1, w2}
  Clients = {o1}
  Workspaces = {1}
  WsOf <- OneWorkspace
  Rank <- InOrder
  Groups <- AllTimers
  Limit = 2
  MaxAttempts = 2
  BaseDelay = 1
  CapDelay = 1
  LeaseTTL = 1
  PassTime = 0
  MaxPass = 1
  MaxDue = 0
  MaxFaults = 2
  MaxInterventions = 1
INVARIANTS TypeOK OneHolder FiredWasExecuted FailedExhausted
PROPERTIES EndedStays
SYMMETRY SameWorkers
CHECK_DEADLOCK FALSE
