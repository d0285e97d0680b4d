SPECIFICATION Spec
CONSTANTS
  Tasks <- TwoTasks
  Deadlines = {}
  Requests = {r1}
  Workers = {w1}
  Modes = {"any"}
  Required = 1
  MaxAttempts = 2
  Tries = 1
  MaxFailures = 1
  MaxFaults = 0
  NoOwner = NoOwner
INVARIANTS FailureIsRetryable
CHECK_DEADLOCK FALSE
