SPECIFICATION FairSpec
CONSTANTS
  Tasks <- OneTask
  Deadlines = {}
  Requests = {r1}
  Workers = {w1, w2}
  Modes = {"any"}
  Required = 1
  MaxAttempts = 2
  Tries = 1
  MaxFailures = 1
  MaxFaults = 2
  NoOwner = NoOwner
INVARIANTS  EffectOnce
PROPERTIES ContinuationEnds
CHECK_DEADLOCK FALSE
