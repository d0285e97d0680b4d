SPECIFICATION Spec
CONSTANTS
  Tasks <- ThreeTasks
  Deadlines = {1}
  Requests = {r1, r2}
  Workers = {w1}
  Modes = {"any", "quorum", "all", "sequential"}
  Required = 2
  MaxAttempts = 1
  Tries = 2
  MaxFailures = 2
  MaxFaults = 0
  NoOwner = NoOwner
INVARIANTS VotesCount WaitingIsDecidable
PROPERTIES WithdrawnStays
SYMMETRY Symmetry
CHECK_DEADLOCK FALSE
