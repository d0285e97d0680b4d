SPECIFICATION Spec
CONSTANTS
  p1 = p1
  p2 = p2
  Operators = {p1, p2}
  Submitted <- AnyEvidence
  MaxAge = 2
  Horizon = 3
  MaxAccesses = 1
  MaxRestores = 1
  MaxFaults = 1
SYMMETRY Symmetry
CHECK_DEADLOCK FALSE
INVARIANTS RecordTellsPlace DroppedAfterQuarantine
PROPERTY StepByStep
