SPECIFICATION Spec
CONSTANTS
  p1 = p1  p2 = p2  p3 = p3  i1 = i1  i2 = i2
  Processes = {p1, p2, p3}
  Instances = {i1, i2}
  Identities = {"X", "Y"}
  NoIdentity = NoIdentity
  InstOf <- SharedInstOf
  IdOf <- SharedIdOf
  LeaseDuration = 3
  HeartbeatInterval = 1
  Grace = 0
  Overlap = FALSE
  MaxFaults = 2
  MaxStalls = 1
  Horizon = 5
INVARIANTS TypeOK LeasesAgree GenerationIdentity OneRelease ActiveHoldsLease
CHECK_DEADLOCK FALSE
