SPECIFICATION FairSpec
CONSTANTS
  c1 = c1
  c2 = c2
  NoCopier = NoCopier
  Copiers = {c1, c2}
  Deltas = {c2}
  NTables = 2
  MaxKey = 2
  Decoded <- DecodedKeys
  Source0 <- FirstRows
  Writable <- SomeWrites
  Unconvertible = {3}
  BatchSize = 1
  MaxBatches <- Batches
  MaxEvents = 2
  MaxWrites = 1
CHECK_DEADLOCK FALSE
INVARIANTS TypeOK CheckpointCovers DeltaIsComplete FinalizedIsExact
PROPERTY CopyConverges
