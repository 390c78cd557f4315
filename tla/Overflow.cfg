SPECIFICATION Spec
CONSTANTS
  BatchSeeds = 2
  MaxBatches = 1
  Centers = {1}
  Tiles = {1, 2}
  SeedCap = 2
  Cap1 = 2
  Cap2 = 1
INVARIANTS
  OverflowReported
CHECK_DEADLOCK FALSE
