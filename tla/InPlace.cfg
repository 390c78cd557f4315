SPECIFICATION Spec
CONSTANTS
  BatchSeeds = 2
  MaxBatches = 1
  Centers = {1}
  Tiles = {1, 2}
  SeedCap = 2
  Cap1 = 4
  Cap2 = 4
INVARIANTS
  CompleteUnlessOverflow
CHECK_DEADLOCK FALSE
