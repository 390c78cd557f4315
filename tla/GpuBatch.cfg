SPECIFICATION Spec
CONSTANTS
  BatchSeeds = 2
  MaxBatches = 2
  Centers = {1}
  Tiles = {1, 2}
  SeedCap = 2
  Cap1 = 3
  Cap2 = 2
INVARIANTS
  TypeOK
  OctavesFresh
  OneInitialiser
  NoFalseCandidates
  CompleteUnlessDisturbed
CHECK_DEADLOCK FALSE
