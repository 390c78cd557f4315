\* ./main --device 0 --threads 1
SPECIFICATION Spec
CONSTANTS
  g1 = g1
  g2 = g2
  c1 = c1
  c2 = c2
  isle = isle
  rock = rock
  cape = cape
  none = none
  Gpus = {g1}
  Cpus = {c1}
  HasClient = FALSE
  HasServer = FALSE
  SeedSpace = 8
  BatchSize = 2
  StartSeed = 5
  Candidate <- MCCandidate
  Hits <- MCHits
  process <- MCProcess
  NoOutput = none
  Remote = {}
  MaxBatches = 1
  MaxRemote = 0
INVARIANTS
  ExitExaminesEverything
