\* ./main --server host:port --threads 1, under fair scheduling
SPECIFICATION FairSpec
CONSTANTS
  g1 = g1
  g2 = g2
  c1 = c1
  c2 = c2
  isle = isle
  rock = rock
  cape = cape
  none = none
  Gpus = {}
  Cpus = {c1}
  HasClient = FALSE
  HasServer = TRUE
  SeedSpace = 8
  BatchSize = 2
  StartSeed = 5
  Candidate <- MCCandidate
  Hits <- MCHits
  process <- MCProcess
  NoOutput = none
  Remote = {isle, rock}
  MaxBatches = 0
  MaxRemote = 1
PROPERTIES
  ShutdownCompletes
