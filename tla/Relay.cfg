\* ./main --server host:port --device 0 --client host:port, under fair scheduling
SPECIFICATION FairSpec
CONSTANTS
  g1 = g1
  g2 = g2
  c1 = c1
  c2 = c2
  isle = isle
  rock = rock
  cape = cape
  none = none
  Gpus = {g1}
  Cpus = {}
  HasClient = TRUE
  HasServer = TRUE
  SeedSpace = 8
  BatchSize = 2
  StartSeed = 5
  Candidate <- MCCandidate
  Hits <- MCHits
  process <- MCProcess
  NoOutput = none
  Remote = {isle, rock}
  MaxBatches = 2
  MaxRemote = 2
INVARIANTS
  ExitKeepsTakenWork
PROPERTIES
  CandidatesServed
  ShutdownCompletesIfPublished
