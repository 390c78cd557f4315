\* ./main --device 0,1 --threads 2, under fair scheduling
SPECIFICATION FairSpec
CONSTANTS
  g1 = g1
  g2 = g2
  c1 = c1
  c2 = c2
  isle = isle
  rock = rock
  cape = cape
  none = none
  Gpus = {g1, g2}
  Cpus = {c1, c2}
  HasClient = FALSE
  HasServer = FALSE
  SeedSpace = 8
  BatchSize = 2
  StartSeed = 5
  Candidate <- MCCandidate
  Hits <- MCHits
  process <- MCProcess
  NoOutput = none
  Remote = {}
  MaxBatches = 2
  MaxRemote = 0
INVARIANTS
  TypeOK
  CandidatesAccounted
  ReportsExactlyOnce
  ExitKeepsTakenWork
  TotalSeedsCompleted
  SeedsClaimedOnce
PROPERTIES
  ShutdownCompletes
  CandidatesServed
  ResultsWritten
