SPECIFICATION FairSpec
CONSTANTS
  same = same
  other = other
  Clients = {same, other}
  Matching = {same}
  HsSize = 2
  RecSize = 2
  BufSize = 4
  MaxRecords = 3
INVARIANTS
  TypeOK
  WholeRecordsInOrder
  ReadHasRoom
  OnlyMatchingQueued
PROPERTIES
  ImplementsChannel
  RecordsArrive
CHECK_DEADLOCK FALSE
