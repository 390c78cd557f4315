SPECIFICATION Spec
CONSTANT
  Bad = Bad
INVARIANTS
  TypeOK
  UniformBarriers
  OwnNoise
  TilesCover
  SquareCovered
  OwnWindow
  ShortcutsExact
  ShuffleFair
  FillsExact
  NoLargeIslandMissed
  VerdictSound
  CandidateCentred
  SourceAndDrain
  EveryOptionUsed
PROPERTIES
  ImplementsFilter
  KernelsEnd
  SearchEnds
