SPECIFICATION Spec
CONSTANTS
  range = 32
  Word = 26624
  Z2 = 4
  wn = 16
  MinSizes = {0, 1138}
  Positions = {0}
INVARIANT CoverageReachedAccepted
