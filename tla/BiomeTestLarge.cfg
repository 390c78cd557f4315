SPECIFICATION Spec
CONSTANTS
  range = 32
  Word = 1664
  Z2 = 4
  wn = 16
  MinSizes = {72}
  Positions = {0}
INVARIANT VerdictSound
