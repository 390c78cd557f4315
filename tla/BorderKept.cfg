SPECIFICATION Spec
CONSTANTS
  Offsets = {0, 65536}
  Columns = {0, 128, 255}
INVARIANT WithinBorder
