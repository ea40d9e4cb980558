SPECIFICATION Spec
CONSTANTS
  Sizes = {1, 2}
  Widths = {0, 3}
  Offsets = {4}
  Aligns = {2}
  MaxSegments = 3
INVARIANTS
  TableIsWire
  StatedIsWire
  PrefixIsExact
  ArmsFitIsExact
CHECK_DEADLOCK FALSE
