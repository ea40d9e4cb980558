SPECIFICATION Spec
CONSTANTS
  W = 3
  MaxBits = 5
  Values <- MCValues
  Caps = {2, 4}
  Held <- MCHeld
  PosMax = 13
  MaxCalls = 3
PROPERTIES
  HeldBytesStay
  ImplementsBitStream
CHECK_DEADLOCK FALSE
