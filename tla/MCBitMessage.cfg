SPECIFICATION Spec
CONSTANTS
  W = 4
  MaxBits = 6
  Messages <- MCMessages
  Codes <- MCCodes
  Caps = {1, 3}
  Bodies <- MCBodies
INVARIANTS
  RoundTrip
  TableIsRead
  WireIsKept
CHECK_DEADLOCK FALSE
