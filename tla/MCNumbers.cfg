SPECIFICATION Spec
CONSTANTS
  Width = 7
  Group = 2
  Rooms = {0, 1, 2, 3, 4, 5}
  Inputs <- MCInputs
  Bits <- MCBits
  Tails <- MCTails
  BitTails <- MCBitTails
INVARIANTS
  DecodeIsReference
  NumberRoundTrip
  ShortestOrOverflow
CHECK_DEADLOCK FALSE
