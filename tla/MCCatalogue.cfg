SPECIFICATION Spec
CONSTANTS
  Word = 16
  Items <- MCItems
INVARIANTS
  EveryRawReturns
  HeldOrRefused
  DiscriminantIsWire
CHECK_DEADLOCK FALSE
