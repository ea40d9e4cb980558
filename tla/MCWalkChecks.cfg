SPECIFICATION Spec
CONSTANTS
  Bodies <- MCOverChecks
  Caps = {20}
  Before = 1
  MaxNum = 7
  MaxRun = 2
  Held = 5
  Fragile <- MCIntact
INVARIANTS
  RoundTripAlways
CHECK_DEADLOCK FALSE
