SPECIFICATION Spec
CONSTANTS
  Bodies <- MCBodies
  Fragile <- MCFragile
  Caps = {3, 6, 20}
  Before = 1
  MaxNum = 4
  MaxRun = 2
  Held = 3
INVARIANTS
  DamageIsCaught
  OverflowIsExact
  RoundTripSettled
  StampableIsAcyclic
PROPERTY FilledOnce
CHECK_DEADLOCK FALSE
