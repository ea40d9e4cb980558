SPECIFICATION Spec
CONSTANTS
  Messages <- MCMessages
  Params <- MCParams
INVARIANTS
  NothingIgnored
  RefusedInPlace
CHECK_DEADLOCK FALSE
