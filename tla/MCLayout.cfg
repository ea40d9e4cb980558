SPECIFICATION Spec
CONSTANTS
  Byte = 3
  Native = 4
  Wide = 8
  MaxSets = 2
  Declarations <- Records
  Patterns <- FourWords
INVARIANTS
  ViewAgrees
  StampsPass
  TableIsWire
PROPERTY IsRecord
CHECK_DEADLOCK FALSE
