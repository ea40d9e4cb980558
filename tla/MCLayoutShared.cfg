SPECIFICATION Spec
CONSTANTS
  Byte = 3
  Native = 4
  Wide = 8
  MaxSets = 2
  Declarations <- SharedWord
  Patterns <- FourWords
INVARIANT FieldsApart
CHECK_DEADLOCK FALSE
