SPECIFICATION Spec
CONSTANTS
  TEST_TABLE_LEN = 3
  Files <- MCFiles
INVARIANTS
  KeptInOrder
  PreparedMessage
  CleanFill
  VectorsInv
