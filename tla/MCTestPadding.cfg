SPECIFICATION Spec
CONSTANTS
  TEST_TABLE_LEN = 3
  Files <- StandardFiles
INVARIANT PaddedAsStandard
