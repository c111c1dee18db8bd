SPECIFICATION FairSpec
CONSTANTS
  j1 = j1
  j2 = j2
  j3 = j3
  Jobs = {j1, j2, j3}
  NoJob = NoJob
  Idle = Idle
  MaxOut = 2
  NumPools = 1
  Owner <- MCOwner
  Buffer = 2
  BothFail = FALSE
INVARIANTS
  TypeOK
  DiesOnlyOfFpga
  AtMostOneOutdated
  ThreadsInv
  MiscreditNeedsInjection
PROPERTIES
  LockReleased
  DrainEnds
