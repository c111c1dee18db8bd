SPECIFICATION FairSpec
CONSTANTS
  MaxSessions = 3
  MaxJobs = 1
  MaxWire = 2
  Difficulties = {1}
  NumAddresses = 2
  WORK_QUEUE_SIZE = 2
  NoJob = NoJob
INVARIANTS
  TypeOK
  QueuePrefix
  StagedIsQueued
  ReadyWorkCoherent
  ListeningSubscribed
  DeathCauses
  MinerInv
PROPERTIES
  TakenSlotsKept
  WorkReachesFabric
  ResetReconnects
  MidLineBreakHangs
CHECK_DEADLOCK FALSE
