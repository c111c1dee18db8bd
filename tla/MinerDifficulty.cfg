SPECIFICATION Spec
CONSTANTS
  MaxSessions = 1
  MaxJobs = 2
  MaxWire = 2
  Difficulties = {1}
  NumAddresses = 1
  WORK_QUEUE_SIZE = 2
  NoJob = NoJob
INVARIANTS
  DifficultyKept
CHECK_DEADLOCK FALSE
