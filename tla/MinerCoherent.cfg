SPECIFICATION Spec
CONSTANTS
  MaxSessions = 2
  MaxJobs = 1
  MaxWire = 2
  Difficulties = {1}
  NumAddresses = 1
  WORK_QUEUE_SIZE = 2
  NoJob = NoJob
INVARIANTS
  QueuedWorkCoherent
CHECK_DEADLOCK FALSE
