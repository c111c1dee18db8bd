SPECIFICATION FairSpec
CONSTANTS
  MaxSessions = 1
  MaxJobs = 1
  MaxWire = 2
  Difficulties = {1}
  NumAddresses = 1
  WORK_QUEUE_SIZE = 2
  NoJob = NoJob
PROPERTIES
  CloseReconnects
CHECK_DEADLOCK FALSE
