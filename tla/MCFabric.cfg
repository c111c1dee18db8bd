SPECIFICATION FairSpec
CONSTANTS
  NUM_CORES = 2
  NUM_PACKETS = 2
  LAST_ROUND = 6
  Packet = {p1, p2}
  p1 = p1
  p2 = p2
  Zero = Zero
  Address <- MCAddress
  Writes <- MCWrites
  Reads <- NoReads
  Digest <- MCDigest
  NoDigest = NoDigest
INVARIANTS
  TypeOK
  NoCollision
  NoOverrun
  NoQueueDiscarded
  StableCapture
  FabricInv
  Deadlines
PROPERTIES
  DispatchEnds
  DigestsDelivered
  EngineRefinement
  DispatchOnTime
  DigestsOnTime
