SPECIFICATION DatapathSpec
CONSTANTS
  NUM_CORES = 1
  NUM_PACKETS = 4
  LAST_ROUND = 64
  Packet <- MCPacket
  Zero <- MCZero
  Address = {0}
  Digest <- MCDigestOf
  NoDigest = NoDigest
  Writes = {}
  Reads = {}
  PowerUp <- MCPowerUp
  Offers <- MCOffers
  Schedule <- MCSchedule
  Working <- MCWorking
INVARIANTS
  DigestRegisters
  PipelineInv
  KnownAnswer
