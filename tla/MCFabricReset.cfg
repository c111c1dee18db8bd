SPECIFICATION ReaderSpec
CONSTANTS
  NUM_CORES = 2
  NUM_PACKETS = 2
  LAST_ROUND = 7
  Packet = {p1}
  p1 = p1
  p2 = p2
  Zero = Zero
  Address <- MCAddress
  Writes <- TimingWrites
  Reads <- SomeReads
  Digest <- MCDigest
  NoDigest = NoDigest
INVARIANTS
  GenuineDigestsSafe
  ResetInv
  ReadsAtomic
