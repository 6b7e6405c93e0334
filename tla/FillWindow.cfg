SPECIFICATION Spec
CONSTANTS
  lanes = 3
  threads = 2
  Failures = {"join"}
  segment_length = 3
  passes = 2
  type = "id"
  version10 = FALSE
  Seed = {0, 1, 2}
  Word <- MCWord
  Block <- MCBlock
  Garbage <- MCGarbage
  FirstBlock <- MCFirstBlock
  Compress <- MCCompress
  Xor <- MCXor
  First64 <- MCFirst64
  Address <- MCAddress
INVARIANTS IInv NoDataRace ThreadLimit Deterministic RInv
