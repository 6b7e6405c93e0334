SPECIFICATION Spec
CONSTANTS
  lanes = 2
  threads = 1
  Failures = {}
  segment_length = 3
  passes = 2
  type = "d"
  version10 = TRUE
  Seed = {0, 1, 2, 3, 4}
  Word <- MCWord
  Block <- MCBlock
  Garbage <- MCGarbage
  FirstBlock <- MCFirstBlock
  Compress <- MCCompress
  Xor <- MCXor
  First64 <- MCFirst64
  Address <- MCAddress
INVARIANTS Deterministic
PROPERTIES Termination ImplementsPasses
