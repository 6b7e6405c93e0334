SPECIFICATION Spec
CONSTANTS
  lanes = 3
  threads = 3
  Failures = {"calloc", "create"}
  segment_length = 2
  passes = 2
  type = "d"
  version10 = FALSE
  Seed = {0, 1}
  Word <- MCWord
  Block <- MCBlock
  Garbage <- MCGarbage
  FirstBlock <- MCFirstBlock
  Compress <- MCCompress
  Xor <- MCXor
  First64 <- MCFirst64
  Address <- MCAddress
INVARIANTS TypeOK ReadsComputedBlocks DistinctOperands NoThreadSurvives JoinsAreDefined Deterministic RInv
PROPERTIES Termination ImplementsPasses
