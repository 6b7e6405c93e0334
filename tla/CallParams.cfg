SPECIFICATION Spec
CONSTANTS
  Word <- MCWord
  MaxLanes <- MCMaxLanes
  Passwords = {"p", "q"}
  TCosts <- MCTCosts
  MCosts <- MCMCosts
  Parallelisms <- MCParallelisms
  SaltBytes <- MCSaltBytes
  Salts <- MCSalts
  Radix = 10
  Tampered <- MCTampered
  NoTag = NoTag
  NoHash = NoHash
  OtherTag = OtherTag
  Garbled = Garbled
INVARIANTS HashedAsAsked
