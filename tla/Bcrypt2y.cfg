SPECIFICATION Spec
CONSTANTS
  MaxPassword = 2
  Byte = 4
  SaltBytes = 4
  Plains <- MCPlains
  Costs = {3, 4, 32}
  RandomSalts <- MCRandomSalts
  SaltTexts <- MCSaltTexts
  Changed <- MCChanged
  NoText = NoText
  NoDigest = NoDigest
  OtherDigest = OtherDigest
INVARIANTS Verifies2y
