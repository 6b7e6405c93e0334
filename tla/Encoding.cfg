SPECIFICATION Spec
CONSTANTS
  Word = 27
  MaxLanes = 3
  Radix = 3
  ByteBits = 4
  CharBits = 3
  AccBits = 8
  ULONG_MAX = 39
  Alphabet <- MCAlphabet
  Digits <- MCDigits
  Char <- MCChar
  Contexts <- MCContexts
  Rooms <- MCRooms
  SmallRooms = {4, 9}
  Changed <- MCChanged
  NoString = NoString
  NoContext = NoContext
INVARIANTS TypeOK RoundTrip Canonical EncodesWhenItFits FieldsFit
