SPECIFICATION Spec
CONSTANTS
  BLAKE2B_BLOCKBYTES = 4
  BLAKE2B_OUTBYTES = 4
  Word = 8
  Byte <- MCByte
  Zero <- MCZero
  MaxMessage = 9
  Base = 2
  ByteOf <- MCByteOf
  StreamLens = {0, 2, 4, 5}
  OutLens = {0, 1, 4, 5, 6, 7, 8, 9, 10, 15, 16}
  Inputs <- MCInputs
  Plain = Plain
INVARIANTS LongInv DigestOfMessage DigestIdentifiesMessage LongIsExact LongSucceeds IInv
