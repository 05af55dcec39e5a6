SPECIFICATION Spec
CONSTANTS
  MaxInput = 8
  MaxRun = 20
  Plaintexts <- AllInputs
  MinMatch = 3
  NibbleMax = 3
  ByteMax = 2
  WordLimit = 8
  OffsetBits = 2
  MaxChain = 2
  BlockSize = 5
  EofSymbol = 2
INVARIANTS TypeOK BlocksMeet
PROPERTY Lossless
