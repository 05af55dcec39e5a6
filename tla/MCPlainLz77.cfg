SPECIFICATION Spec
CONSTANTS
  MaxInput = 7
  MaxRun = 14
  Plaintexts <- AllInputs
  MinMatch = 3
  MaxOffset = 3
  FlagBits = 3
  TokenLimit = 2
  NibbleLimit = 2
  ByteLimit = 2
  WordLimit = 9
  MaxChain = 2
INVARIANTS TypeOK InStep TruncatedCellRefused
PROPERTY Lossless
