SPECIFICATION Spec
CONSTANTS
  MaxInput = 9
  MaxRun = 10
  Plaintexts <- AllInputs
  MinMatch = 2
  MaxOffset = 4
  TokenMax = 3
  Continue = 2
  LastLiterals = 2
  MfLimit = 4
INVARIANTS EndOfBlockRules NeverShort
PROPERTY Lossless
