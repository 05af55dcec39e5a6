SPECIFICATION Spec
CONSTANTS
  MaxInput = 10
  MaxRun = 12
  Plaintexts <- AllInputs
  ChunkSize = 8
  WordBits = 4
  MinBits = 2
  MaxBits = 3
  GroupSize = 3
  MinMatch = 3
  MaxCandidates = 2
INVARIANTS TypeOK CutsNoticed
PROPERTY Lossless
