SPECIFICATION Spec
CONSTANTS
  SymbolCount = 8
  MaxLength = 3
  Frequencies <- AllFrequencies
INVARIANTS CodeIsComplete CodesDecode LengthsAreOptimal
