SPECIFICATION CodecSpec
CONSTANTS
  MaxBlock = 8
  MaxWords = 6
  Plaintexts <- AllBlocks
  Slots = 3
  PtrMin = 3
  MtfMin = 2
  ChunkSize = 7
  HashLen = 3
  Hash <- CollidingHash
  MaxDepth = 2
  Tick = 2
  MaxOffset <- ShortReach
  MaxWindow = 4
  MaxShort = 2
  MaxLong = 2
  LitCount = 2
INVARIANTS CodecTypeOK LastPtrIsCurrent
PROPERTIES ImplementsStream Terminates
