SPECIFICATION CodecSpec
CONSTANTS
  Plaintexts <- OneBlock
  Slots = 4
  PtrMin = 4
  MtfMin = 2
  ChunkSize = 43434
  HashLen = 4
  Hash <- WordItself
  MaxDepth = 2
  Tick = 8
  MaxOffset <- MaxOffsetByLength
  MaxWindow = 24
  MaxShort = 16
  MaxLong = 232
  LitCount = 256
INVARIANT RoundTrip
