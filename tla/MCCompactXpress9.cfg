SPECIFICATION CompactSpec
CONSTANTS
  Sources <- MCSources
  StoredMax = 13
  Slots = 4
  PtrMin = 3
  MtfMin = 2
  MaxShort = 16
  MaxLong = 232
  LitCount = 256
  MaxWindow = 24
INVARIANT CompactRoundTrip
