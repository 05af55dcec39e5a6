SPECIFICATION MCSpec
CONSTANTS
  MaxLength = 9
  MaxUnits = 18
  MaxUncompressed = 8
  MaxDecoded = 10
  Plaintexts <- MCPlaintexts
  Payloads <- MCPayloads
  Sessions <- MCSessions
  Factored <- MCFactored
  HeaderSize <- MCHeaderSize
  Texts <- MCTexts
  MaxSource = 9
  Sources <- MCSources
  StoredMax = 2
  Slots = 2
  PtrMin = 3
  MtfMin = 2
  MaxShort = 3
  MaxLong = 2
  LitCount = 3
  MaxWindow = 3
INVARIANTS OneSession CellsComeBack DamageNoticed SizesAgree UnitsComeBack CompactFollows
