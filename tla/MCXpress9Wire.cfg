SPECIFICATION Spec
CONSTANTS
  Size = 24
  Row = 8
  MaxLen = 5
  ZeroMin = 3
  Extend = 1
  Continue = 3
  FirstPrev = 3
  SmallMax = 4
  SmallPrev = 2
  Counts <- MCCounts
  Vectors <- MCVectors
  Foreign <- MCForeign
  ForeignSmall <- MCForeignSmall
  MtfSlots = 4
  PtrBase = 4
  MtfBase = 2
  MaxShort = 16
  MaxLong = 232
  LitCount = 256
  MaxWindow = 24
  MaxLenBits = 16
  MaxOffBits = 25
INVARIANTS TableTypeOK TableComesBack CodesAgree TokenSurvivesWire SymbolsHaveRoom
CHECK_DEADLOCK FALSE
