SPECIFICATION Spec
CONSTANTS
  CellBits = 2
  TableSize = 1
  Items <- SampleItems
  MaxItems = 5
INVARIANTS TypeOK CursorsAgree NeverTruncated EndsAtNextBlock ValuesSurvive
