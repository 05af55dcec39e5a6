SPECIFICATION Spec
CONSTANTS
  MaxBlock = 9
  Plaintexts <- AllBlocks
  Slots = 3
  PtrMin = 2
  MtfMin = 2
INVARIANTS TypeOK OutputFollowsInput ListsAgree NoFalseRejection
