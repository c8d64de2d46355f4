SPECIFICATION Spec
CONSTANTS
  Outputs = {1, 2, 3}
  MaxSlot = 1
  Tables = {"basic", "nft"}
  TableOf <- TwoTables
  MaxResults = 2
  PageSizes = {0, 1, 2, 3}
  CursorSizes = {1, 2, 3}
INVARIANTS
  AnswersCoverSlot
