CONSTANTS
  Message = {1, 2}
  Label = {"UNREAD"}
  NoRow = NoRow
  NoHistoryId = NoHistoryId
  MaxHistory = 3
  PageSize = 2
  BackfillLimit = 2
  Job = {j1, j2}
  Faults = FALSE
SPECIFICATION TurnSpec
INVARIANTS
  RowsCurrent
CHECK_DEADLOCK FALSE
