CONSTANTS
  Message = {1}
  Label = {"UNREAD"}
  Unread = "UNREAD"
  Sent = "SENT"
  NoRow = NoRow
  NoHistoryId = NoHistoryId
  MaxHistory = 4
  PageSize = 2
  BackfillLimit = 2
  Job = {j1, j2}
  Faults = TRUE
SPECIFICATION RequestsSpec
INVARIANTS
  RowsCurrentInTurn
  DeletedStayDeleted
CONSTRAINT
  OverlapOfReads
SYMMETRY JobSymmetry
CHECK_DEADLOCK FALSE
