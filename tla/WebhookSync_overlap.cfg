CONSTANTS
  Message = {1, 2}
  Label = {"INBOX"}
  NoRow = NoRow
  NoHistoryId = NoHistoryId
  MaxHistory = 4
  PageSize = 2
  BackfillLimit = 2
  Job = {j1, j2}
  Faults = TRUE
SPECIFICATION TurnSpec
INVARIANTS
  NoChangeSkipped
  RowsCurrentInTurn
  InboxCurrentInTurn
PROPERTIES
  WatermarkForward
  ImplementsFeed
CONSTRAINT ShortOverlap
SYMMETRY JobSymmetry
CHECK_DEADLOCK FALSE
