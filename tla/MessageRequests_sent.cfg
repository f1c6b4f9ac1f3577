CONSTANTS
  Message = {1}
  Label = {"UNREAD", "SENT"}
  Unread = "UNREAD"
  Sent = "SENT"
  NoRow = NoRow
  NoHistoryId = NoHistoryId
  MaxHistory = 2
  PageSize = 2
  BackfillLimit = 2
  Job = {j1, j2}
  Faults = FALSE
SPECIFICATION FairRequestsSpec
INVARIANTS
  LabelsFromGmail
PROPERTIES
  SentIsStored
  CatchesUp
CHECK_DEADLOCK FALSE
