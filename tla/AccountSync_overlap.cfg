CONSTANTS
  Message = {1}
  Label = {"INBOX"}
  NoRow = NoRow
  NoHistoryId = NoHistoryId
  MaxHistory = 3
  PageSize = 2
  BackfillLimit = 2
  Job = {j1, j2}
  Faults = TRUE
  MaxSignIns = 1
SPECIFICATION AccountSpec
INVARIANTS
  NoChangeSkipped
  SignedInInboxCurrent

  
SYMMETRY JobSymmetry
CHECK_DEADLOCK FALSE
