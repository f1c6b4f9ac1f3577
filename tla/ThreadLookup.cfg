CONSTANTS
  Message = {1, 2, 3}
  Absent = Absent
  Null = Null
  Start = Start
  Waiting = Waiting
  NoRequest = NoRequest
  NoThread = NoThread
  Thread <- MCThread
  MAX_WIDE_PAGES = 2
  MaxChanges = 1
  PAGE_SIZE = 2
  WIDE_PAGE_SIZE = 1
  MaxLoads = 1
  MaxInFlight = 1
SPECIFICATION ThreadSpec
INVARIANTS
  ThreadTypeOK
  
PROPERTIES
  FoundIsShown
  LookupEnds
CONSTRAINTS
  FewInFlight
  FirstPageOfAll
  OneRead
CHECK_DEADLOCK FALSE
