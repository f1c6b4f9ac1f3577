CONSTANTS
  User = {u1, u2}
  NoWatch = NoWatch
  WatchLength = 5
  RenewWindow = 2
  CronPeriod = 2
  MaxClock = 10
SPECIFICATION Spec
INVARIANTS
  RowNotAhead
  
SYMMETRY UserSymmetry
CHECK_DEADLOCK FALSE
