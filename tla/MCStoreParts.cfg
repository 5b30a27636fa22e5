SPECIFICATION PartsSpec
CONSTANTS
  Calls = {c1, NoCall}
  NoCall = NoCall
  Agents = {a1}
  Shapes <- DialogOrAny
  Skews <- AnySkew
  BadRecords = {FALSE}
  DayLength = 2
  Zone <- West
  FailingDays = {3}
  RetentionDays = 1
  BatchSize = 2
  BeforeTimes = {4}
  StartTime = 3
  MaxTime = 8
  MaxRecords = 4
  MaxOther = 2
INVARIANTS
  TypeOK
  RowIsFold
  RowTimes
  DailyMatchesCaptures
  CurrentDayHasPartition
PROPERTIES
  StateNeverGoesBack
  
CHECK_DEADLOCK FALSE
