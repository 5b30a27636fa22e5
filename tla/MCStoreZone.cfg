SPECIFICATION Spec
CONSTANTS
  Calls = {c1}
  NoCall = NoCall
  Agents = {a1}
  Shapes <- OneMessage
  Skews <- OnTime
  BadRecords = {FALSE}
  DayLength = 2
  Zone <- East
  FailingDays = {}
  RetentionDays = 1
  BatchSize = 2
  BeforeTimes = {}
  StartTime = 3
  MaxTime = 4
  MaxRecords = 2
INVARIANT
  TodaysMessagesHavePartition
CHECK_DEADLOCK FALSE
