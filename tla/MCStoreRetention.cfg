SPECIFICATION Spec
CONSTANTS
  Calls = {c1}
  NoCall = NoCall
  Agents = {a1}
  Shapes <- OneMessage
  Skews <- OnTime
  BadRecords = {FALSE}
  DayLength = 2
  Zone <- West
  FailingDays = {}
  RetentionDays = 1
  BatchSize = 2
  BeforeTimes = {}
  StartTime = 3
  MaxTime = 8
  MaxRecords = 2
INVARIANT
  OldCapturesAreDropped
CHECK_DEADLOCK FALSE
