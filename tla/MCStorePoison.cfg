SPECIFICATION Spec
CONSTANTS
  Calls = {c1}
  NoCall = NoCall
  Agents = {a1}
  Shapes <- OneMessage
  Skews <- OnTime
  BadRecords = {TRUE, FALSE}
  DayLength = 2
  Zone <- West
  FailingDays = {}
  RetentionDays = 1
  BatchSize = 2
  BeforeTimes = {}
  StartTime = 3
  MaxTime = 4
  MaxRecords = 2
PROPERTY
  SkipsOnlyBadRecords
CHECK_DEADLOCK FALSE
