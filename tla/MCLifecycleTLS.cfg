SPECIFICATION FairSpec
CONSTANTS
  Workers <- WithTLS
  Requests = {}
PROPERTY
  AllWorkersShutDown
CHECK_DEADLOCK FALSE
