SPECIFICATION FairSpec
CONSTANTS
  Workers <- WithTLS
  Requests = {r1}
INVARIANTS
  CutOnlyWhileDraining
PROPERTY
  ShutdownCompletes
CHECK_DEADLOCK FALSE
