SPECIFICATION FairSpec
CONSTANTS
  PoolSize = 2
  Handlers = {h1}
  MaxAgents = 2
  Watched = {"nodes"}
INVARIANTS
  NoConnLeaked
PROPERTIES
  WarmPoolNeverStuck
  ServedUnlessStuck
  CacheHeals
CHECK_DEADLOCK FALSE
