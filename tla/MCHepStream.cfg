SPECIFICATION FairSpec
CONSTANTS
  Kinds = {"tcp", "tls"}
  Magic = 4
  Lengths = {1, 2, 3}
  StreamLen = 6
  MaxRead = 2
  CapLen = 5
INVARIANTS
  ChunkingDoesNotMatter
  LeftoverIsShort
  OrderlyCloseLosesNothing
PROPERTY
  ArrivedFramesAreHandled
CHECK_DEADLOCK FALSE
