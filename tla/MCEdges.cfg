SPECIFICATION EdgesSpec
CONSTANTS
  Handlers = {h1, h2}
  Names = {"admin", "ann"}
  Passwords = {p, q}
  Clients = {c1}
  Limit = 1
  Window = 1
  MaxTime = 1
  MaxChanges = 3
  FileHandlers = {g1, g2}
  AgentNodes = {"n1", "n2"}
  Texts = {"a", "b"}
  MaxFileRequests = 4
  MaxStored = 4
  MaxLines = 5
  MaxChunks = 3
  CSeqMethod <- CSeqs
  NumberLimit = 1
  ErrorCodeLimit = 1
  RecentLimit = 3
  CodeLimit = 2
  Users = {u1, u2}
  Tools = {t1}
  WebHost = WebHost
  RateLimit = 2
  TicksPerSecond = 2
  TokenLife = 1
  LastTick = 4
  MaxRequests = 3
SYMMETRY Symmetry
INVARIANTS
  UsersDistinct
  ChangesAreKept
  SavedFilesAreKept
  CallReportsAgree
  MessageReportsAgree
  RedactionKeepsMeaning
  EchoAnswersRequest
  RecordClassifies
  DecodeAgrees
  WindowBound
  LightClientsServed
  StaleRightsBounded
CHECK_DEADLOCK FALSE
