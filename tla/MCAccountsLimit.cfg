SPECIFICATION Spec
CONSTANTS
  Handlers = {h1, h2}
  Names = {"admin"}
  Passwords = {p}
  Clients = {c1}
  Limit = 5
  Window = 60
  MaxTime = 0
  MaxChanges = 0
INVARIANTS
  FailuresWithinLimit
CHECK_DEADLOCK FALSE
