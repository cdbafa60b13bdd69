CONSTANTS
  r1 = r1
  r2 = r2
  Request = {r1, r2}
  Task <- MCTask
  config = config
  session = session
  Service <- MCService
  None = None
  Scope <- MCScope
  Needs <- MCNeeds
  Mounts = TRUE
  Overrides = TRUE
  MaxGets = 2
SPECIFICATION Spec
CHECK_DEADLOCK FALSE
INVARIANTS
  OneSingleton
  ContextsApart
  OnePerContext
PROPERTIES
  EveryGetEnds
