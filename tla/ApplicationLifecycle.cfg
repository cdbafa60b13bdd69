CONSTANTS
  root = root
  plugin = plugin
  docs = docs
  extra = extra
  Module <- MCModule
  Tree <- MCTree
  Setup <- MCSetup
  Declares <- MCDeclares
  Offered <- MCOffered
  Key = {400, 404, 500}
  Error500 = 500
  DefaultKey = {400}
  Default = Default
  None = None
  HasStartup = {root, docs, extra}
  HasShutdown = {root, docs, extra}
  MaxInstalls = 2
SPECIFICATION Spec
CHECK_DEADLOCK FALSE
INVARIANTS
  StackCurrent
  RoutesComplete
  ServesStarted
  InitialisedFirst
  StopsStarted
PROPERTIES
  LifespanEnds
