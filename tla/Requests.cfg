SPECIFICATION RequestsSpec
CONSTANTS
  Client = {r1, r2, task}
  Request = {r1, r2}
  None = None
  Backend <- MCBackend
  Servers = 3
  Shard <- MCShard
  Call <- MCCall
  Url = {"a", "b"}
  Options <- MCOptions
  Start = 10
  MaxTime = 11
  MaxCalls = 1
  MaxData = 1
  Code <- MCCode
  Endpoints <- MCEndpoints
  Received <- MCReceived
  Tables <- MCTables
  Asked <- MCAsked
  Versions = {"None", "1"}
  Models <- MCModels
  Overrides <- MCOverrides
  Returned <- MCReturned
  Injected <- MCInjected
  Policies <- MCPolicies
  Users <- MCUsers
  Apps <- MCApps
  Documented <- MCDocumented
  Settings <- MCSettings
  Word <- MCWord
  Algorithm <- MCAlgorithm
  Salt <- MCSalt
INVARIANTS
  OwnResponse FreshResponse ArgumentsBound RouteChosen ResponseSent RightlyAdmitted
  DocumentRight ProviderChosen ControllersServe PasswordsChecked
SYMMETRY RequestSymmetry
CHECK_DEADLOCK FALSE
