SPECIFICATION Spec
CONSTANTS
  Client = {c1, c2, c3}
  Nobody = Nobody
  Key = {k1}
  Number = {0}
  Blob = Blob
  Delta = {1}
  Ttl = {0}
  NoTtl = NoTtl
  ConfiguredTtl = 1
  BuiltinTtl = 3
  MaxTime = 1
  MaxCalls = 1
PROPERTY TtlZeroKeeps
CHECK_DEADLOCK FALSE
