SPECIFICATION BackendSpec
CONSTANTS
  Client = {c1, c2, c3}
  Nobody = Nobody
  Key = {k1}
  Number = {0}
  Blob = Blob
  Delta <- MCDelta
  Ttl = {0, 1}
  NoTtl = NoTtl
  ConfiguredTtl = 2
  BuiltinTtl = 3
  MaxTime = 1
  MaxCalls = 1
  Thread = {t1, t2, t3}
  NoThread = nobody
INVARIANTS TypeOK TablesAgree LockOK
PROPERTIES NoResurrection KeepsPromise  EveryCallEnds
CHECK_DEADLOCK FALSE
