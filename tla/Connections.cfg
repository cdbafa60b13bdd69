SPECIFICATION Spec
CONSTANTS
  MaxMessages = 3
  Message = {m1, m2}
  Visit = {v1, v2, v3}
  MaxChanges = 2
INVARIANTS DisconnectOnce ToldWhy SequentialSession
PROPERTIES LeavingEnds EventsEnd
CHECK_DEADLOCK FALSE
