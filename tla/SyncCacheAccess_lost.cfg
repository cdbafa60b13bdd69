CONSTANTS
  Thread = {t1, t2}
  NoThread = nobody
SPECIFICATION ThreadsSpec
CHECK_DEADLOCK FALSE
INVARIANTS
  NoLostIncrement
