SPECIFICATION Spec
CONSTANTS
  MaxMessages = 3
  Message = {m1, m2}
  Visit = {v1, v2, v3}
  MaxChanges = 2
INVARIANT RefusedNeverRuns
CHECK_DEADLOCK FALSE
