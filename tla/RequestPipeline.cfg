CONSTANTS
  NMiddleware = 2
  NGuards = 2
  NInterceptors = 2
SPECIFICATION Spec
CHECK_DEADLOCK FALSE
INVARIANTS
  TypeOK
  OneStart
  GuardsDecide
  Answered
  CutOffReported
PROPERTIES
  KeepsContract
