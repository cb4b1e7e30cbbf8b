CONSTANTS
  None = None
  Handlers <- OneHandler
  Clients <- OneClient
  MaxRuns = 2
  RawCap = 1
  SessionCap = 1
SPECIFICATION Spec
CHECK_DEADLOCK FALSE
INVARIANT StartCaptures
