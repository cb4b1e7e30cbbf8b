CONSTANTS
  None = None
  Handlers <- TwoHandlers
  Clients <- OneClient
  MaxRuns = 2
  RawCap = 1
  SessionCap = 1
SPECIFICATION FairSpec
CHECK_DEADLOCK FALSE
INVARIANT TypeOK
INVARIANT RecordedServerRuns
INVARIANT StatusListsSession
PROPERTY StopEndsRun
