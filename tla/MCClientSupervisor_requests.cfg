CONSTANTS
  None = None
  Servers <- MCServers
  MaxRequests = 4
  CmdCap = 2
  EventCap = 1
  SessionCap = 1
SPECIFICATION FairSpec
CHECK_DEADLOCK FALSE
INVARIANT TypeOK
INVARIANT ListedUnlessOrphaned
INVARIANT TablesAgree
PROPERTY DialReplacesDial
