CONSTANTS
  None = None
  Servers <- MCServers
  MaxRequests = 2
  CmdCap = 1
  EventCap = 1
  SessionCap = 1
SPECIFICATION FairSpec
CHECK_DEADLOCK FALSE
PROPERTY LostConnectionRedialed
