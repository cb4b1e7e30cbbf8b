\* Statements the code does not keep, one to a line. TLC stops at the first it
\* finds violated: keep the line of the one whose counterexample is wanted.
CONSTANTS
  None = None
  Servers <- MCServers
  MaxRequests = 3
  CmdCap = 2
  EventCap = 2
  SessionCap = 2
SPECIFICATION FairSpec
CHECK_DEADLOCK FALSE
INVARIANT AtMostOneConnection
PROPERTY ClosedPeersLeave
