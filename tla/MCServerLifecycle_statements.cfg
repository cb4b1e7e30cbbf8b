\* Statements the code does not keep, one to a line. TLC stops at the first it
\* finds violated: keep the line of the one whose counterexample is wanted.
CONSTANTS
  None = None
  Handlers <- OneHandler
  Clients <- OneClient
  MaxRuns = 1
  RawCap = 1
  SessionCap = 1
SPECIFICATION Spec
CHECK_DEADLOCK FALSE
INVARIANT IdleListsNoPeer
INVARIANT StopFreesInput
