\* Statements the code does not keep, one to a line. TLC stops at the first it
\* finds violated: keep the line of the one whose counterexample is wanted.
CONSTANTS
  None = None
  Screens <- MCScreens
  Modifiers <- MCModifiers
  Width = 8
  Height = 8
  Neighbour <- MCNeighbour
  AutoScreen = 1
  PeerWidth = 6
  Deltas <- Steps
  SinkCap = 2
  OutCap = 2
  Counting = TRUE
  MaxMoves = 4
SPECIFICATION Spec
CHECK_DEADLOCK FALSE
INVARIANT BorderHidesNoMotion
INVARIANT WarpIsNoMotion
PROPERTY EntersAtEntryPoint
