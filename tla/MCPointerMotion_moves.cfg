CONSTANTS
  None = None
  Screens <- MCScreens
  Modifiers <- MCModifiers
  Width = 8
  Height = 8
  Neighbour <- MCNeighbour
  AutoScreen = 1
  PeerWidth = 6
  Deltas <- Steps
  SinkCap = 2
  OutCap = 2
  Counting = TRUE
  MaxMoves = 4
SPECIFICATION Spec
CHECK_DEADLOCK FALSE
INVARIANT TypeOK
INVARIANT MotionTelescopes
