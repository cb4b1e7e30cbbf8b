CONSTANTS
  None = None
  Screens <- MCScreens
  Modifiers <- MCModifiers
  Width = 8
  Height = 8
  Neighbour <- MCNeighbour
  AutoScreen = 1
  PeerWidth = 6
  Deltas <- OneStep
  SinkCap = 1
  OutCap = 1
  Counting = FALSE
  MaxMoves = 1
SPECIFICATION PushingSpec
CHECK_DEADLOCK FALSE
PROPERTY ReturnsByMouse
