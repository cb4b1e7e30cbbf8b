CONSTANTS
  None = None
  Screens <- MCScreens
  Modifiers <- MCModifiers
  Width = 5
  Height = 5
  Neighbour <- MCNeighbour
  Keys <- MCKeys
  Buttons = {}
  ModifierOf <- MCModifierOf
  LeftKey <- MCLeftKey
  Escape = "Escape"
  EmergencyChord <- MCModifiers
  Points <- MCPoints
  Conns <- MCConn2
  Peers <- MCPeer2
  PeerOf <- Own
  RawCap = 1
  SinkCap = 1
  OutCap = 1
  MaxInputs = 5
  AutoScreen = 1
SPECIFICATION Spec
CHECK_DEADLOCK FALSE
INVARIANT TypeOK
INVARIANT CaptureFollowsRoute
INVARIANT NoInputOutsideFocus
INVARIANT ReleasedWhenLeft
INVARIANT AutoPeerFollowsTable
PROPERTY HandoverRefinement
