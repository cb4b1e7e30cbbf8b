CONSTANTS
  None = None
  Screens <- MCScreens
  Modifiers <- MCModifiers
  Width = 5
  Height = 5
  Neighbour <- MCNeighbour
  Keys <- MCKeys
  Buttons = {}
  ModifierOf <- MCModifierOf
  LeftKey <- MCLeftKey
  Escape = "Escape"
  EmergencyChord <- MCModifiers
  Points <- MCPoints
  Conns <- MCConn2
  Peers <- MCPeer1
  PeerOf <- Same
  RawCap = 1
  SinkCap = 1
  OutCap = 1
  MaxInputs = 4
  AutoScreen = 1
SPECIFICATION FairSpec
CHECK_DEADLOCK FALSE
INVARIANT TableTracksConnections
PROPERTY EmergencyFreesInput
