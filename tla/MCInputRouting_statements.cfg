\* Statements the code does not keep, one to a line. TLC stops at the first it
\* finds violated: keep the line of the one whose counterexample is wanted, and
\* give the constants the values that the comment above it names.
CONSTANTS
  None = None
  Screens <- MCScreens
  Modifiers <- MCModifiers
  Width = 5
  Height = 5
  Neighbour <- MCNeighbour
  Keys <- MCKeys
  Buttons = {}
  ModifierOf <- MCModifierOf
  LeftKey <- MCLeftKey
  Escape = "Escape"
  EmergencyChord <- MCModifiers
  Points <- MCPoints
  Conns <- MCConn1
  Peers <- MCPeer1
  PeerOf <- One
  RawCap = 1
  SinkCap = 1
  OutCap = 1
  MaxInputs = 2
  AutoScreen = 1
SPECIFICATION Spec
CHECK_DEADLOCK FALSE
INVARIANT NoRouteIntoVoid
\* Conns <- MCConn2, PeerOf <- Same, MaxInputs = 1
INVARIANT ReconnectResumes
\* Points <- EdgeOnly, RawCap = 5, SinkCap = 5, OutCap = 5, MaxInputs = 5
INVARIANT NoStuckModifiers
\* Neighbour <- MCRightOnly, Points <- LeftEdge
PROPERTY AutoPeerOnlyWithoutLayout
\* Neighbour <- MCRightOnly
INVARIANT NoInputOutsideFocus
