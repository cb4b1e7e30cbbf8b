CONSTANTS
  None = None
  Versions <- MCVersions
  Sizes <- MCSizes
  MaxPayload = 2
  MaxSends = 2
SPECIFICATION FairSpec
CHECK_DEADLOCK FALSE
INVARIANT TypeOK
INVARIANT FramesInOrder
INVARIANT SessionsAgree
PROPERTY EndsTogether
