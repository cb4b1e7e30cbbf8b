SPECIFICATION Spec
CONSTANTS
  Keys <- MCKeys
  EvdevKey <- MCEvdevKey
  ClientPlatform = "windows"
  MaxStrokes = 5
  MaxQueue = 1
  MaxEvents = 2
INVARIANT TypeOK
INVARIANT FollowsKeyboard
INVARIANT ModifiersReleased
INVARIANT NoPhantomModifier
CHECK_DEADLOCK FALSE
