SPECIFICATION Spec
CONSTANTS
  Keys <- MCKeys
  EvdevKey <- MCEvdevKey
  ClientPlatform = "linux"
  MaxStrokes = 5
  MaxQueue = 1
  MaxEvents = 1
INVARIANT FollowsKeyboard
CHECK_DEADLOCK FALSE
