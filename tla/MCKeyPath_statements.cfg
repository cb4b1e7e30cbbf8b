\* Statements the code does not keep, one to a line. TLC stops at the first it
\* finds violated: keep the line of the one whose counterexample is wanted.
SPECIFICATION Spec
CONSTANTS
  Keys <- BothShifts
  EvdevKey <- MCEvdevKey
  ClientPlatform = "windows"
  MaxStrokes = 5
  MaxQueue = 1
  MaxEvents = 2
CHECK_DEADLOCK FALSE
INVARIANT HeldModifierShipped
INVARIANT SourceReleased
INVARIANT KeysReleased
INVARIANT LossReleases
INVARIANT ResyncedGoesUp
INVARIANT FollowsEveryKey
