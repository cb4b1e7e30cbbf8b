\* Statements the code does not keep, one to a line. TLC stops at the first it
\* finds violated: keep the line of the one whose counterexample is wanted.
SPECIFICATION Spec
CONSTANTS
  p1 = p1
  p2 = p2
  Procs <- MCProcs
  NoProc = NoProc
  Cooldown = 2
  MaxClicks = 3
  MaxFaults = 1
  MaxTerminal = 1
CHECK_DEADLOCK FALSE
INVARIANT PairUsable
INVARIANT OneFingerprint
PROPERTY ChildReachable
PROPERTY InstalledIsFound
