SPECIFICATION Spec
CONSTANTS
  p1 = p1
  p2 = p2
  Procs <- MCProcs
  NoProc = NoProc
  Cooldown = 2
  MaxClicks = 3
  MaxFaults = 1
  MaxTerminal = 1
INVARIANT TypeOK
INVARIANT NoStrayDaemon
INVARIANT RoleApplied
INVARIANT FingerprintKept
PROPERTY GuiSettles
CHECK_DEADLOCK FALSE
