CONSTANTS
  None = None
  Machines <- Both
  Contents <- TextImage
  Format <- MCFormat
  Loops <- FirstRun
  Copiers <- Both
  Patient = FALSE
  Recopying = TRUE
  OutCap = 2
  MaxCopies = 3
  MaxDrops = 1
SPECIFICATION FairSpec
CHECK_DEADLOCK FALSE
INVARIANT TypeOK
INVARIANT NoEcho
PROPERTY CopiesArrive
