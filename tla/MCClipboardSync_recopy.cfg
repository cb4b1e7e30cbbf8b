CONSTANTS
  None = None
  Machines <- Both
  Contents <- TwoTexts
  Format <- MCFormat
  Loops <- FirstRun
  Copiers <- Both
  Patient = TRUE
  Recopying = TRUE
  OutCap = 3
  MaxCopies = 3
  MaxDrops = 0
SPECIFICATION FairSpec
CHECK_DEADLOCK FALSE
PROPERTY EveryCopyArrives
