CONSTANTS
  None = None
  Machines <- Both
  Contents <- OneText
  Format <- MCFormat
  Loops <- SecondRun
  Copiers <- ServerOnly
  Patient = TRUE
  Recopying = TRUE
  OutCap = 3
  MaxCopies = 1
  MaxDrops = 0
SPECIFICATION FairSpec
CHECK_DEADLOCK FALSE
PROPERTY EveryCopyArrives
