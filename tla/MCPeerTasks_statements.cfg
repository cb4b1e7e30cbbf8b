\* Statements the code does not keep, one to a line. TLC stops at the first it
\* finds violated: keep the line of the one whose counterexample is wanted.
SPECIFICATION Spec
CONSTANTS
  OutCap = 1
  InCap = 1
  Window = 1
  Nonces = 1
  MaxCopies <- ServerCopies
  Flooded <- MCFlooded
  Streams <- NoTypes
  TooLong <- TooLongData
CHECK_DEADLOCK FALSE
PROPERTY PingAnswered
PROPERTY ForgottenEnds
