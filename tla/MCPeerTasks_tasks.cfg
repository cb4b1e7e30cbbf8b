SPECIFICATION Spec
CONSTANTS
  OutCap = 1
  InCap = 1
  Window = 1
  Nonces = 1
  MaxCopies <- ClientCopies
  Flooded <- MCFlooded
  Streams <- MCStreams
  TooLong <- NoTypes
INVARIANT TypeOK
PROPERTY TasksEnd
PROPERTY PingAnswered
CHECK_DEADLOCK FALSE
