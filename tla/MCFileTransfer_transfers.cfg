CONSTANTS
  None = None
  Senders <- OneSender
  Names <- ThreeNames
  Rejected <- Bad
  Contents <- SomeContent
  Selections <- Several
  ChunkSize = 2
  MaxTransfers = 2
  MaxEdits = 1
  MaxBreaks = 1
SPECIFICATION FairSpec
CHECK_DEADLOCK FALSE
INVARIANT TypeOK
INVARIANT OffsetsOnDisk
PROPERTY TransferSettles
