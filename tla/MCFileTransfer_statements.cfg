\* Statements the code does not keep, one to a line. TLC stops at the first it
\* finds violated: keep the line of the one whose counterexample is wanted, and
\* give the constants the values that the comment above it names.
CONSTANTS
  None = None
  Senders <- OneSender
  Names <- OneName
  Rejected = {}
  Contents <- LongContent
  Selections <- Singles
  ChunkSize = 2
  MaxTransfers = 1
  MaxEdits = 0
  MaxBreaks = 0
SPECIFICATION FairSpec
CHECK_DEADLOCK FALSE
PROPERTY EveryFileArrives
\* MaxTransfers = 2
INVARIANT VerifiedOnDisk
\* Contents <- Pair, MaxEdits = 1
INVARIANT CompleteIsVerified
\* Senders <- TwoSenders, Names <- TwoNames, Selections <- OneEach
INVARIANT OffsetsOnDisk
