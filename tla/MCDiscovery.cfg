CONSTANTS
  Registers <- MCRegisters
  HasEntity = {0, 1}
  Unsupported = {1, 2}
  Batches <- MCBatches
  Mapped <- MCMapped
  MaxDepth = 2
  MaxTrouble = 3
SPECIFICATION FairSpec
INVARIANTS
  TypeOK
  OnlyUnsupportedFail
  BatchesCurrent
  CleanRefreshComplete
PROPERTY
  EventuallyKnown
