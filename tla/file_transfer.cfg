SPECIFICATION FairSpec
CONSTANTS
  ChunkSize = 4
  IntLimit = 10
  Sizes <- MCSizes
INVARIANTS
  SentMeansCovered
  WireLength
PROPERTIES
  HealthyTransferFinishes
  ContractStep
CHECK_DEADLOCK FALSE
