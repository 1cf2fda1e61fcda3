SPECIFICATION FairSpec
CONSTANTS
  Assets <- Files
  Block = 2
  Capacity = 6
  ShortWrites = TRUE
  None = None
INVARIANTS
  TypeOK
  ToldTruth
  AssetIntact
  Compatible
PROPERTIES
  BothFinish
CHECK_DEADLOCK FALSE
