SPECIFICATION FairSpec
CONSTANTS
  SECTOR_SIZE = 2
  sectors_per_cluster = 2
  sector_end = 3
  Sectors = 9
  LastCluster = 4
  FirstCluster = 2
  Sizes <- MCSizes
  MaxRecords = 3
INVARIANTS
  BufferIsEnough
  ReadIsExact
PROPERTIES
  ReadAdvances
  FailsOnlyPastEnd
  FreadReturns
