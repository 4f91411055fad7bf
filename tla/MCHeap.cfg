SPECIFICATION FairSpec
CONSTANTS
  Total = 5
  BlockSize = 2
  Sizes <- MCSizes
INVARIANTS
  NoOverlap
  ChainAgrees
  NoLostBlock
  FirstFit
PROPERTIES
  OneBlockRequests
  ImplementsAllocator
  CallsReturn
