SPECIFICATION FairSpec
CONSTANTS
  HDR = 1
  PAGESIZE = 4
  F = 3
  Sizes = {0, 3, 4, 8}
  MaxHeap = 20
INVARIANTS
  IInv
  BlocksBacked
PROPERTIES
  BestFit
  CallsReturn
  RefinesArena
