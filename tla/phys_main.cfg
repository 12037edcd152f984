SPECIFICATION Spec
CONSTANTS
  PMB_COUNT = 7
  PMB_MAX_ORDER = 3
  BYTE = 4
  INT = 8
  WORD = 4
  PAGE_BITS = 16
  UINT_PAGES = 5
  MemMap <- MapMain
  MemFree <- FreeMain
  EarlyPages <- Mapping
  InitramFrame = 100
  InitramPages = 2
  MaxRun = 2
INVARIANTS
  TypeOK
  PoolPartition
  FreeCount
  Summary
  ExhaustedOnly
  EarlySuffices
