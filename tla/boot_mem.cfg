SPECIFICATION Spec
CONSTANTS
  PAGE = 2
  F = 4
  WRAP = 128
  LOMEM = 8
  LOPAGE = 1
  MAX_MEM_REGIONS = 7
  SCAN = 3
  IDENT = 2
  E820 <- Maps
  Images <- Loads
INVARIANTS
  Tracked
  IdentityMap
  LoadedIntact
  BootSuffices
