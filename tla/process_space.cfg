SPECIFICATION FairSpec
CONSTANTS
  F = 6
  Pool = {0, 1, 2, 3, 4, 5, 6, 7, 8, 9, 10, 11, 12, 13, 14, 15, 16, 17, 18, 19}
  Root <- MCRoot
  BootTables <- MCTables
  BootLevels <- MCLevels
  BootFree = {0, 1, 2, 3, 4, 5, 6, 7, 8, 9, 10, 11, 12, 13, 14, 15, 16, 17, 18, 19}
  HasNx = TRUE
  Sections <- MCSections
  Initram <- MCInitram
  VideoPages = 2
  AnonRanges <- NoRanges
  IoSizes = {}
  IO_BASE <- IoAddress
  IoFrame = 200
  PAGE = 2
  Programs <- NeatOnly
  Stack <- MCStack
  MaxProcs = 1
  MaxCalls = 0
INVARIANTS
  OwnAddressSpace
