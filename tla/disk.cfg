SPECIFICATION Spec
CONSTANTS
  MAX_FILES = 3
  NAMES = 10
  Host <- MCHost
  RDFILE <- MCRdFile
  Wanted <- Sought_
  PAGE = 12
  BITMAP_SIZE = 6
  DIRECT = 1
  IDATA = 2
  ENTRY = 5
  METADATA = 1
  RESERVED = 2
  PAGES = 22
  SECTOR = 3
  TRACK = 4
  Builds <- MCBuilds
INVARIANTS
  PagesOnce
  TreeExact
  ReadBack
  FailsForCause
  FoundExact
