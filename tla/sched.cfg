SPECIFICATION FairSpec
CONSTANTS
  MaxProcs = 3
  ArrayCap = 2
  NoProc = NoProc
INVARIANTS
  OnePlace
  ContextIntact
  NoTripleFault
PROPERTIES
  NoStarvation
  RefinesRunQueue
