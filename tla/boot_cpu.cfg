SPECIFICATION Spec
CONSTANTS
  Vectors = {19, 21}
  Values = {v1, v2}
  A20Start = {TRUE, FALSE}
  MaxCalls = 2
INVARIANTS
  ModeSane
  CallsBalanced
  RightPartition
PROPERTIES
  RegistersKept
