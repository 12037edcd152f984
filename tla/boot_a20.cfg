SPECIFICATION Spec
CONSTANTS
  Vectors = {19, 21}
  Values = {v1, v2}
  A20Start = {FALSE}
  MaxCalls = 2
INVARIANTS
  A20Open
