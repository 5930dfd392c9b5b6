CONSTANTS
  Keys = {k1, k2, k3}
  Values = {v1, v2, v3, v4}
  NumBuckets = 3
  Null = null

SPECIFICATION Spec
SYMMETRY Symmetry

INVARIANTS
  TypeOK
  CountsWhatItOwns
  IterVisitsAll
PROPERTIES
  SetKeepsOldest
  IsKeyQueues
