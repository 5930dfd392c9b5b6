CONSTANTS
  Values = {v1, v2, v3, v4, v5}
  Cells = {e1, e2, e3, e4, e5}
  Null = null
  Junk = junk
  InitialCapacity = 1

SPECIFICATION Spec
SYMMETRY Symmetry

INVARIANTS
  TypeOK
  WalksAgree
  GetIsIndexed
  NothingLeaks
PROPERTY
  IsSequence
