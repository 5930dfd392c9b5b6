CONSTANTS
  Lines <- AddAndGet
  BufferSize = 5
  Stale <- Clean
  MaxSent = 2

SPECIFICATION Spec

INVARIANT
  AddedIsFound

CHECK_DEADLOCK FALSE
