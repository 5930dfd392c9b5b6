CONSTANTS
  Lines <- Typed
  BufferSize = 4
  Stale <- Dirty
  MaxSent = 3

SPECIFICATION FairSpec

INVARIANTS
  TypeOK
  NeverWaitsForNothing
  InStep
PROPERTY
  EveryLineIsAnswered

CHECK_DEADLOCK FALSE
