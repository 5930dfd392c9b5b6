CONSTANTS
  Threads = {t1, t2}
  Blocks = {b1, b2, b3}
  Sizes = {1, 2}
  Limits = {0, 3}
  Null = null
  Word = 9

SPECIFICATION Spec
SYMMETRY Symmetry

INVARIANTS
  TypeOK
  UsageIsAccounted
PROPERTY
  LimitHonoured

CHECK_DEADLOCK FALSE
