CONSTANTS
  Threads = {t1, t2}
  Blocks = {b1, b2, b3}
  Sizes = {1, 2}
  Limits = {0, 3}
  Null = null
  Word = 9

SPECIFICATION Spec

INVARIANT ReportsUsage

CHECK_DEADLOCK FALSE
