CONSTANTS
  Workers = {w1, w2}
  Commands = {"add", "get", "remove", "start", "end"}
  Keys = {k1, k2}
  Stored = {}
  Users = {u1, u2}
  Docs = {d1, d2, d3}
  Cells = {c1, c2, c3}
  Lists = {l1, l2}
  Null = null
  Nobody = nobody
  NoUser = nouser
  UInt = 16
  MaxSessions = 2

SPECIFICATION Spec
SYMMETRY Symmetry
CONSTRAINT Followed

INVARIANTS
  TypeOK
  NeverStops
  MutexHeldByEditor
PROPERTY
  IsSerial
CHECK_DEADLOCK FALSE
