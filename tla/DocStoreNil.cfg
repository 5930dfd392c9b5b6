CONSTANTS
  Workers = {w1, w2}
  Commands = {"add", "get"}
  Keys = {k1, k2}
  Stored = {k1}
  Users = {u1}
  Docs = {d1, d2}
  Cells = {c1, c2}
  Lists = {l1}
  Null = null
  Nobody = nobody
  NoUser = nouser
  UInt = 16
  MaxSessions = 1

SPECIFICATION Spec

INVARIANT
  StoredIsFound
CHECK_DEADLOCK FALSE
