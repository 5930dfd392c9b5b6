CONSTANTS
  Peers = {p1, p2, p3, p4}
  Workers = {w1, w2}
  Fds = {f1, f2, f3}
  Main = main
  Nobody = nobody
  NoPeer = noPeer
  NoClient = noClient

SPECIFICATION Spec
SYMMETRY Symmetry

INVARIANTS
  TypeOK
  NoStrandedClient
  TakeFindsClient
  OneHolder
  NoClientLeak
PROPERTIES
  ClosesOnlyAfterHangUp
  ServesInOrder

CHECK_DEADLOCK FALSE
