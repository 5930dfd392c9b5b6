CONSTANTS
  Peers = {p1}
  Workers = {w1}
  Fds = {f1}
  Main = main
  Nobody = nobody
  NoPeer = noPeer
  NoClient = noClient

SPECIFICATION Spec

INVARIANT FreesExistingClient

CHECK_DEADLOCK FALSE
