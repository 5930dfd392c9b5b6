CONSTANTS
  Peers = {p1, p2}
  Workers = {w1, w2}
  Fds = {f1, f2}
  Main = main
  Nobody = nobody
  NoPeer = noPeer
  NoClient = noClient

SPECIFICATION FairSpec

PROPERTIES
  QueuedIsServed
  ServedIsAnswered

CHECK_DEADLOCK FALSE
