SPECIFICATION Spec
CONSTANTS
  Connections = {c1, c2, c3, c4, c5}
  Acceptors = {acceptor}
  Pool = {w1, w2, w3}
  ThreadPoolSz = 2
  NoTask = NoTask
INVARIANTS
  TypeOK
  NoSleepers
  HandedOverOnce
PROPERTIES
  ServesInOrder
