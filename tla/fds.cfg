SPECIFICATION FdSpec
CONSTANTS
  Clients = {c1, c2, c3, c4}
  Workers = {w1, w2}
  UdpThread = udp
  ThreadPoolSz = 1
  CharMax = 6
  MaxFd = 7
  None = None
SYMMETRY Symmetry
INVARIANTS
  TypeOK
  OwnUnlessHit
  OpenIsUsed
  NumbersFit
PROPERTIES
  OnlyBidHits
