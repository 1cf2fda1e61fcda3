SPECIFICATION SeededSpec
CONSTANTS
  alice = alice
  bob = bob
  carol = carol
  p = p
  q = q
  Users = {alice, bob, carol}
  Passwords = {p}
  MaxAuctions = 1
  MaxShown = 2
  MaxTime = 0
  None = None
  Blank = Blank
  Workers = {w1, w2}
  UdpThread = udp
  MaxValue = 3
  Requests <- BidMix
  FsErrors = FALSE
  Restarts = FALSE
PROPERTIES
  AcceptedIsHighest
