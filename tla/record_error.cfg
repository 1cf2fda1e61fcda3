SPECIFICATION SeededSpec
CONSTANTS
  alice = alice
  bob = bob
  carol = carol
  p = p
  q = q
  Users = {alice, bob}
  Passwords = {p}
  MaxAuctions = 2
  MaxShown = 2
  MaxTime = 0
  None = None
  Blank = Blank
  Workers = {w1}
  UdpThread = udp
  MaxValue = 3
  Requests <- RecordMix
  FsErrors = TRUE
  Restarts = FALSE
INVARIANTS
  Survives
