SPECIFICATION SeededAuditSpec
CONSTANTS
  alice = alice
  bob = bob
  carol = carol
  p = p
  q = q
  Users = {alice, bob}
  Passwords = {p, q}
  MaxAuctions = 2
  MaxShown = 1
  MaxTime = 2
  None = None
  Blank = Blank
  Workers = {w1}
  UdpThread = udp
  MaxValue = 3
  Requests <- AuditMix
  FsErrors = FALSE
  Restarts = FALSE
INVARIANTS
  ActsForTheUser

  ActsInTime
PROPERTIES
  ListsInTime
