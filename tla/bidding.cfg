SPECIFICATION SeededSpec
CONSTANTS
  alice = alice
  bob = bob
  carol = carol
  p = p
  q = q
  Users = {alice, bob, carol}
  Passwords = {p}
  MaxAuctions = 2
  MaxShown = 2
  MaxTime = 1
  None = None
  Blank = Blank
  Workers = {w1, w2}
  UdpThread = udp
  MaxValue = 3
  Requests <- BidMix
  FsErrors = FALSE
  Restarts = TRUE
SYMMETRY ThreadSymmetry
INVARIANTS
  HostedComplete

  BidsLawful

  BidsIndexed
PROPERTIES
  HostedKept
