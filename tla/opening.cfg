SPECIFICATION FairSpec
CONSTANTS
  alice = alice
  bob = bob
  carol = carol
  p = p
  q = q
  Users = {alice, bob}
  Passwords = {p, q}
  MaxAuctions = 2
  MaxShown = 2
  MaxTime = 0
  None = None
  Blank = Blank
  Workers = {w1, w2}
  UdpThread = udp
  MaxValue = 3
  Requests <- OpenMix
  FsErrors = FALSE
  Restarts = FALSE
INVARIANTS
  AuctionsComplete
  AssetsSentWhole
PROPERTIES
  HostedKept
  MutexReleased
  SessionsKept
