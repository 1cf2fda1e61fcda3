SPECIFICATION SeededCrashSpec
CONSTANTS
  alice = alice
  bob = bob
  carol = carol
  p = p
  q = q
  Users = {alice, bob}
  Passwords = {p}
  MaxAuctions = 3
  MaxShown = 2
  MaxTime = 0
  None = None
  Blank = Blank
  Workers = {w1}
  UdpThread = udp
  MaxValue = 3
  Requests <- CrashMix
  FsErrors = FALSE
  Restarts = TRUE
INVARIANTS
  HostedComplete
  BidsLawful
  NumberedWithoutGap
PROPERTIES
  HostedKept
  GhostsStay
