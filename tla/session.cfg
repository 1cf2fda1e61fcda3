SPECIFICATION SessionSpec
CONSTANTS
  c1 = c1
  c2 = c2
  c3 = c3
  alice = alice
  bob = bob
  p = p
  q = q
  Clients = {c1, c2, c3}
  Users = {alice, bob}
  Passwords = {p, q}
  None = None
  MaxFlight = 2
  Queries <- Asked
INVARIANTS
  TypeOK
  InStep
  SessionsAgree
  AnswersUnderstood
PROPERTIES
  PromptReturns
CHECK_DEADLOCK FALSE
