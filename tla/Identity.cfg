SPECIFICATION IdentityFairSpec
CONSTANTS
  home = home
  visitor = visitor
  i1 = i1
  Routes = {home, visitor}
  IPs = {i1}
  Home <- MCHome
  None = None
  Debounce = 2
  SeenLimit = 1
  MaxVisits = 1
  MaxMoves = 1
  MaxFailures = 1
  Nonces = {n1}
  Senders = {home, visitor}
  Nothing = Nothing
  ProbeTTL = 1
  ProbeLimit = 0
  MaxPolls = 2
INVARIANTS BoundForAReason ToldOncePerArrival
PROPERTY ReboundEventually
CHECK_DEADLOCK FALSE
