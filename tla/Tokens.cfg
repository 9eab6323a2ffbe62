SPECIFICATION Spec
CONSTANTS
  a1 = a1
  a2 = a2
  v = v
  s1 = s1
  s2 = s2
  sv = sv
  tenants = tenants
  system = system
  Users = {a1, a2, v}
  Admins = {a1, a2}
  Operators = {a1, a2}
  Sessions = {s1, s2, sv}
  UserOf <- MCUserOf
  Tokens = {k1, k2}
  Scopes = {tenants, system}
  RoleScopes <- MCRoleScopes
  Requests = {q1, q2}
  StashTTL = 1
  None = None
  MaxClock = 3
  MaxStarted = 4
  MaxRestarts = 1
SYMMETRY Symmetry
INVARIANTS ShownOnce AdmittedWasLive LockoutNeedsRace
CHECK_DEADLOCK FALSE
