\* Two racing queries and two connections of one tenant, with evictions.
SPECIFICATION Spec
CONSTANTS
  Routes = {r1}
  Queries = {q1, q2}
  Conns = {c1, c2}
  Cost = 2
  Burst = 3
  MaxConns = 1
  IdleTTL = 5
  MaxStall = 1
  MaxClock = 6
  None = None
SYMMETRY Symmetry
INVARIANTS TypeOK WindowBound PacedNeverRefused ConnCap ConnsCounted
CHECK_DEADLOCK FALSE
