SPECIFICATION Spec
CONSTANTS
  resolver = resolver
  backend = backend
  proxy = proxy
  Procs = {resolver, backend, proxy}
  ReadOnly = {proxy}
  Known <- MCKnown
  Resolver = resolver
  MaxFaults = 1
INVARIANT ReadyWhenServing
CHECK_DEADLOCK FALSE
