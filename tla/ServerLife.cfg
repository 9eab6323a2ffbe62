SPECIFICATION FairSpec
CONSTANTS
  resolver = resolver
  backend = backend
  proxy = proxy
  Procs = {resolver, backend, proxy}
  ReadOnly = {proxy}
  Known <- MCKnown
  Resolver = resolver
  MaxFaults = 1
INVARIANTS MigratedOnceInOrder TLSListenersClosed
PROPERTIES AllComeUp
CHECK_DEADLOCK FALSE
