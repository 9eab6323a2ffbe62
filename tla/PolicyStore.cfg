\* Every write path once, an admin goroutine and the ticker reloading over
\* each other, a failing reload and a restart: safety and convergence.
SPECIFICATION FairSpec
CONSTANTS
  Routes = {r1}
  Scopes = {r1, Global}
  IPs = {i1}
  Domains = {d1}
  Answers = {a1}
  Times <- MCTimes
  Watcher = Watcher
  AdminThreads = {h1}
  None = None
  Listed = Listed
  MaxCommits = 1
  MaxErrors = 1
  MaxRestarts = 1
INVARIANTS SnapshotCurrent WithinOneTick
PROPERTIES NoResurrection Convergence
CHECK_DEADLOCK FALSE
