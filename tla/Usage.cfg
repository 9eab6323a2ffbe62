\* Two tenants, failing writes, a shutdown or a crash and a second start.
SPECIFICATION FairSpec
CONSTANTS
  Routes = {r1, r2}
  MaxQueries = 2
  MaxErrors <- MCErrors
  MaxStarts = 1
INVARIANTS TypeOK Conserved FinalFlushComplete
PROPERTIES EventuallyStored KeepsLedger
CHECK_DEADLOCK FALSE
