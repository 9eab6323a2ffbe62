---------------------------- MODULE MCPolicyStore ----------------------------
(* The instance of PolicyStore for TLC: one row of each table, so that the  *)
(* writes of one process and the reloads of another meet on every row.      *)
EXTENDS PolicyStore

\* Expiries and pauses: past and ahead of a renewal.
MCTimes == {0, 1}
==============================================================================
