---------------------------- MODULE MCTenantAdmin ----------------------------
(* Instances of TenantAdmin for TLC.                                       *)
EXTENDS TenantAdmin, TLC

\* Days the resolver's API may be asked for: some, none, fewer.
AnyDays == {-1, 0, 1}
Symmetry == Permutations(Resellers) \cup Permutations(Customers) \cup Permutations(Requests)
==============================================================================
