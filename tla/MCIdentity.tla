------------------------------ MODULE MCIdentity ------------------------------
(* One address, the tenant at home there and a visitor; two nonces.        *)
EXTENDS Identity, TLC

CONSTANTS home, visitor, i1

MCHome == [i \in {i1} |-> home]
==============================================================================
