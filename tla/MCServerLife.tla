----------------------------- MODULE MCServerLife -----------------------------
(* The resolver with two migrations of its own, a process linked with the   *)
(* backend that knows a third, and the proxy.                              *)
EXTENDS ServerLife, TLC

CONSTANTS resolver, backend, proxy

MCKnown == resolver :> {1, 2} @@ backend :> {1, 2, 3} @@ proxy :> {}
==============================================================================
