------------------------------- MODULE MCAuth -------------------------------
(* An instance of Auth for TLC: one administrator and one customer, whose   *)
(* e-mail is typed in two ways.                                            *)
EXTENDS Auth

CONSTANTS root, bob, typed_root, typed_bob, padded_bob

MCRole == [u \in Users |-> IF u = root THEN "admin" ELSE "customer"]
MCAccountOf == [s \in Spellings |-> IF s = typed_root THEN root ELSE bob]
=============================================================================
