------------------------------ MODULE MCResolve ------------------------------
(* An instance of Resolve for TLC: one tenant r1, one address, a name "sub" *)
(* under "top", and two families of snapshots.                             *)
EXTENDS Resolve, TLC

CONSTANTS r1, i1, sub, top, a1, a2

MCSuffixes == [n \in {sub, top} |-> IF n = sub THEN <<sub, top>> ELSE <<top>>]

Row(active, expires, paused) ==
  [active |-> active, expires |-> expires, blockAds |-> TRUE, paused |-> paused]

NoRule == [x \in Scopes \X Names |-> None]
Snap(t, i2r, al, ov) ==
  [tenants |-> [r \in Routes |-> t], byIP |-> [i \in IPs |-> i2r], allow |-> al, over |-> ov]

\* The tenant comes, goes, pauses and expires, and its address comes and goes.
Attributed ==
  {Snap(t, None, {}, NoRule) : t \in {None, Row(TRUE, 2, 0), Row(TRUE, 2, 1)}}
    \cup {Snap(t, r1, {}, NoRule) : t \in {Row(TRUE, 2, 0), Row(TRUE, 1, 0), Row(FALSE, 2, 0)}}

\* One active tenant, paused until second 1, and rules of its own or of all
\* tenants, for the name or its parent, one over the other.
Ruled2(x, y) == [NoRule EXCEPT ![<<r1, x>>] = a1, ![<<Global, y>>] = a2]
Rules == {Ruled2(top, top), Ruled2(top, sub)}
Ruleful ==
  {Snap(Row(TRUE, 2, 1), None, {}, ov) : ov \in Rules}
    \cup {Snap(Row(TRUE, 2, 1), None, {<<s, top>>}, Ruled2(sub, top)) : s \in Scopes}

Published == Attributed \cup Ruleful

MCLists == {{}, {top}}
MCRoutes == {r1}
MCIPs == {i1}
MCNames == {sub, top}
OnlySub == {sub}
MCAnswers == {a1, a2}

Symmetry == Permutations(Queries)
==============================================================================
