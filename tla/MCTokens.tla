------------------------------ MODULE MCTokens -------------------------------
(* Two administrators and a customer, a session each; every one may issue   *)
(* tokens; two requests at a time.  The administrators, each with their     *)
(* session, are interchangeable, and so are tokens and requests.            *)
EXTENDS Tokens, TLC

CONSTANTS a1, a2, v, s1, s2, sv, tenants, system

MCUserOf     == s1 :> a1 @@ s2 :> a2 @@ sv :> v
MCRoleScopes == a1 :> {system} @@ a2 :> {system} @@ v :> {tenants}

Same    == [x \in {a1, a2, s1, s2} |-> x]
Swapped == a1 :> a2 @@ a2 :> a1 @@ s1 :> s2 @@ s2 :> s1
Symmetry == {p @@ t @@ r : p \in {Same, Swapped}, t \in Permutations(Tokens),
                           r \in Permutations(Requests)}
==============================================================================
