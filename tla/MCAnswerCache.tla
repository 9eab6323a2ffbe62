---------------------------- MODULE MCAnswerCache ----------------------------
(* Instances of AnswerCache for TLC.  Lifetimes are 1 (least) and 2        *)
(* (negative, greatest) seconds instead of 5, 30 and 21600.                *)
EXTENDS AnswerCache

CONSTANTS home, web, A, X

Question(n, t, do) == [name |-> n, type |-> t, do |-> do]

\* A private zone and a public one, and a type without a name.
MCQuestions == {Question(home, A, FALSE), Question(web, A, FALSE),
                Question(web, X, FALSE)}
WithDO == {Question(web, A, do) : do \in BOOLEAN}

Message(answer, auth, tc) == [answer |-> answer, auth |-> auth, tc |-> tc]
RR(ttl, private) == [ttl |-> ttl, private |-> private]

\* An answer that is private in part, one that has a short TTL or, filtered,
\* is negative, and a truncated one.
MCMessages == {Message({RR(5, FALSE), RR(5, TRUE)}, {}, FALSE),
               Message({RR(2, TRUE)}, {0}, FALSE), Message({RR(2, FALSE)}, {}, TRUE)}

MCExempt == {home}
MCNamedTypes == {A}
==============================================================================
