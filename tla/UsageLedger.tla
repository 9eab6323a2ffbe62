----------------------------- MODULE UsageLedger ------------------------------
(* What usage accounting promises (resolver/usage.go, RecordUsage of        *)
(* resolver/store.go), without its maps, locks and transactions: the        *)
(* database holds the accounts of all tenants as they stood at one moment,  *)
(* and moves on to a later one in a single step.  Only the end of the       *)
(* process loses what was counted since.                                   *)
EXTENDS Naturals

CONSTANTS Routes, Outcomes

VARIABLES
  total,   \* the accounts now
  stored,  \* the accounts the database holds
  cut,     \* the accounts it is about to hold
  second   \* the time; it advances with every query

ledgerVars == <<total, stored, cut, second>>

NoAccounts ==
  [r \in Routes |-> [f \in {"queries", "blocked", "overridden", "throttled", "lastSeen"} |-> 0]]

Init == total = NoAccounts /\ stored = NoAccounts /\ cut = NoAccounts /\ second = 1

\* One query: it is counted, under its outcome as well, and dated.
Entered(d, o) ==
  [f \in DOMAIN d |-> IF f = "lastSeen" THEN second
                      ELSE IF f \in {"queries", o} THEN d[f] + 1 ELSE d[f]]

Answer(r, o) ==
  /\ total' = [total EXCEPT ![r] = Entered(@, o)]
  /\ second' = second + 1
  /\ UNCHANGED <<stored, cut>>

\* A flush begins: of the accounts as they stand.
Begin == cut = stored /\ cut' = total /\ UNCHANGED <<total, stored, second>>

\* It ends, for all tenants at once, ...
Save == stored' = cut /\ UNCHANGED <<total, cut, second>>

\* ... or nothing of it is kept.
Abandon == cut' = stored /\ UNCHANGED <<total, stored, second>>

\* The process ends: what was not stored is gone.
Lose == total' = stored /\ cut' = stored /\ UNCHANGED <<stored, second>>

Next ==
  \/ \E r \in Routes, o \in Outcomes : Answer(r, o)
  \/ Begin \/ Save \/ Abandon \/ Lose

Spec == Init /\ [][Next]_ledgerVars
==============================================================================
