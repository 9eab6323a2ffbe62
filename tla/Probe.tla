-------------------------------- MODULE Probe ---------------------------------
(* The diagnostic page (resolver/probe.go, portal/check.go).               *)
(*                                                                         *)
(* The page is given a nonce, makes its browser look a name up under that   *)
(* nonce, and asks the portal whether the lookup reached the resolver.  The *)
(* portal asks the resolver's admin API over HTTP, for three seconds: the   *)
(* answer may be lost after Lookup has consumed the entry, and a request    *)
(* given up may still reach Lookup later.                                   *)
EXTENDS Integers, FiniteSets

CONSTANTS
  Nonces,
  Senders,      \* the tenants a lookup may be counted as
  Nothing,      \* no entry, no answer
  ProbeTTL,     \* probeTTL, 2 minutes
  ProbeLimit,   \* entries above which Record sweeps, 1000
  MaxPolls      \* bound: requests for the result of one nonce

ASSUME ProbeAssumption ==
  /\ ProbeTTL \in Nat /\ ProbeLimit \in Nat /\ MaxPolls \in Nat
  /\ Nothing \notin Senders \cup [route: Senders, age: Nat]
                   \cup [route: Senders, age: Nat, taken: BOOLEAN]

VARIABLES
  probe,     \* ProbeRecorder.seen: Nothing or [route, age]
  page,      \* the page and the portal's request for it: [pc, polls, result]
  abandoned, \* a request the portal gave up is still on its way to Lookup
  arrival,   \* history: the last lookup that arrived, [route, age, taken]
  truth      \* history: what the last Lookup should have found

probeVars == <<probe, page, abandoned, arrival, truth>>

Stale == ProbeTTL + 1

ProbeInit ==
  /\ probe = [n \in Nonces |-> Nothing]
  /\ page = [n \in Nonces |-> [pc |-> "closed", polls |-> 0, result |-> Nothing]]
  /\ abandoned = [n \in Nonces |-> FALSE]
  /\ arrival = [n \in Nonces |-> Nothing]
  /\ truth = [n \in Nonces |-> Nothing]

\* A random nonce: each is given out once.
handleCheckStart(n) ==
  /\ page[n].pc = "closed"
  /\ page' = [page EXCEPT ![n].pc = "open"]
  /\ UNCHANGED <<probe, abandoned, arrival, truth>>

\* Above the limit, what nobody may read any more goes.
Pruned == IF Cardinality({n \in Nonces : probe[n] # Nothing}) > ProbeLimit
          THEN [n \in Nonces |-> IF probe[n] # Nothing /\ probe[n].age = Stale
                                 THEN Nothing ELSE probe[n]]
          ELSE probe

\* A lookup for the nonce arrives, from its page or from anyone who knows it.
Record(n, r) ==
  /\ page[n].pc # "closed"
  /\ probe' = [Pruned EXCEPT ![n] = [route |-> r, age |-> 0]]
  /\ arrival' = [arrival EXCEPT ![n] = [route |-> r, age |-> 0, taken |-> FALSE]]
  /\ UNCHANGED <<page, abandoned, truth>>

\* The entry, if it may still be read.
Read(n) == IF probe[n] # Nothing /\ probe[n].age < Stale THEN probe[n].route ELSE Nothing

\* Mutant: reading leaves the entry where it is.
Consumed_Not(n) == probe

\* Reading, and finding it too old, both remove the entry.
Consumed(n) == [probe EXCEPT ![n] = Nothing]

Taken(n) ==
  /\ probe' = Consumed(n)
  /\ arrival' = [arrival EXCEPT ![n] = IF @ = Nothing THEN @ ELSE [@ EXCEPT !.taken = TRUE]]

\* The page asks the portal, the portal the resolver.
handleCheckResult(n) ==
  /\ page[n].pc \in {"open", "told"} /\ page[n].polls < MaxPolls
  /\ page' = [page EXCEPT ![n] = [pc |-> "asking", polls |-> @.polls + 1, result |-> Nothing]]
  /\ UNCHANGED <<probe, abandoned, arrival, truth>>

\* Lookup runs and its answer is on its way.
Lookup(n) ==
  /\ page[n].pc = "asking"
  /\ page' = [page EXCEPT ![n].pc = "answer", ![n].result = Read(n)]
  /\ truth' = [truth EXCEPT ![n] =
       IF arrival[n] # Nothing /\ arrival[n].age < Stale /\ ~arrival[n].taken
       THEN arrival[n].route ELSE Nothing]
  /\ Taken(n)
  /\ UNCHANGED abandoned

\* The page is told: this tenant, or not using the service.
Told(n) ==
  /\ page[n].pc = "answer"
  /\ page' = [page EXCEPT ![n].pc = "told"]
  /\ UNCHANGED <<probe, abandoned, arrival, truth>>

\* "resolver unreachable": the request, or its answer, did not make it in time.
readProbeFails(n) ==
  /\ page[n].pc \in {"asking", "answer"}
  /\ page' = [page EXCEPT ![n].pc = "open", ![n].result = Nothing]
  /\ abandoned' \in {abandoned, [abandoned EXCEPT ![n] = page[n].pc = "asking"]}
  /\ UNCHANGED <<probe, arrival, truth>>

\* What was given up reaches Lookup all the same.
LateLookup(n) ==
  /\ abandoned[n]
  /\ abandoned' = [abandoned EXCEPT ![n] = FALSE]
  /\ Taken(n)
  /\ UNCHANGED <<page, truth>>

Older(e) == IF e = Nothing \/ e.age = Stale THEN e ELSE [e EXCEPT !.age = @ + 1]

ProbeTick ==
  /\ probe' = [n \in Nonces |-> Older(probe[n])]
  /\ arrival' = [n \in Nonces |-> IF arrival[n] = Nothing THEN Nothing ELSE Older(arrival[n])]
  /\ UNCHANGED <<page, abandoned, truth>>

\* The resolver starts anew: what had arrived is forgotten.
ProbeRestart ==
  /\ probe' = [n \in Nonces |-> Nothing]
  /\ arrival' = [n \in Nonces |-> Nothing]
  /\ UNCHANGED <<page, abandoned, truth>>

ProbeStep == \E n \in Nonces :
  \/ handleCheckStart(n) \/ handleCheckResult(n) \/ Lookup(n) \/ Told(n)
  \/ readProbeFails(n) \/ LateLookup(n)

\* A page is told of a tenant exactly if a lookup for its nonce reached the
\* resolver as that tenant's within probeTTL, with none later, and no request
\* has read that lookup before, a request whose answer was lost included.  One
\* arrival is told at most once (probe.go Record, Lookup; portal/check.go
\* readProbe), but a nonce is not one-use, as probe.go:105-106 and
\* check.go:23-24 have it: Record asks for no unused nonce, so a lookup that
\* arrives after the reading (the AAAA after the A, a retransmission, another
\* device) is recorded and told again.
ToldOncePerArrival ==
  \A n \in Nonces : page[n].pc \in {"answer", "told"} => page[n].result = truth[n]
==============================================================================
