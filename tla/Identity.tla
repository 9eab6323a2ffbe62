------------------------------- MODULE Identity -------------------------------
(* How a query is attributed (resolver/resolve.go tenantFor, Resolve up to  *)
(* the diagnostic names): the binder and the probe recorder hang on the     *)
(* same query, and a lookup over plain DNS is counted as the tenant its     *)
(* address is bound to.                                                     *)
EXTENDS ClientBinding, Probe

ASSUME IdentityAssumption == Routes \subseteq Senders

identityVars == <<bindVars, probeVars>>

IdentityInit == BindInit /\ ProbeInit

\* A query over DoT or DoH, refused or answered without a trace here ...
Query(r, i) == tenantFor(r, i) /\ UNCHANGED probeVars

\* ... or for a diagnostic name: recorded once the tenant is known as active.
ProbeQuery(r, i, n) ==
  /\ tenantFor(r, i)
  /\ r \in snap.active
  /\ Record(n, r)

\* The same over plain DNS: TenantByIP, and nothing is observed.
PlainProbe(i, n) ==
  /\ snap.byIP[i] \in snap.active
  /\ Record(n, snap.byIP[i])
  /\ UNCHANGED bindVars

Tick == BindTick /\ ProbeTick

RestartResolver == Restart /\ ProbeRestart

IdentityNext ==
  \/ \E i \in IPs, r \in Routes : Query(r, i) \/ \E n \in Nonces : ProbeQuery(r, i, n)
  \/ \E i \in IPs, n \in Nonces : PlainProbe(i, n)
  \/ BindStep /\ UNCHANGED probeVars
  \/ ProbeStep /\ UNCHANGED bindVars
  \/ Tick \/ RestartResolver

IdentitySpec == IdentityInit /\ [][IdentityNext]_identityVars

\* Time passes, goroutines run, the ticker reloads; the devices that stay at an
\* address go on asking (nothing is claimed of an address nobody asks from).
IdentityFairness ==
  /\ WF_identityVars(Tick)
  /\ WF_identityVars(Reload /\ UNCHANGED probeVars)
  /\ \A p \in Pairs : WF_identityVars(WriteBinding(p) /\ UNCHANGED probeVars)
  /\ \A i \in IPs : WF_identityVars(Query(Home[i], i))

IdentityFairSpec == IdentitySpec /\ IdentityFairness
==============================================================================
