---------------------------- MODULE ClientBinding -----------------------------
(* Which tenant a source address belongs to (resolver/bind.go, the table    *)
(* tenant_ips of resolver/store.go and the handlers that write it).         *)
(*                                                                         *)
(* A query that names its tenant in the TLS SNI binds the address it came   *)
(* from: observe marks the pair as seen and leaves the write to a goroutine *)
(* of its own.  Customers and operators bind and release addresses by hand. *)
(* Plain DNS and the SNI proxy then know the tenant by the address alone.   *)
(*                                                                         *)
(* Time is relative: an entry holds its age, up to the first age at which   *)
(* it is older than anything the code asks about.  Reload, which            *)
(* PolicyStore models read by read, is one step here.                       *)
EXTENDS Integers, FiniteSets

CONSTANTS
  Routes, IPs,
  Home,          \* the tenant whose devices stay at each address
  None,
  Debounce,      \* bindDebounce, 5 minutes
  SeenLimit,     \* entries of seen above which it is swept, 10000
  MaxVisits,     \* bound: queries of other tenants from an address
  MaxMoves,      \* bound: changes by hand, of a status, and restarts
  MaxFailures    \* bound: writes that fail

ASSUME BindingAssumption ==
  /\ Home \in [IPs -> Routes]
  /\ Debounce \in Nat \ {0} /\ SeenLimit \in Nat
  /\ None \notin Routes \cup Int

VARIABLES
  status,     \* the tenants that are active in the database
  binding,    \* tenant_ips: address -> tenant or None
  snap,       \* the resolver's snapshot of both
  seen,       \* ipBinder.seen: None or an age, for each <<tenant, address>>
  writes,     \* write goroutines under way, for each <<tenant, address>>
  credited,   \* history: pairs seen while the tenant was served, or entered by hand
  visits, moves, failures

bindVars == <<status, binding, snap, seen, writes, credited, visits, moves, failures>>

Pairs == Routes \X IPs
Old   == Debounce + 1

BindInit ==
  /\ status = Routes
  /\ binding = [i \in IPs |-> None]
  /\ snap = [active |-> Routes, byIP |-> binding]
  /\ seen = [p \in Pairs |-> None]
  /\ writes = [p \in Pairs |-> 0]
  /\ credited = {}
  /\ visits = 0 /\ moves = 0 /\ failures = 0

------------------------------------------------------------------------------
(* The binder.                                                             *)

\* Above the limit, what is older than the window goes.
Swept(s) ==
  IF Cardinality({p \in Pairs : s[p] # None}) > SeenLimit
  THEN [p \in Pairs |-> IF s[p] = Old THEN None ELSE s[p]]
  ELSE s

\* Mutant: every query renews the mark, so the window never ends.
observe_Renews(p) ==
  LET fresh == seen[p] # None /\ seen[p] < Debounce
  IN  /\ seen' = Swept([seen EXCEPT ![p] = 0])
      /\ writes' = IF fresh THEN writes ELSE [writes EXCEPT ![p] = @ + 1]

\* The pair is marked before its write is tried, and tried by another goroutine.
observe(p) ==
  IF seen[p] # None /\ seen[p] < Debounce
  THEN UNCHANGED <<seen, writes>>
  ELSE /\ seen' = Swept([seen EXCEPT ![p] = 0])
       /\ writes' = [writes EXCEPT ![p] = @ + 1]

\* Mutant: a tenant the resolver refuses is observed like any other.
Observed_Any == Routes

\* Tenants whose queries are observed: those the snapshot has as active.
Observed == snap.active

\* A query over DoT or DoH, as far as the binder is concerned.
tenantFor(r, i) ==
  /\ IF r = Home[i] THEN visits' = visits
     ELSE visits < MaxVisits /\ visits' = visits + 1
  /\ IF r \in Observed THEN observe(<<r, i>>) ELSE UNCHANGED <<seen, writes>>
  /\ credited' = IF r \in snap.active THEN credited \cup {<<r, i>>} ELSE credited
  /\ UNCHANGED <<status, binding, snap, moves, failures>>

\* RegisterIP in its goroutine: the last write of an address wins.
WriteBinding(p) ==
  /\ writes[p] > 0
  /\ writes' = [writes EXCEPT ![p] = @ - 1]
  /\ binding' = [binding EXCEPT ![p[2]] = p[1]]
  /\ UNCHANGED <<status, snap, seen, credited, visits, moves, failures>>

\* The write fails: a line in the log, and the mark stays.
WriteFails(p) ==
  /\ writes[p] > 0 /\ failures < MaxFailures
  /\ failures' = failures + 1
  /\ writes' = [writes EXCEPT ![p] = @ - 1]
  /\ UNCHANGED <<status, binding, snap, seen, credited, visits, moves>>

------------------------------------------------------------------------------
(* By hand, and the snapshot.                                              *)

Move == moves < MaxMoves /\ moves' = moves + 1

\* The resolver's own admin API reloads its snapshot before it answers; the
\* other processes reload theirs.
Reloads(active, byIP) == snap' \in {snap, [active |-> active, byIP |-> byIP]}

\* Portal, backend API or resolver API: an address is bound to a tenant ...
RegisterIP(r, i) ==
  /\ Move
  /\ binding' = [binding EXCEPT ![i] = r]
  /\ credited' = credited \cup {<<r, i>>}
  /\ Reloads(status, binding')
  /\ UNCHANGED <<status, seen, writes, visits, failures>>

\* ... or to none, whatever tenant it was bound to; the marks stay.
ReleaseIP(i) ==
  /\ Move
  /\ binding' = [binding EXCEPT ![i] = None]
  /\ Reloads(status, binding')
  /\ UNCHANGED <<status, seen, writes, credited, visits, failures>>

\* A tenant is suspended or activated in the database ...
SetStatus(r) ==
  /\ Move
  /\ status' = IF r \in status THEN status \ {r} ELSE status \cup {r}
  /\ Reloads(status', binding)
  /\ UNCHANGED <<binding, seen, writes, credited, visits, failures>>

\* ... or its time is over, which the snapshot tells by itself.
Expire(r) ==
  /\ Move
  /\ r \in status /\ status' = status \ {r}
  /\ snap' = [snap EXCEPT !.active = @ \ {r}]
  /\ UNCHANGED <<binding, seen, writes, credited, visits, failures>>

\* The ticker's Reload.
Reload ==
  /\ snap' = [active |-> status, byIP |-> binding]
  /\ UNCHANGED <<status, binding, seen, writes, credited, visits, moves, failures>>

\* The resolver starts anew: marks and writes under way are gone.
Restart ==
  /\ Move
  /\ seen' = [p \in Pairs |-> None]
  /\ writes' = [p \in Pairs |-> 0]
  /\ snap' = [active |-> status, byIP |-> binding]
  /\ UNCHANGED <<status, binding, credited, visits, failures>>

\* Writes take less than the window: busy_timeout is 5 seconds.
BindTick ==
  /\ \A p \in Pairs : writes[p] = 0 \/ seen[p] # Debounce - 1
  /\ seen' = [p \in Pairs |-> IF seen[p] \in {None, Old} THEN seen[p] ELSE seen[p] + 1]
  /\ UNCHANGED <<status, binding, snap, writes, credited, visits, moves, failures>>

BindStep ==
  \/ \E p \in Pairs : WriteBinding(p) \/ WriteFails(p)
  \/ \E i \in IPs : ReleaseIP(i) \/ \E r \in Routes : RegisterIP(r, i)
  \/ \E r \in Routes : SetStatus(r) \/ Expire(r)
  \/ Reload

------------------------------------------------------------------------------
(* Properties.                                                             *)

\* No address is ever bound, or served, for a tenant that neither queried from
\* it while it was served nor was bound to it by hand: the query path binds no
\* lapsed or unknown tenant, however late its writes land (resolve.go tenantFor).
BoundForAReason ==
  \A i \in IPs : \A r \in {binding[i], snap.byIP[i]} : r # None => <<r, i>> \in credited

\* Whatever visitors, releases, lost writes and writes in the wrong order did
\* to an address, once they stop it is served as the tenant that stays there
\* and goes on querying (bind.go observe: the mark ages, the write is repeated).
ReboundEventually ==
  \A i \in IPs : <>[](Home[i] \in status) => <>[](snap.byIP[i] = Home[i])
==============================================================================
