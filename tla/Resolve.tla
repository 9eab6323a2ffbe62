------------------------------- MODULE Resolve -------------------------------
(***************************************************************************)
(* The policy pipeline a query runs through: Resolver.Resolve (resolver/   *)
(* resolve.go) with the lookups it makes in the snapshot (resolver/        *)
(* store.go) and in the blocklist (resolver/blocklist.go).                 *)
(*                                                                         *)
(* Many queries run at once, each in its connection's goroutine.  Every    *)
(* lookup loads the snapshot pointer again, so a reload of the policy or   *)
(* of the lists can fall between any two steps of a query.  The rate       *)
(* limiter, the answer cache and the upstreams are nondeterministic here;  *)
(* PolicyStore says which snapshots are served, RateLimiter who is         *)
(* throttled, Usage what becomes of the recorded counts.                   *)
(*                                                                         *)
(* seen and lists are history: the snapshots, in order, and the lists      *)
(* served while a query was under way.                                     *)
(***************************************************************************)
EXTENDS Integers, FiniteSets, Sequences

CONSTANTS
  Queries,    \* queries, each asked once
  Routes, Global, IPs,
  Names,      \* domain names
  Asked,      \* the names queries ask for
  Suffixes,   \* Suffixes[n]: n and its parents, longest first (domainSuffixes)
  Answers,    \* override addresses
  Kinds,      \* kinds of request that are asked, a subset of AllKinds
  Snapshots,  \* the snapshots Reload may publish
  Lists,      \* the blocklists Load may publish: sets of names
  MaxClock,   \* bound: the last second
  MaxReloads, \* bound: snapshots and lists that are swapped in
  None

\* "address" is a question of a type overrideReply answers (A, AAAA, HTTPS,
\* SVCB), "record" one it leaves alone (MX, TXT, SRV), "probe" a name of the
\* diagnostic zone, "malformed" anything validQuestion rejects.
AllKinds == {"address", "record", "probe", "malformed"}

Scopes  == Routes \cup {Global}
Tenants == [active: BOOLEAN, expires: Nat, blockAds: BOOLEAN, paused: Nat]
SnapshotType ==
  [tenants: [Routes -> Tenants \cup {None}], byIP: [IPs -> Routes \cup {None}],
   allow: SUBSET (Scopes \X Names), over: [Scopes \X Names -> Answers \cup {None}]]

ASSUME ResolveAssumption ==
  /\ Snapshots \subseteq SnapshotType
  /\ Lists \subseteq SUBSET Names
  /\ Asked \subseteq Names /\ Suffixes \in [Names -> Seq(Names)]
  /\ Kinds \subseteq AllKinds
  /\ Routes \cap IPs = {} /\ None \notin Routes \cup Answers \cup Tenants
  /\ IsFiniteSet(Queries) /\ MaxClock \in Nat /\ MaxReloads \in Nat

\* id is the route of the SNI, or the source address of a plain query.
Requests == [id: Routes \cup IPs, kind: Kinds, name: Asked]

Metrics == {"queries", "allowed", "blocked", "overridden", "refused",
            "throttled", "malformed", "cacheHits", "upstream", "upstreamNG"}
Usages  == {"queries", "blocked", "overridden", "throttled"}

Results == {"malformed", "refused", "throttled", "probe", "overridden",
            "blocked", "resolved", "failed"}
Reply(result)   == [result |-> result, addr |-> None]
OverrideWith(a) == [result |-> "overridden", addr |-> a]
Replies == [result: Results, addr: Answers \cup {None}]

VARIABLES
  snap,     \* the served snapshot
  block,    \* the served blocklist
  clock,    \* the wall clock, in seconds
  query,    \* query[q]: pc, request, its "now", tenant and route, reply
  m,        \* the metrics of the process
  usage,    \* usage[r]: what UsageCollector has been told of route r
  reloads,
  seen, lists

vars == <<snap, block, clock, query, m, usage, reloads, seen, lists>>

Fresh == [pc |-> "waiting", req |-> None, now |-> 0, route |-> None,
          tenant |-> None, reply |-> None]

Init ==
  /\ snap \in Snapshots /\ block \in Lists
  /\ clock = 0
  /\ query = [q \in Queries |-> Fresh]
  /\ m = [x \in Metrics |-> 0]
  /\ usage = [r \in Routes |-> [u \in Usages |-> 0]]
  /\ reloads = 0
  /\ seen = [q \in Queries |-> <<>>] /\ lists = [q \in Queries |-> {}]

------------------------------------------------------------------------------
(* Lookups.  Each takes one snapshot and sees nothing else.                *)

Active(t, now)    == t # None /\ t.active /\ t.expires > now
Filtering(t, now) == t # None /\ t.blockAds /\ t.paused <= now

\* The route a request is attributed to.
RouteOf(s, id)  == IF id \in IPs THEN s.byIP[id] ELSE id
TenantOf(s, id) == LET r == RouteOf(s, id) IN IF r = None THEN None ELSE s.tenants[r]

\* The name or a parent of it is listed, for the tenant or for everyone.
Allowed(s, r, n) ==
  \E i \in DOMAIN Suffixes[n], scope \in {r, Global} : <<scope, Suffixes[n][i]>> \in s.allow

\* Mutant: the global rules are asked before the tenant's.
RuleFor_GlobalFirst(s, r, x) ==
  IF s.over[<<Global, x>>] # None THEN s.over[<<Global, x>>] ELSE s.over[<<r, x>>]

\* The rule written for exactly x, the tenant's before the global one.
RuleFor(s, r, x) ==
  IF s.over[<<r, x>>] # None THEN s.over[<<r, x>>] ELSE s.over[<<Global, x>>]

\* Override finds nothing.
NoOverride(s, r, n) == \A i \in DOMAIN Suffixes[n] : RuleFor(s, r, Suffixes[n][i]) = None

\* Override returns a: the rule of the longest suffix that has one.
Override(s, r, n, a) ==
  \E i \in DOMAIN Suffixes[n] :
    /\ RuleFor(s, r, Suffixes[n][i]) = a
    /\ \A j \in 1..(i - 1) : RuleFor(s, r, Suffixes[n][j]) = None

Blocked(b, n) == \E i \in DOMAIN Suffixes[n] : Suffixes[n][i] \in b

------------------------------------------------------------------------------
(* What moves under the queries.                                           *)

Running(q) == query[q].pc \notin {"waiting", "done"}

\* Reload swaps in another snapshot.
SwapSnapshot ==
  /\ reloads < MaxReloads
  /\ \E s \in Snapshots \ {snap} :
       /\ snap' = s
       /\ seen' = [q \in Queries |-> IF Running(q) THEN Append(seen[q], s) ELSE seen[q]]
  /\ reloads' = reloads + 1
  /\ UNCHANGED <<block, clock, query, m, usage, lists>>

\* Blocklist.Load swaps in another set.
SwapLists ==
  /\ reloads < MaxReloads
  /\ \E b \in Lists \ {block} :
       /\ block' = b
       /\ lists' = [q \in Queries |-> IF Running(q) THEN lists[q] \cup {b} ELSE lists[q]]
  /\ reloads' = reloads + 1
  /\ UNCHANGED <<snap, clock, query, m, usage, seen>>

PassTime ==
  /\ clock < MaxClock
  /\ clock' = clock + 1
  /\ UNCHANGED <<snap, block, query, m, usage, reloads, seen, lists>>

------------------------------------------------------------------------------
(* The steps of Resolve, one per lookup of shared state.                   *)

World == <<snap, block, clock, reloads>>

Counted(metric) == [m EXCEPT ![metric] = @ + 1]

\* UsageCollector.Record for one query, which counts the query itself and u.
Recorded(r, u) ==
  [usage EXCEPT ![r] = [x \in Usages |-> IF x \in {"queries", u} THEN @[x] + 1 ELSE @[x]]]

Goto(q, pc)       == query' = [query EXCEPT ![q].pc = pc]
Finish(q, reply)  == query' = [query EXCEPT ![q].pc = "done", ![q].reply = reply]

\* A query arrives.  Its "now" is read once and used to the end.
Begin(q) ==
  /\ query[q].pc = "waiting"
  /\ \E req \in Requests :
       IF req.kind = "malformed"
       THEN /\ query' = [query EXCEPT ![q].pc = "done", ![q].req = req, ![q].now = clock,
                                      ![q].reply = Reply("malformed")]
            /\ m' = [m EXCEPT !["queries"] = @ + 1, !["malformed"] = @ + 1]
       ELSE /\ query' = [query EXCEPT ![q].pc = "tenant", ![q].req = req, ![q].now = clock]
            /\ m' = Counted("queries")
  /\ seen' = [seen EXCEPT ![q] = <<snap>>] /\ lists' = [lists EXCEPT ![q] = {block}]
  /\ UNCHANGED <<World, usage>>

\* Mutant: TenantByIP loads the snapshot a second time for the tenant's row.
FindTenant_TwoLoads(q) ==
  /\ query[q].pc = "tenant"
  /\ \E i \in DOMAIN seen[q] :
       LET r == RouteOf(seen[q][i], query[q].req.id)
           t == IF r = None THEN None ELSE snap.tenants[r]
       IN  IF Active(t, query[q].now)
           THEN /\ query' = [query EXCEPT ![q].pc = "limit", ![q].route = r, ![q].tenant = t]
                /\ UNCHANGED m
           ELSE Finish(q, Reply("refused")) /\ m' = Counted("refused")
  /\ UNCHANGED <<World, usage, seen, lists>>

\* tenantFor; an unknown or lapsed tenant is refused.
FindTenant(q) ==
  /\ query[q].pc = "tenant"
  /\ LET r == RouteOf(snap, query[q].req.id)
         t == TenantOf(snap, query[q].req.id)
     IN  IF Active(t, query[q].now)
         THEN /\ query' = [query EXCEPT ![q].pc = "limit", ![q].route = r, ![q].tenant = t]
              /\ UNCHANGED m
         ELSE Finish(q, Reply("refused")) /\ m' = Counted("refused")
  /\ UNCHANGED <<World, usage, seen, lists>>

\* limiter.Allow says no.
Throttle(q) ==
  /\ query[q].pc = "limit"
  /\ Finish(q, Reply("throttled"))
  /\ m' = Counted("throttled")
  /\ usage' = Recorded(query[q].route, "throttled")
  /\ UNCHANGED <<World, seen, lists>>

\* limiter.Allow says yes; a diagnostic lookup is answered before any policy.
Admit(q) ==
  /\ query[q].pc = "limit"
  /\ IF query[q].req.kind = "probe"
     THEN Finish(q, Reply("probe")) /\ usage' = Recorded(query[q].route, "queries")
     ELSE Goto(q, "allowlist") /\ UNCHANGED usage
  /\ UNCHANGED <<World, m, seen, lists>>

CheckAllowed(q) ==
  /\ query[q].pc = "allowlist"
  /\ IF Allowed(snap, query[q].route, query[q].req.name)
     THEN Goto(q, "answer") /\ m' = Counted("allowed")
     ELSE Goto(q, "override") /\ UNCHANGED m
  /\ UNCHANGED <<World, usage, seen, lists>>

\* Mutant: a query with an override is recorded before its type is looked at.
CheckOverride_RecordsEarly(q) ==
  /\ query[q].pc = "override"
  /\ LET r == query[q].route
         n == query[q].req.name
     IN  \/ /\ query[q].req.kind = "address"
            /\ \E a \in Answers : Override(snap, r, n, a) /\ Finish(q, OverrideWith(a))
            /\ m' = Counted("overridden")
            /\ usage' = Recorded(r, "overridden")
         \/ /\ query[q].req.kind # "address" \/ NoOverride(snap, r, n)
            /\ Goto(q, "blocklist")
            /\ usage' = IF NoOverride(snap, r, n) THEN usage ELSE Recorded(r, "overridden")
            /\ UNCHANGED m
  /\ UNCHANGED <<World, seen, lists>>

\* An override answers the question unless it is of a type it leaves alone.
CheckOverride(q) ==
  /\ query[q].pc = "override"
  /\ LET r == query[q].route
         n == query[q].req.name
     IN  \/ /\ query[q].req.kind = "address"
            /\ \E a \in Answers : Override(snap, r, n, a) /\ Finish(q, OverrideWith(a))
            /\ m' = Counted("overridden")
            /\ usage' = Recorded(r, "overridden")
         \/ /\ query[q].req.kind # "address" \/ NoOverride(snap, r, n)
            /\ Goto(q, "blocklist")
            /\ UNCHANGED <<m, usage>>
  /\ UNCHANGED <<World, seen, lists>>

\* The tenant's row is the one FindTenant read.
CheckBlocked(q) ==
  /\ query[q].pc = "blocklist"
  /\ IF Filtering(query[q].tenant, query[q].now) /\ Blocked(block, query[q].req.name)
     THEN /\ Finish(q, Reply("blocked"))
          /\ m' = Counted("blocked")
          /\ usage' = Recorded(query[q].route, "blocked")
     ELSE Goto(q, "answer") /\ UNCHANGED <<m, usage>>
  /\ UNCHANGED <<World, seen, lists>>

\* The query passes: it is recorded, then the cache or an upstream answers.
RecordPlain(q) ==
  /\ query[q].pc = "answer"
  /\ usage' = Recorded(query[q].route, "queries")
  /\ Goto(q, "upstream")
  /\ UNCHANGED <<World, m, seen, lists>>

AnswerUpstream(q) ==
  /\ query[q].pc = "upstream"
  /\ \/ Finish(q, Reply("resolved")) /\ m' = Counted("cacheHits")
     \/ Finish(q, Reply("resolved")) /\ m' = Counted("upstream")
     \/ Finish(q, Reply("failed"))   /\ m' = Counted("upstreamNG")
  /\ UNCHANGED <<World, usage, seen, lists>>

Step(q) ==
  \/ Begin(q) \/ FindTenant(q) \/ Throttle(q) \/ Admit(q) \/ CheckAllowed(q)
  \/ CheckOverride(q) \/ CheckBlocked(q) \/ RecordPlain(q) \/ AnswerUpstream(q)

Next ==
  \/ SwapSnapshot \/ SwapLists \/ PassTime
  \/ \E q \in Queries : Step(q)

Spec == Init /\ [][Next]_vars

------------------------------------------------------------------------------
(* Properties.                                                             *)

\* The type invariant of the queries and the counters.
PCs == {"waiting", "tenant", "limit", "allowlist", "override", "blocklist",
        "answer", "upstream", "done"}
TypeOK ==
  /\ snap \in Snapshots /\ block \in Lists
  /\ clock \in 0..MaxClock /\ reloads \in 0..MaxReloads
  /\ query \in [Queries -> [pc: PCs, req: Requests \cup {None}, now: 0..MaxClock,
                            route: Routes \cup {None}, tenant: Tenants \cup {None},
                            reply: Replies \cup {None}]]
  /\ \A q \in Queries :
       query[q].pc \in PCs \ {"waiting", "tenant", "done"}
         => query[q].route \in Routes /\ query[q].tenant \in Tenants
  /\ m \in [Metrics -> Nat] /\ usage \in [Routes -> [Usages -> Nat]]
  /\ seen \in [Queries -> Seq(Snapshots)] /\ lists \in [Queries -> SUBSET Lists]

Done(q, results) == query[q].pc = "done" /\ query[q].reply.result \in results

\* A query that got anything but a refusal belonged, in one snapshot served
\* while it ran, to a tenant that was active when it arrived: a revoked, lapsed
\* or unmapped client is turned away on its next query, and no mix of an old
\* address table with a new tenant table lets it in (resolve.go:88).
EntitledIn(q) ==
  \E i \in DOMAIN seen[q] : Active(TenantOf(seen[q][i], query[q].req.id), query[q].now)
AnsweredOnlyIfActive ==
  \A q \in Queries : Done(q, Results \ {"malformed", "refused"}) => EntitledIn(q)

\* Names a rule for n can be written for: n and its parents.
Above(n) == {Suffixes[n][i] : i \in DOMAIN Suffixes[n]}

Listed(s, r, n) == s.allow \cap ({r, Global} \X Above(n)) # {}

\* x has an override, the tenant's or a global one.
Ruled(s, r, x) == s.over[<<r, x>>] # None \/ s.over[<<Global, x>>] # None

\* What one snapshot s, or one list b, makes of a query of tenant r.
OverrideRight(s, r, n, a) ==
  \E i \in DOMAIN Suffixes[n] :
    /\ \A j \in 1..(i - 1) : ~Ruled(s, r, Suffixes[n][j])
    /\ \/ a = s.over[<<r, Suffixes[n][i]>>] /\ a # None
       \/ a = s.over[<<Global, Suffixes[n][i]>>] /\ s.over[<<r, Suffixes[n][i]>>] = None
Overrides(s, r, req) == req.kind = "address" /\ \E x \in Above(req.name) : Ruled(s, r, x)
Filters(s, b, r, req, now) == Filtering(s.tenants[r], now) /\ b \cap Above(req.name) # {}

\* The tenant is that of snapshot ten, which also says whether it filters; the
\* allowlist is that of al, the overrides are those of ov, the blocklist is b.
AsDecided(q, ten, al, ov, b) ==
  LET req == query[q].req
      r   == query[q].route
      now == query[q].now
  IN  /\ Done(q, {"refused"}) => ~Active(TenantOf(ten, req.id), now)
      /\ Done(q, {"overridden", "blocked", "resolved", "failed"}) => RouteOf(ten, req.id) = r
      /\ Done(q, {"overridden"}) =>
           /\ ~Listed(al, r, req.name)
           /\ req.kind = "address" /\ OverrideRight(ov, r, req.name, query[q].reply.addr)
      /\ Done(q, {"blocked"}) =>
           /\ ~Listed(al, r, req.name) /\ ~Overrides(ov, r, req)
           /\ Filters(ten, b, r, req, now)
      /\ Done(q, {"resolved", "failed"}) =>
           Listed(al, r, req.name) \/ (~Overrides(ov, r, req) /\ ~Filters(ten, b, r, req, now))

\* Whatever reloads fall into a query, it is answered by the tenant, then the
\* allowlist, then the override of the longest suffix, then the blocklist of a
\* filtering tenant, each check by a snapshot no older than the check before:
\* a reload takes effect in the middle of a query, but never backwards, and a
\* name that every snapshot of the query allows is not overridden or blocked.
\* Less than two comments say.  "Tenant-specific rules beat global ones"
\* (store.go:277) is so for one name; a global rule for the name asked beats
\* the tenant's for its parent.  "Allowlist wins over everything"
\* (resolve.go:166, store.go:264) is so of one snapshot; when a reload adds a
\* name to both between the two lookups, its override answers.
AnswersAsDecided ==
  \A q \in Queries : query[q].pc = "done" =>
    \E i, j, k \in DOMAIN seen[q], b \in lists[q] :
      /\ i <= j /\ j <= k
      /\ AsDecided(q, seen[q][i], seen[q][j], seen[q][k], b)

\* Every query is counted once by the metrics, and every one of an admitted
\* tenant once by its usage, under what became of it.
Admitted(q) == query[q].pc = "upstream" \/ Done(q, Results \ {"malformed", "refused"})
CountedOnce ==
  /\ \A r \in Routes :
       /\ usage[r]["queries"] = Cardinality({q \in Queries : query[q].route = r /\ Admitted(q)})
       /\ \A u \in Usages \ {"queries"} :
            usage[r][u] = Cardinality({q \in Queries : query[q].route = r /\ Done(q, {u})})
  /\ m["queries"] = Cardinality({q \in Queries : query[q].pc # "waiting"})
  /\ \A x \in {"malformed", "refused", "throttled", "overridden", "blocked"} :
       m[x] = Cardinality({q \in Queries : Done(q, {x})})
  /\ m["cacheHits"] + m["upstream"] = Cardinality({q \in Queries : Done(q, {"resolved"})})
  /\ m["upstreamNG"] = Cardinality({q \in Queries : Done(q, {"failed"})})
==============================================================================
