---------------------------- MODULE Resolve_proofs ----------------------------
(***************************************************************************)
(* Proofs about Resolve, for any number of queries, tenants, names, rules, *)
(* snapshots and reloads.                                                  *)
(*                                                                         *)
(* Both safety properties speak of finished queries; the invariant says    *)
(* what each place of the pipeline has established of the snapshots the    *)
(* query has seen so far.                                                  *)
(*                                                                         *)
(* The counters are the numbers of queries at the places that count: a     *)
(* step of the pipeline brings its query, and no other, to such a place.   *)
(*                                                                         *)
(* AnswerCache, the last steps of a query, has its proofs here as well: an *)
(* entry is filtered for the name it answers, and its lifetime is bounded  *)
(* by each of its TTLs, wherever a copy of it is held.                     *)
(***************************************************************************)
EXTENDS Resolve, AnswerCache, FiniteSetTheorems, WellFoundedInduction, TLAPS

Past == {"limit", "allowlist", "override", "blocklist", "answer", "upstream"}

\* The served snapshot is the last that a running query has seen, and the
\* served list is among those it has.
SeesServed(q) ==
  Running(q) => /\ seen[q] # <<>> /\ seen[q][Len(seen[q])] = snap
                /\ block \in lists[q] /\ query[q].req \in Requests

\* A query past FindTenant, or answered, belongs to a tenant that was active.
Entitled(q) ==
  query[q].pc \in Past \/ Done(q, Results \ {"malformed", "refused"}) => EntitledIn(q)

\* What the steps behind q have established: FindTenant of snapshot ten, the
\* allowlist check of al, the override check of ov, the blocklist check of b.
Settled(q, ten, al, ov, b) ==
  LET req == query[q].req
      r   == query[q].route
  IN  /\ query[q].pc \in Past => query[q].tenant = ten.tenants[r] /\ RouteOf(ten, req.id) = r
      /\ query[q].pc \in {"override", "blocklist"} => ~Listed(al, r, req.name)
      /\ query[q].pc = "blocklist" => ~Overrides(ov, r, req)
      /\ query[q].pc \in {"answer", "upstream"} =>
           \/ Listed(al, r, req.name)
           \/ ~Overrides(ov, r, req) /\ ~Filters(ten, b, r, req, query[q].now)

Decided(q) ==
  query[q].pc \in Past \cup {"done"} =>
    \E i, j, k \in DOMAIN seen[q], b \in lists[q] :
      /\ i <= j /\ j <= k
      /\ Settled(q, seen[q][i], seen[q][j], seen[q][k], b)
      /\ AsDecided(q, seen[q][i], seen[q][j], seen[q][k], b)

QueryInv(q) == SeesServed(q) /\ Entitled(q) /\ Decided(q)
IInv        == TypeOK /\ \A q \in Queries : QueryInv(q)

------------------------------------------------------------------------------
(* The lookups.                                                            *)

\* Allowed finds an entry exactly when the snapshot lists the name.
LEMMA AllowedListed ==
  ASSUME NEW s, NEW r, NEW n
  PROVE  Allowed(s, r, n) <=> Listed(s, r, n)
<1>1. ASSUME Allowed(s, r, n) PROVE Listed(s, r, n)
  <2>1. PICK i \in DOMAIN Suffixes[n], scope \in {r, Global} :
          <<scope, Suffixes[n][i]>> \in s.allow
    BY <1>1 DEF Allowed
  <2>2. Suffixes[n][i] \in Above(n)
    BY DEF Above
  <2> QED
    BY <2>1, <2>2 DEF Listed
<1>2. ASSUME Listed(s, r, n) PROVE Allowed(s, r, n)
  <2>1. PICK scope \in {r, Global}, x \in Above(n) : <<scope, x>> \in s.allow
    BY <1>2 DEF Listed
  <2>2. PICK i \in DOMAIN Suffixes[n] : x = Suffixes[n][i]
    BY DEF Above
  <2> QED
    BY <2>1, <2>2 DEF Allowed
<1> QED
  BY <1>1, <1>2

\* Blocked finds an entry exactly when the list has the name or a parent.
LEMMA BlockedAbove ==
  ASSUME NEW b, NEW n
  PROVE  Blocked(b, n) <=> b \cap Above(n) # {}
  BY DEF Blocked, Above

\* When Override finds nothing, no suffix has a rule.
LEMMA NoOverrideRule ==
  ASSUME NEW s, NEW r, NEW n, NoOverride(s, r, n)
  PROVE  ~ \E x \in Above(n) : Ruled(s, r, x)
<1> SUFFICES ASSUME NEW x \in Above(n) PROVE ~Ruled(s, r, x)
  OBVIOUS
<1>1. PICK i \in DOMAIN Suffixes[n] : x = Suffixes[n][i]
  BY DEF Above
<1>2. RuleFor(s, r, x) = None
  BY <1>1 DEF NoOverride
<1> QED
  BY <1>2 DEF RuleFor, Ruled

\* What Override returns is the rule of the longest suffix.
LEMMA OverrideIsRight ==
  ASSUME NEW s, NEW r, NEW n, NEW a, Override(s, r, n, a), a # None
  PROVE  OverrideRight(s, r, n, a)
  BY DEF Override, RuleFor, OverrideRight, Ruled

------------------------------------------------------------------------------
(* The records of the queries.                                             *)

QueryType == [pc: PCs, req: Requests \cup {None}, now: 0..MaxClock,
              route: Routes \cup {None}, tenant: Tenants \cup {None},
              reply: Replies \cup {None}]

\* Only the record of q changes.
OthersStay(q) ==
  /\ \A p \in Queries \ {q} : query'[p] = query[p] /\ seen'[p] = seen[p] /\ lists'[p] = lists[p]
  /\ snap' = snap /\ block' = block

\* A step that keeps the fields of q but its place and reply.
KeepsFields(q) ==
  /\ query'[q].req = query[q].req /\ query'[q].now = query[q].now
  /\ query'[q].route = query[q].route /\ query'[q].tenant = query[q].tenant
  /\ seen'[q] = seen[q] /\ lists'[q] = lists[q]

\* Going on to another place.
LEMMA GotoFields ==
  ASSUME TypeOK, NEW q \in Queries, NEW pc \in PCs, Goto(q, pc), UNCHANGED <<World, seen, lists>>
  PROVE  /\ query' \in [Queries -> QueryType]
         /\ query'[q].pc = pc /\ query'[q].reply = query[q].reply
         /\ KeepsFields(q) /\ OthersStay(q)
<1>1. query \in [Queries -> QueryType]
  BY DEF TypeOK, QueryType
<1>2. query' = [query EXCEPT ![q].pc = pc]
  BY DEF Goto
<1>3. query'[q] = [query[q] EXCEPT !.pc = pc] /\ query[q] \in QueryType
  BY <1>1, <1>2
<1>4. query'[q] \in QueryType
  BY <1>3 DEF QueryType
<1>5. \A p \in Queries \ {q} : query'[p] = query[p]
  BY <1>1, <1>2
<1>6. query' \in [Queries -> QueryType]
  BY <1>1, <1>2, <1>4
<1>7. /\ query'[q].pc = pc /\ query'[q].reply = query[q].reply
      /\ query'[q].req = query[q].req /\ query'[q].now = query[q].now
      /\ query'[q].route = query[q].route /\ query'[q].tenant = query[q].tenant
  BY <1>3 DEF QueryType
<1> QED
  BY <1>5, <1>6, <1>7 DEF KeepsFields, OthersStay, World

\* Answering.
LEMMA FinishFields ==
  ASSUME TypeOK, NEW q \in Queries, NEW reply \in Replies, Finish(q, reply),
         UNCHANGED <<World, seen, lists>>
  PROVE  /\ query' \in [Queries -> QueryType]
         /\ query'[q].pc = "done" /\ query'[q].reply = reply
         /\ KeepsFields(q) /\ OthersStay(q)
<1>1. query \in [Queries -> QueryType]
  BY DEF TypeOK, QueryType
<1>2. query' = [query EXCEPT ![q].pc = "done", ![q].reply = reply]
  BY DEF Finish
<1>3. query'[q] = [query[q] EXCEPT !.pc = "done", !.reply = reply] /\ query[q] \in QueryType
  BY <1>1, <1>2
<1>4. query'[q] \in QueryType
  BY <1>3 DEF QueryType, PCs
<1>5. \A p \in Queries \ {q} : query'[p] = query[p]
  BY <1>1, <1>2
<1>6. query' \in [Queries -> QueryType]
  BY <1>1, <1>2, <1>4
<1>7. /\ query'[q].pc = "done" /\ query'[q].reply = reply
      /\ query'[q].req = query[q].req /\ query'[q].now = query[q].now
      /\ query'[q].route = query[q].route /\ query'[q].tenant = query[q].tenant
  BY <1>3 DEF QueryType
<1> QED
  BY <1>5, <1>6, <1>7 DEF KeepsFields, OthersStay, World

\* Plain replies and overrides are replies.
LEMMA ReplyTypes ==
  /\ \A x \in Results : Reply(x) \in Replies /\ Reply(x).result = x
  /\ \A a \in Answers : /\ OverrideWith(a) \in Replies
                        /\ OverrideWith(a).result = "overridden" /\ OverrideWith(a).addr = a
  BY DEF Reply, OverrideWith, Replies, Results

\* The invariant of the other queries is not touched.
LEMMA Frame ==
  ASSUME \A p \in Queries : QueryInv(p), NEW q \in Queries, OthersStay(q), QueryInv(q)'
  PROVE  \A p \in Queries : QueryInv(p)'
<1> SUFFICES ASSUME NEW p \in Queries, p # q PROVE QueryInv(p)'
  OBVIOUS
<1>1. /\ query'[p] = query[p] /\ seen'[p] = seen[p] /\ lists'[p] = lists[p]
      /\ snap' = snap /\ block' = block
  BY DEF OthersStay
<1>2. SeesServed(p) /\ Entitled(p) /\ Decided(p)
  BY DEF QueryInv
<1>3. SeesServed(p)'
  BY <1>1, <1>2 DEF SeesServed, Running
<1>4. Entitled(p)'
  BY <1>1, <1>2 DEF Entitled, EntitledIn, Done
<1>5. Decided(p)'
  BY <1>1, <1>2 DEF Decided, Settled, AsDecided, Done
<1> QED
  BY <1>3, <1>4, <1>5 DEF QueryInv

------------------------------------------------------------------------------
(* The steps of a query.                                                   *)

\* A running query has seen the served snapshot, and no other since.
LEMMA SeenLast ==
  ASSUME TypeOK, NEW q \in Queries, SeesServed(q), Running(q)
  PROVE  \E n \in DOMAIN seen[q] : seen[q][n] = snap /\ \A i \in DOMAIN seen[q] : i <= n
<1>1. seen[q] \in Seq(Snapshots) /\ seen[q] # <<>> /\ seen[q][Len(seen[q])] = snap
  BY DEF TypeOK, SeesServed
<1>2. DOMAIN seen[q] = 1..Len(seen[q]) /\ Len(seen[q]) \in Nat \ {0}
  BY <1>1
<1> QED
  BY <1>1, <1>2

\* Of a query past FindTenant, the snapshots that decided what it has passed.
LEMMA SettledBy ==
  ASSUME NEW q \in Queries, QueryInv(q), query[q].pc \in Past
  PROVE  \E i, j, k \in DOMAIN seen[q], b \in lists[q] :
           i <= j /\ j <= k /\ Settled(q, seen[q][i], seen[q][j], seen[q][k], b)
  BY DEF QueryInv, Decided

\* A query past FindTenant goes on to a place whose facts are established.
LEMMA GotoInv ==
  ASSUME TypeOK, NEW q \in Queries, QueryInv(q), query[q].pc \in Past,
         NEW pc \in Past, Goto(q, pc), UNCHANGED <<World, seen, lists>>,
         \E i, j, k \in DOMAIN seen[q], b \in lists[q] :
           LET req == query[q].req
               r   == query[q].route
           IN  /\ i <= j /\ j <= k
               /\ query[q].tenant = seen[q][i].tenants[r] /\ RouteOf(seen[q][i], req.id) = r
               /\ pc \in {"override", "blocklist"} => ~Listed(seen[q][j], r, req.name)
               /\ pc = "blocklist" => ~Overrides(seen[q][k], r, req)
               /\ pc \in {"answer", "upstream"} =>
                    \/ Listed(seen[q][j], r, req.name)
                    \/ /\ ~Overrides(seen[q][k], r, req)
                       /\ ~Filters(seen[q][i], b, r, req, query[q].now)
  PROVE  QueryInv(q)' /\ OthersStay(q)
<1>1. pc \in PCs
  BY DEF Past, PCs
<1>2. /\ query'[q].pc = pc /\ KeepsFields(q) /\ OthersStay(q)
  BY <1>1, GotoFields
<1>3. SeesServed(q)'
  BY <1>2 DEF SeesServed, Running, QueryInv, Past, KeepsFields, OthersStay
<1>4. Entitled(q)'
  BY <1>2 DEF Entitled, EntitledIn, QueryInv, KeepsFields
<1>5. \A results : ~ Done(q, results)'
  BY <1>2 DEF Done, Past
<1>6. \A ten, al, ov, b : AsDecided(q, ten, al, ov, b)'
  BY <1>5 DEF AsDecided
<1>7. Decided(q)'
  <2>1. PICK i \in DOMAIN seen[q], j \in DOMAIN seen[q], k \in DOMAIN seen[q], b \in lists[q] :
          LET req == query[q].req
              r   == query[q].route
          IN  /\ i <= j /\ j <= k
              /\ query[q].tenant = seen[q][i].tenants[r] /\ RouteOf(seen[q][i], req.id) = r
              /\ pc \in {"override", "blocklist"} => ~Listed(seen[q][j], r, req.name)
              /\ pc = "blocklist" => ~Overrides(seen[q][k], r, req)
              /\ pc \in {"answer", "upstream"} =>
                   \/ Listed(seen[q][j], r, req.name)
                   \/ /\ ~Overrides(seen[q][k], r, req)
                      /\ ~Filters(seen[q][i], b, r, req, query[q].now)
    OBVIOUS
  <2>2. Settled(q, seen[q][i], seen[q][j], seen[q][k], b)'
    BY <1>2, <2>1 DEF Settled, KeepsFields
  <2> QED
    BY <1>2, <1>6, <2>1, <2>2 DEF Decided, KeepsFields
<1> QED
  BY <1>2, <1>3, <1>4, <1>7 DEF QueryInv

\* A query past FindTenant is answered, rightly.
LEMMA FinishInv ==
  ASSUME TypeOK, NEW q \in Queries, QueryInv(q), query[q].pc \in Past,
         NEW reply \in Replies, Finish(q, reply), UNCHANGED <<World, seen, lists>>,
         reply.result # "refused",
         \E i, j, k \in DOMAIN seen[q], b \in lists[q] :
           LET req == query[q].req
               r   == query[q].route
           IN  /\ i <= j /\ j <= k /\ RouteOf(seen[q][i], req.id) = r
               /\ reply.result = "overridden" =>
                    /\ ~Listed(seen[q][j], r, req.name)
                    /\ req.kind = "address" /\ OverrideRight(seen[q][k], r, req.name, reply.addr)
               /\ reply.result = "blocked" =>
                    /\ ~Listed(seen[q][j], r, req.name) /\ ~Overrides(seen[q][k], r, req)
                    /\ Filters(seen[q][i], b, r, req, query[q].now)
               /\ reply.result \in {"resolved", "failed"} =>
                    \/ Listed(seen[q][j], r, req.name)
                    \/ /\ ~Overrides(seen[q][k], r, req)
                       /\ ~Filters(seen[q][i], b, r, req, query[q].now)
  PROVE  QueryInv(q)' /\ OthersStay(q)
<1>1. /\ query'[q].pc = "done" /\ query'[q].reply = reply /\ KeepsFields(q) /\ OthersStay(q)
  BY FinishFields
<1>2. SeesServed(q)'
  BY <1>1 DEF SeesServed, Running
<1>3. Entitled(q)'
  BY <1>1 DEF Entitled, EntitledIn, QueryInv, KeepsFields
<1>4. \A results : Done(q, results)' <=> reply.result \in results
  BY <1>1 DEF Done
<1>5. \A ten, al, ov, b : Settled(q, ten, al, ov, b)'
  BY <1>1 DEF Settled, Past
<1>6. Decided(q)'
  <2>1. PICK i \in DOMAIN seen[q], j \in DOMAIN seen[q], k \in DOMAIN seen[q], b \in lists[q] :
          LET req == query[q].req
              r   == query[q].route
          IN  /\ i <= j /\ j <= k /\ RouteOf(seen[q][i], req.id) = r
              /\ reply.result = "overridden" =>
                   /\ ~Listed(seen[q][j], r, req.name)
                   /\ req.kind = "address" /\ OverrideRight(seen[q][k], r, req.name, reply.addr)
              /\ reply.result = "blocked" =>
                   /\ ~Listed(seen[q][j], r, req.name) /\ ~Overrides(seen[q][k], r, req)
                   /\ Filters(seen[q][i], b, r, req, query[q].now)
              /\ reply.result \in {"resolved", "failed"} =>
                   \/ Listed(seen[q][j], r, req.name)
                   \/ /\ ~Overrides(seen[q][k], r, req)
                      /\ ~Filters(seen[q][i], b, r, req, query[q].now)
    OBVIOUS
  <2>2. AsDecided(q, seen[q][i], seen[q][j], seen[q][k], b)'
    BY <1>1, <1>4, <2>1 DEF AsDecided, KeepsFields
  <2> QED
    BY <1>1, <1>5, <2>1, <2>2 DEF Decided, KeepsFields
<1> QED
  BY <1>1, <1>2, <1>3, <1>6 DEF QueryInv

\* A query arrives.
LEMMA BeginInv ==
  ASSUME TypeOK, NEW q \in Queries, Begin(q)
  PROVE  /\ QueryInv(q)' /\ OthersStay(q)
         /\ query' \in [Queries -> QueryType]
         /\ query'[q].pc \in {"tenant", "done"}
<1>1. PICK req \in Requests :
        \/ /\ req.kind = "malformed"
           /\ query' = [query EXCEPT ![q].pc = "done", ![q].req = req, ![q].now = clock,
                                     ![q].reply = Reply("malformed")]
        \/ query' = [query EXCEPT ![q].pc = "tenant", ![q].req = req, ![q].now = clock]
  BY DEF Begin
<1>2. query \in [Queries -> QueryType] /\ clock \in 0..MaxClock
        /\ Reply("malformed") \in Replies /\ Reply("malformed").result = "malformed"
  BY ReplyTypes DEF TypeOK, QueryType, Results
<1>3. /\ seen' = [seen EXCEPT ![q] = <<snap>>] /\ lists' = [lists EXCEPT ![q] = {block}]
      /\ snap' = snap /\ block' = block /\ clock' = clock
  BY DEF Begin, World
<1>4. \A p \in Queries \ {q} : query'[p] = query[p]
  BY <1>1, <1>2
<1>5. OthersStay(q) /\ seen'[q] = <<snap>> /\ lists'[q] = {block}
  BY <1>3, <1>4 DEF OthersStay, TypeOK
<1>6. /\ query' \in [Queries -> QueryType] /\ query'[q].req = req
      /\ \/ query'[q].pc = "tenant"
         \/ query'[q].pc = "done" /\ query'[q].reply = Reply("malformed")
  <2>1. CASE query' = [query EXCEPT ![q].pc = "done", ![q].req = req, ![q].now = clock,
                                    ![q].reply = Reply("malformed")]
    <3>1. query'[q] = [query[q] EXCEPT !.pc = "done", !.req = req, !.now = clock,
                                       !.reply = Reply("malformed")]
            /\ query[q] \in QueryType
      BY <1>2, <2>1
    <3>2. query'[q] \in QueryType /\ query'[q].pc = "done" /\ query'[q].req = req
            /\ query'[q].reply = Reply("malformed")
      BY <1>2, <3>1 DEF QueryType, PCs
    <3> QED
      BY <1>2, <1>4, <2>1, <3>2
  <2>2. CASE query' = [query EXCEPT ![q].pc = "tenant", ![q].req = req, ![q].now = clock]
    <3>1. query'[q] = [query[q] EXCEPT !.pc = "tenant", !.req = req, !.now = clock]
            /\ query[q] \in QueryType
      BY <1>2, <2>2
    <3>2. query'[q] \in QueryType /\ query'[q].pc = "tenant" /\ query'[q].req = req
      BY <1>2, <3>1 DEF QueryType, PCs
    <3> QED
      BY <1>2, <1>4, <2>2, <3>2
  <2> QED
    BY <1>1, <2>1, <2>2
<1>7. \A results : Done(q, results)' => "malformed" \in results
  BY <1>2, <1>6 DEF Done
<1>8. SeesServed(q)'
  <2>1. PICK s : s = seen'[q]
    OBVIOUS
  <2>2. s = <<snap'>> /\ block' \in lists'[q]
    BY <1>3, <1>5, <2>1
  <2>3. s # <<>> /\ s[Len(s)] = snap'
    BY <2>2
  <2> QED
    BY <1>6, <2>1, <2>2, <2>3 DEF SeesServed
<1>9. Entitled(q)'
  BY <1>6, <1>7 DEF Entitled, Past
<1>10. Decided(q)'
  <2>1. CASE query'[q].pc = "tenant"
    BY <2>1 DEF Decided, Past
  <2>2. CASE query'[q].pc = "done"
    <3>1. \A ten, al, ov, b : /\ Settled(q, ten, al, ov, b)'
                            /\ AsDecided(q, ten, al, ov, b)'
      BY <2>2, <1>7 DEF Settled, AsDecided, Past
    <3>2. 1 \in DOMAIN seen'[q] /\ block \in lists'[q] /\ 1 <= 1
      BY <1>5
    <3> QED
      BY <3>1, <3>2 DEF Decided
  <2> QED
    BY <1>6, <2>1, <2>2
<1> QED
  BY <1>5, <1>6, <1>8, <1>9, <1>10 DEF QueryInv

\* The tenant is looked up in the served snapshot.
LEMMA FindTenantInv ==
  ASSUME TypeOK, NEW q \in Queries, QueryInv(q), FindTenant(q)
  PROVE  /\ QueryInv(q)' /\ OthersStay(q)
         /\ query' \in [Queries -> QueryType]
         /\ query'[q].pc # "done" => query'[q].route \in Routes /\ query'[q].tenant \in Tenants
<1> DEFINE r == RouteOf(snap, query[q].req.id)
           t == TenantOf(snap, query[q].req.id)
<1>1. /\ Running(q) /\ SeesServed(q) /\ block \in lists[q] /\ query[q].req \in Requests
      /\ query[q].pc = "tenant" /\ UNCHANGED <<World, usage, seen, lists>>
  BY DEF FindTenant, Running, QueryInv, SeesServed
<1>2. query \in [Queries -> QueryType] /\ snap \in SnapshotType
  BY ResolveAssumption DEF TypeOK, QueryType
<1>n. PICK n \in DOMAIN seen[q] : seen[q][n] = snap /\ n <= n
  BY <1>1, SeenLast
<1>b. PICK b \in lists[q] : TRUE
  BY <1>1
<1>3. r \in Routes \cup {None} /\ t \in Tenants \cup {None}
  <2>1. query[q].req.id \in Routes \cup IPs
    BY <1>1 DEF Requests
  <2>2. r \in Routes \cup {None}
    BY <1>2, <2>1 DEF RouteOf, SnapshotType
  <2> QED
    BY <1>2, <2>2 DEF TenantOf, SnapshotType
<1>4. CASE Active(t, query[q].now)
  <2>1. query' = [query EXCEPT ![q].pc = "limit", ![q].route = r, ![q].tenant = t]
    BY <1>4 DEF FindTenant
  <2>2. t # None /\ r # None /\ t = snap.tenants[r]
    BY <1>4 DEF Active, TenantOf
  <2>3. query'[q] = [query[q] EXCEPT !.pc = "limit", !.route = r, !.tenant = t]
          /\ query[q] \in QueryType
    BY <1>2, <2>1
  <2>4. query'[q] \in QueryType
    BY <1>3, <2>3 DEF QueryType, PCs
  <2>5. /\ query'[q].pc = "limit" /\ query'[q].route = r /\ query'[q].tenant = t
        /\ query'[q].req = query[q].req /\ query'[q].now = query[q].now
    BY <2>3 DEF QueryType
  <2>6. query' \in [Queries -> QueryType] /\ OthersStay(q)
          /\ seen' = seen /\ lists' = lists /\ snap' = snap /\ block' = block
    BY <1>1, <1>2, <2>1, <2>4 DEF OthersStay, World
  <2>7. SeesServed(q)'
    BY <1>1, <2>5, <2>6 DEF SeesServed
  <2>8. Entitled(q)'
    BY <1>n, <1>4, <2>5, <2>6 DEF Entitled, EntitledIn
  <2>9. \A results : ~Done(q, results)'
    BY <2>5 DEF Done
  <2>10. Settled(q, snap, snap, snap, b)' /\ AsDecided(q, snap, snap, snap, b)'
    BY <2>2, <2>5, <2>6, <2>9 DEF Settled, AsDecided
  <2>11. Decided(q)'
    BY <1>n, <2>6, <2>10 DEF Decided
  <2> QED
    BY <1>3, <2>2, <2>5, <2>6, <2>7, <2>8, <2>11 DEF QueryInv
<1>5. CASE ~Active(t, query[q].now)
  <2>1. Finish(q, Reply("refused")) /\ Reply("refused") \in Replies
          /\ Reply("refused").result = "refused"
    BY <1>5, ReplyTypes DEF FindTenant, Results
  <2>2. /\ query'[q].pc = "done" /\ query'[q].reply = Reply("refused")
        /\ KeepsFields(q) /\ OthersStay(q) /\ query' \in [Queries -> QueryType]
    BY <1>1, <2>1, FinishFields
  <2>3. \A results : Done(q, results)' => "refused" \in results
    BY <2>1, <2>2 DEF Done
  <2>4. SeesServed(q)' /\ Entitled(q)'
    BY <2>2, <2>3 DEF SeesServed, Entitled, Running, Past
  <2>5. Settled(q, snap, snap, snap, b)' /\ AsDecided(q, snap, snap, snap, b)'
    BY <1>1, <1>5, <2>2, <2>3 DEF Settled, AsDecided, KeepsFields, Past, World
  <2>6. Decided(q)'
    BY <1>1, <1>n, <2>2, <2>5 DEF Decided, KeepsFields, World
  <2> QED
    BY <2>2, <2>4, <2>6 DEF QueryInv
<1> QED
  BY <1>4, <1>5

\* The rate limiter's verdict, and the diagnostic names.
LEMMA LimitInv ==
  ASSUME TypeOK, NEW q \in Queries, QueryInv(q), Throttle(q) \/ Admit(q)
  PROVE  QueryInv(q)' /\ OthersStay(q)
<1>1. query[q].pc \in Past /\ UNCHANGED <<World, seen, lists>>
  BY DEF Throttle, Admit, Past
<1>s. PICK i \in DOMAIN seen[q], j \in DOMAIN seen[q], k \in DOMAIN seen[q], b \in lists[q] :
        i <= j /\ j <= k /\ Settled(q, seen[q][i], seen[q][j], seen[q][k], b)
  BY <1>1, SettledBy
<1>t. /\ query[q].tenant = seen[q][i].tenants[query[q].route]
      /\ RouteOf(seen[q][i], query[q].req.id) = query[q].route
  BY <1>1, <1>s DEF Settled
<1>2. CASE Finish(q, Reply("throttled"))
  BY <1>1, <1>s, <1>t, <1>2, FinishInv, ReplyTypes DEF Results
<1>3. CASE Finish(q, Reply("probe"))
  BY <1>1, <1>s, <1>t, <1>3, FinishInv, ReplyTypes DEF Results
<1>4. CASE Goto(q, "allowlist")
  BY <1>1, <1>s, <1>t, <1>4, GotoInv DEF Past
<1> QED
  BY <1>2, <1>3, <1>4 DEF Throttle, Admit

\* The allowlist of the served snapshot.
LEMMA CheckAllowedInv ==
  ASSUME TypeOK, NEW q \in Queries, QueryInv(q), CheckAllowed(q)
  PROVE  QueryInv(q)' /\ OthersStay(q)
<1>1. query[q].pc \in Past /\ UNCHANGED <<World, seen, lists>> /\ Running(q) /\ SeesServed(q)
  BY DEF CheckAllowed, Past, Running, QueryInv
<1>s. PICK i \in DOMAIN seen[q], j \in DOMAIN seen[q], k \in DOMAIN seen[q], b \in lists[q] :
        i <= j /\ j <= k /\ Settled(q, seen[q][i], seen[q][j], seen[q][k], b)
  BY <1>1, SettledBy
<1>n. PICK n \in DOMAIN seen[q] : seen[q][n] = snap /\ \A x \in DOMAIN seen[q] : x <= n
  BY <1>1, SeenLast
<1>2. /\ query[q].tenant = seen[q][i].tenants[query[q].route]
      /\ RouteOf(seen[q][i], query[q].req.id) = query[q].route
      /\ i <= n /\ n <= n
  BY <1>1, <1>s, <1>n DEF Settled
<1>3. CASE Allowed(snap, query[q].route, query[q].req.name)
  <2>1. Goto(q, "answer") /\ Listed(snap, query[q].route, query[q].req.name)
    BY <1>3, AllowedListed DEF CheckAllowed
  <2> QED
    BY <1>1, <1>n, <1>2, <2>1, GotoInv DEF Past
<1>4. CASE ~Allowed(snap, query[q].route, query[q].req.name)
  <2>1. Goto(q, "override") /\ ~Listed(snap, query[q].route, query[q].req.name)
    BY <1>4, AllowedListed DEF CheckAllowed
  <2> QED
    BY <1>1, <1>n, <1>2, <2>1, GotoInv DEF Past
<1> QED
  BY <1>3, <1>4

\* The overrides of the served snapshot.
LEMMA CheckOverrideInv ==
  ASSUME TypeOK, NEW q \in Queries, QueryInv(q), CheckOverride(q)
  PROVE  QueryInv(q)' /\ OthersStay(q)
<1> DEFINE r == query[q].route
           x == query[q].req.name
<1>1. /\ query[q].pc \in Past /\ UNCHANGED <<World, seen, lists>> /\ Running(q) /\ SeesServed(q)
      /\ query[q].pc = "override"
  BY DEF CheckOverride, Past, Running, QueryInv
<1>s. PICK i \in DOMAIN seen[q], j \in DOMAIN seen[q], k \in DOMAIN seen[q], b \in lists[q] :
        i <= j /\ j <= k /\ Settled(q, seen[q][i], seen[q][j], seen[q][k], b)
  BY <1>1, SettledBy
<1>n. PICK n \in DOMAIN seen[q] : seen[q][n] = snap /\ \A other \in DOMAIN seen[q] : other <= n
  BY <1>1, SeenLast
<1>2. /\ query[q].tenant = seen[q][i].tenants[r] /\ RouteOf(seen[q][i], query[q].req.id) = r
      /\ ~Listed(seen[q][j], r, x)
      /\ i <= j /\ j <= n
  BY <1>1, <1>s, <1>n DEF Settled
<1>4. ASSUME NEW a \in Answers, Override(snap, r, x, a), Finish(q, OverrideWith(a)),
             query[q].req.kind = "address"
      PROVE  QueryInv(q)' /\ OthersStay(q)
  <2>1. a # None
    BY ResolveAssumption
  <2>2. OverrideRight(seen[q][n], r, x, a)
    BY <1>n, <1>4, <2>1, OverrideIsRight
  <2>3. /\ OverrideWith(a) \in Replies /\ OverrideWith(a).result = "overridden"
        /\ OverrideWith(a).addr = a
    BY ReplyTypes
  <2> QED
    BY <1>1, <1>2, <1>4, <2>2, <2>3, FinishInv
<1>5. CASE /\ query[q].req.kind # "address" \/ NoOverride(snap, r, x)
           /\ Goto(q, "blocklist")
  <2>1. ~Overrides(seen[q][n], r, query[q].req)
    BY <1>n, <1>5, NoOverrideRule DEF Overrides
  <2> QED
    BY <1>1, <1>2, <1>5, <2>1, GotoInv DEF Past
<1> QED
  BY <1>4, <1>5 DEF CheckOverride

\* The served blocklist, with the tenant's row of FindTenant.
LEMMA CheckBlockedInv ==
  ASSUME TypeOK, NEW q \in Queries, QueryInv(q), CheckBlocked(q)
  PROVE  QueryInv(q)' /\ OthersStay(q)
<1> DEFINE r == query[q].route
           req == query[q].req
           now == query[q].now
<1>1. /\ query[q].pc \in Past /\ UNCHANGED <<World, seen, lists>> /\ Running(q) /\ SeesServed(q)
      /\ query[q].pc = "blocklist"
  BY DEF CheckBlocked, Past, Running, QueryInv
<1>s. PICK i \in DOMAIN seen[q], j \in DOMAIN seen[q], k \in DOMAIN seen[q], b \in lists[q] :
        i <= j /\ j <= k /\ Settled(q, seen[q][i], seen[q][j], seen[q][k], b)
  BY <1>1, SettledBy
<1>2. block \in lists[q]
  BY <1>1 DEF SeesServed
<1>3. /\ query[q].tenant = seen[q][i].tenants[r] /\ RouteOf(seen[q][i], req.id) = r
      /\ ~Listed(seen[q][j], r, req.name) /\ ~Overrides(seen[q][k], r, req)
      /\ i <= j /\ j <= k
  BY <1>1, <1>s DEF Settled
<1>c. PICK c : c = block
  OBVIOUS
<1>4. CASE Filtering(query[q].tenant, now) /\ Blocked(block, req.name)
  <2>1. Finish(q, Reply("blocked"))
    BY <1>4 DEF CheckBlocked
  <2>2. Filters(seen[q][i], c, r, req, now)
    BY <1>3, <1>4, <1>c, BlockedAbove DEF Filters
  <2> QED
    BY <1>1, <1>2, <1>3, <1>c, <2>1, <2>2, FinishInv, ReplyTypes DEF Results
<1>5. CASE ~(Filtering(query[q].tenant, now) /\ Blocked(block, req.name))
  <2>1. Goto(q, "answer")
    BY <1>5 DEF CheckBlocked
  <2>2. ~Filters(seen[q][i], c, r, req, now)
    BY <1>3, <1>5, <1>c, BlockedAbove DEF Filters
  <2> QED
    BY <1>1, <1>2, <1>3, <1>c, <2>1, <2>2, GotoInv DEF Past
<1> QED
  BY <1>4, <1>5

\* The answer of the cache or of an upstream.
LEMMA AnswerInv ==
  ASSUME TypeOK, NEW q \in Queries, QueryInv(q), RecordPlain(q) \/ AnswerUpstream(q)
  PROVE  QueryInv(q)' /\ OthersStay(q)
<1>1. /\ query[q].pc \in {"answer", "upstream"} /\ query[q].pc \in Past
      /\ UNCHANGED <<World, seen, lists>>
  BY DEF RecordPlain, AnswerUpstream, Past
<1>s. PICK i \in DOMAIN seen[q], j \in DOMAIN seen[q], k \in DOMAIN seen[q], b \in lists[q] :
        i <= j /\ j <= k /\ Settled(q, seen[q][i], seen[q][j], seen[q][k], b)
  BY <1>1, SettledBy
<1>2. /\ query[q].tenant = seen[q][i].tenants[query[q].route]
      /\ RouteOf(seen[q][i], query[q].req.id) = query[q].route
      /\ \/ Listed(seen[q][j], query[q].route, query[q].req.name)
         \/ /\ ~Overrides(seen[q][k], query[q].route, query[q].req)
            /\ ~Filters(seen[q][i], b, query[q].route, query[q].req, query[q].now)
  BY <1>1, <1>s DEF Settled
<1>3. CASE Goto(q, "upstream")
  BY <1>1, <1>s, <1>2, <1>3, GotoInv DEF Past
<1>4. CASE Finish(q, Reply("resolved"))
  BY <1>1, <1>s, <1>2, <1>4, FinishInv, ReplyTypes DEF Results
<1>5. CASE Finish(q, Reply("failed"))
  BY <1>1, <1>s, <1>2, <1>5, FinishInv, ReplyTypes DEF Results
<1> QED
  BY <1>3, <1>4, <1>5 DEF RecordPlain, AnswerUpstream

------------------------------------------------------------------------------
(* Types.                                                                  *)

\* Counting keeps the counters natural numbers.
LEMMA CounterTypes ==
  ASSUME TypeOK
  PROVE  /\ \A x \in Metrics : Counted(x) \in [Metrics -> Nat]
         /\ \A r \in Routes, u \in Usages : Recorded(r, u) \in [Routes -> [Usages -> Nat]]
<1>1. ASSUME NEW x \in Metrics PROVE Counted(x) \in [Metrics -> Nat]
  BY DEF Counted, TypeOK
<1>2. ASSUME NEW r \in Routes, NEW u \in Usages
      PROVE  Recorded(r, u) \in [Routes -> [Usages -> Nat]]
  <2>1. usage[r] \in [Usages -> Nat] /\ usage \in [Routes -> [Usages -> Nat]]
    BY DEF TypeOK
  <2>2. [x \in Usages |-> IF x \in {"queries", u} THEN usage[r][x] + 1 ELSE usage[r][x]]
          \in [Usages -> Nat]
    BY <2>1
  <2> QED
    BY <2>1, <2>2 DEF Recorded
<1> QED
  BY <1>1, <1>2

\* A step of a query changes queries and counters within their types.
LEMMA StepType ==
  ASSUME TypeOK, NEW q \in Queries, QueryInv(q), Step(q)
  PROVE  /\ query' \in [Queries -> QueryType]
         /\ query'[q].pc \in Past => query'[q].route \in Routes /\ query'[q].tenant \in Tenants
         /\ m' \in [Metrics -> Nat] /\ usage' \in [Routes -> [Usages -> Nat]]
<1>m. m \in [Metrics -> Nat] /\ usage \in [Routes -> [Usages -> Nat]]
  BY DEF TypeOK
<1>c. /\ Counted("queries") \in [Metrics -> Nat] /\ Counted("refused") \in [Metrics -> Nat]
      /\ Counted("throttled") \in [Metrics -> Nat] /\ Counted("allowed") \in [Metrics -> Nat]
      /\ Counted("overridden") \in [Metrics -> Nat] /\ Counted("blocked") \in [Metrics -> Nat]
      /\ Counted("cacheHits") \in [Metrics -> Nat] /\ Counted("upstream") \in [Metrics -> Nat]
      /\ Counted("upstreamNG") \in [Metrics -> Nat]
  BY CounterTypes DEF Metrics
<1>a. ASSUME query[q].pc \in Past
      PROVE  /\ query[q].route \in Routes /\ query[q].tenant \in Tenants
             /\ \A u \in {"queries", "blocked", "overridden", "throttled"} :
                  Recorded(query[q].route, u) \in [Routes -> [Usages -> Nat]]
  BY <1>a, CounterTypes DEF TypeOK, Past, PCs, Usages
<1>1. CASE Begin(q)
  <2>1. m' = Counted("queries")
          \/ m' = [m EXCEPT !["queries"] = @ + 1, !["malformed"] = @ + 1]
    BY <1>1 DEF Begin
  <2>2. m' \in [Metrics -> Nat]
    BY <1>m, <1>c, <2>1 DEF Metrics
  <2> QED
    BY <1>1, <1>m, <2>2, BeginInv DEF Begin, Past
<1>2. CASE FindTenant(q)
  <2>1. m' \in [Metrics -> Nat] /\ usage' = usage
    BY <1>2, <1>m, <1>c DEF FindTenant
  <2> QED
    BY <1>2, <1>m, <2>1, FindTenantInv DEF Past
<1>3. ASSUME NEW pc \in PCs, Goto(q, pc), UNCHANGED <<World, seen, lists>>, query[q].pc \in Past
      PROVE  /\ query' \in [Queries -> QueryType]
             /\ query'[q].route \in Routes /\ query'[q].tenant \in Tenants
  BY <1>3, <1>a, GotoFields DEF KeepsFields
<1>4. ASSUME NEW reply \in Replies, Finish(q, reply), UNCHANGED <<World, seen, lists>>
      PROVE  query' \in [Queries -> QueryType] /\ query'[q].pc \notin Past
  BY <1>4, FinishFields DEF Past
<1>5. CASE Throttle(q) \/ Admit(q)
  <2>1. query[q].pc \in Past /\ UNCHANGED <<World, seen, lists>>
    BY <1>5 DEF Throttle, Admit, Past
  <2>2. m' \in [Metrics -> Nat] /\ usage' \in [Routes -> [Usages -> Nat]]
    BY <1>5, <1>m, <1>c, <1>a, <2>1 DEF Throttle, Admit
  <2>3. \/ Goto(q, "allowlist")
        \/ Finish(q, Reply("probe")) \/ Finish(q, Reply("throttled"))
    BY <1>5 DEF Throttle, Admit
  <2>4. Reply("probe") \in Replies /\ Reply("throttled") \in Replies /\ "allowlist" \in PCs
    BY ReplyTypes DEF Results, PCs
  <2> QED
    BY <1>3, <1>4, <2>1, <2>2, <2>3, <2>4
<1>6. CASE CheckAllowed(q)
  <2>1. query[q].pc \in Past /\ UNCHANGED <<World, seen, lists>>
    BY <1>6 DEF CheckAllowed, Past
  <2>2. m' \in [Metrics -> Nat] /\ usage' = usage
    BY <1>6, <1>m, <1>c DEF CheckAllowed
  <2>3. (Goto(q, "answer") \/ Goto(q, "override")) /\ "answer" \in PCs /\ "override" \in PCs
    BY <1>6 DEF CheckAllowed, PCs
  <2> QED
    BY <1>3, <1>m, <2>1, <2>2, <2>3
<1>7. CASE CheckOverride(q)
  <2>1. query[q].pc \in Past /\ UNCHANGED <<World, seen, lists>>
    BY <1>7 DEF CheckOverride, Past
  <2>2. m' \in [Metrics -> Nat] /\ usage' \in [Routes -> [Usages -> Nat]]
    BY <1>7, <1>m, <1>c, <1>a, <2>1 DEF CheckOverride
  <2>3. Goto(q, "blocklist") \/ \E a \in Answers : Finish(q, OverrideWith(a))
    BY <1>7 DEF CheckOverride
  <2>4. "blocklist" \in PCs /\ \A a \in Answers : OverrideWith(a) \in Replies
    BY ReplyTypes DEF PCs
  <2> QED
    BY <1>3, <1>4, <2>1, <2>2, <2>3, <2>4
<1>8. CASE CheckBlocked(q)
  <2>1. query[q].pc \in Past /\ UNCHANGED <<World, seen, lists>>
    BY <1>8 DEF CheckBlocked, Past
  <2>2. m' \in [Metrics -> Nat] /\ usage' \in [Routes -> [Usages -> Nat]]
    BY <1>8, <1>m, <1>c, <1>a, <2>1 DEF CheckBlocked
  <2>3. Goto(q, "answer") \/ Finish(q, Reply("blocked"))
    BY <1>8 DEF CheckBlocked
  <2>4. "answer" \in PCs /\ Reply("blocked") \in Replies
    BY ReplyTypes DEF PCs, Results
  <2> QED
    BY <1>3, <1>4, <2>1, <2>2, <2>3, <2>4
<1>9. CASE RecordPlain(q) \/ AnswerUpstream(q)
  <2>1. query[q].pc \in Past /\ UNCHANGED <<World, seen, lists>>
    BY <1>9 DEF RecordPlain, AnswerUpstream, Past
  <2>2. m' \in [Metrics -> Nat] /\ usage' \in [Routes -> [Usages -> Nat]]
    BY <1>9, <1>m, <1>c, <1>a, <2>1 DEF RecordPlain, AnswerUpstream
  <2>3. \/ Goto(q, "upstream")
        \/ Finish(q, Reply("resolved")) \/ Finish(q, Reply("failed"))
    BY <1>9 DEF RecordPlain, AnswerUpstream
  <2>4. "upstream" \in PCs /\ Reply("resolved") \in Replies /\ Reply("failed") \in Replies
    BY ReplyTypes DEF PCs, Results
  <2> QED
    BY <1>3, <1>4, <2>1, <2>2, <2>3, <2>4
<1> QED
  BY <1>1, <1>2, <1>5, <1>6, <1>7, <1>8, <1>9 DEF Step

\* A step of a query leaves what moves under the queries alone.
LEMMA StepWorld ==
  ASSUME NEW q \in Queries, Step(q)
  PROVE  /\ snap' = snap /\ block' = block /\ clock' = clock /\ reloads' = reloads
         /\ (seen' = seen /\ lists' = lists)
              \/ (seen' = [seen EXCEPT ![q] = <<snap>>] /\ lists' = [lists EXCEPT ![q] = {block}])
  BY DEF Step, World, Begin, FindTenant, Throttle, Admit, CheckAllowed, CheckOverride,
         CheckBlocked, RecordPlain, AnswerUpstream

------------------------------------------------------------------------------
(* The theorems.                                                           *)

\* Nothing has been asked at first.
LEMMA InitIInv == Init => IInv
<1> SUFFICES ASSUME Init PROVE IInv
  OBVIOUS
<1>1. Fresh \in QueryType /\ Fresh.pc = "waiting"
  BY ResolveAssumption DEF Fresh, QueryType, PCs
<1>2. query \in [Queries -> QueryType] /\ \A q \in Queries : query[q].pc = "waiting"
  BY <1>1 DEF Init
<1>3. TypeOK
  <2>1. m \in [Metrics -> Nat] /\ usage \in [Routes -> [Usages -> Nat]]
    BY DEF Init
  <2>2. clock \in 0..MaxClock /\ reloads \in 0..MaxReloads
    BY ResolveAssumption DEF Init
  <2>3. seen \in [Queries -> Seq(Snapshots)] /\ lists \in [Queries -> SUBSET Lists]
    BY DEF Init
  <2> QED
    BY <1>2, <2>1, <2>2, <2>3 DEF Init, TypeOK, QueryType
<1>4. ASSUME NEW q \in Queries PROVE QueryInv(q)
  <2>1. SeesServed(q) /\ Entitled(q)
    BY <1>2 DEF SeesServed, Entitled, Running, Done, Past
  <2>3. Decided(q)
    BY <1>2 DEF Decided, Past
  <2> QED
    BY <2>1, <2>3 DEF QueryInv
<1> QED
  BY <1>3, <1>4 DEF IInv

\* A step of a query keeps the invariant.
LEMMA StepIInv ==
  ASSUME IInv, NEW q \in Queries, Step(q)
  PROVE  IInv'
<1>1. TypeOK /\ QueryInv(q) /\ \A p \in Queries : QueryInv(p)
  BY DEF IInv
<1>2. QueryInv(q)' /\ OthersStay(q)
  BY <1>1, BeginInv, FindTenantInv, LimitInv, CheckAllowedInv, CheckOverrideInv,
     CheckBlockedInv, AnswerInv DEF Step
<1>3. \A p \in Queries : QueryInv(p)'
  BY <1>1, <1>2, Frame
<1>4. TypeOK'
  <2>1. /\ query' \in [Queries -> QueryType]
        /\ query'[q].pc \in Past => query'[q].route \in Routes /\ query'[q].tenant \in Tenants
        /\ m' \in [Metrics -> Nat] /\ usage' \in [Routes -> [Usages -> Nat]]
    BY <1>1, StepType
  <2>2. /\ snap' \in Snapshots /\ block' \in Lists
        /\ clock' \in 0..MaxClock /\ reloads' \in 0..MaxReloads
    BY <1>1, StepWorld DEF TypeOK
  <2>3. seen' \in [Queries -> Seq(Snapshots)] /\ lists' \in [Queries -> SUBSET Lists]
    <3>1. <<snap>> \in Seq(Snapshots) /\ {block} \in SUBSET Lists
      BY <1>1 DEF TypeOK
    <3> QED
      BY <1>1, <3>1, StepWorld DEF TypeOK
  <2>4. \A p \in Queries :
          query'[p].pc \in PCs \ {"waiting", "tenant", "done"}
            => query'[p].route \in Routes /\ query'[p].tenant \in Tenants
    BY <1>1, <1>2, <2>1 DEF OthersStay, TypeOK, Past, PCs
  <2> QED
    BY <2>1, <2>2, <2>3, <2>4 DEF TypeOK, QueryType
<1> QED
  BY <1>3, <1>4 DEF IInv

\* A reload and the clock keep it: a query that runs sees one snapshot or one
\* list more, and what decided the steps behind it is still among them.
LEMMA WorldIInv ==
  ASSUME IInv, SwapSnapshot \/ SwapLists \/ PassTime \/ UNCHANGED vars
  PROVE  IInv'
<1>1. TypeOK /\ \A q \in Queries : SeesServed(q) /\ Entitled(q) /\ Decided(q)
  BY DEF IInv, QueryInv
<1>2. query' = query /\ m' = m /\ usage' = usage
  BY DEF SwapSnapshot, SwapLists, PassTime, vars
<1>3. TypeOK'
  <2>1. /\ snap' \in Snapshots /\ block' \in Lists
        /\ clock' \in 0..MaxClock /\ reloads' \in 0..MaxReloads
    BY <1>1, ResolveAssumption DEF SwapSnapshot, SwapLists, PassTime, vars, TypeOK
  <2>2. seen' \in [Queries -> Seq(Snapshots)] /\ lists' \in [Queries -> SUBSET Lists]
    <3>1. seen \in [Queries -> Seq(Snapshots)] /\ lists \in [Queries -> SUBSET Lists]
      BY <1>1 DEF TypeOK
    <3>2. CASE SwapSnapshot
      <4>1. PICK s \in Snapshots :
              seen' = [q \in Queries |-> IF Running(q) THEN Append(seen[q], s) ELSE seen[q]]
        BY <3>2 DEF SwapSnapshot
      <4>2. \A q \in Queries : Append(seen[q], s) \in Seq(Snapshots)
        BY <3>1
      <4> QED
        BY <3>1, <3>2, <4>1, <4>2 DEF SwapSnapshot
    <3>3. CASE SwapLists
      BY <3>1, <3>3 DEF SwapLists
    <3>4. CASE PassTime \/ UNCHANGED vars
      BY <3>1, <3>4 DEF PassTime, vars
    <3> QED
      BY <3>2, <3>3, <3>4
  <2> QED
    BY <1>1, <1>2, <2>1, <2>2 DEF TypeOK
<1>4. ASSUME NEW q \in Queries PROVE QueryInv(q)'
  <2>1. /\ seen[q] \in Seq(Snapshots) /\ lists[q] \subseteq lists'[q]
        /\ Running(q) => block' \in lists'[q]
        /\ \/ seen'[q] = seen[q] /\ (Running(q) => snap' = snap)
           \/ seen'[q] = Append(seen[q], snap') /\ snap' \in Snapshots
    <3>1. seen[q] \in Seq(Snapshots) /\ lists \in [Queries -> SUBSET Lists]
      BY <1>1 DEF TypeOK
    <3>2. CASE SwapSnapshot
      <4>1. PICK s \in Snapshots : /\ snap' = s
                                  /\ seen' = [p \in Queries |->
                                       IF Running(p) THEN Append(seen[p], s) ELSE seen[p]]
        BY <3>2 DEF SwapSnapshot
      <4> QED
        BY <1>1, <3>1, <3>2, <4>1 DEF SwapSnapshot, SeesServed
    <3>3. CASE SwapLists
      BY <3>1, <3>3 DEF SwapLists
    <3>4. CASE PassTime \/ UNCHANGED vars
      BY <1>1, <3>1, <3>4 DEF PassTime, vars, SeesServed
    <3> QED
      BY <3>2, <3>3, <3>4
  <2>2. /\ DOMAIN seen[q] \subseteq DOMAIN seen'[q]
        /\ \A i \in DOMAIN seen[q] : seen'[q][i] = seen[q][i]
        /\ Running(q) => seen'[q] # <<>> /\ seen'[q][Len(seen'[q])] = snap'
    BY <1>1, <2>1 DEF SeesServed
  <2>3. SeesServed(q)'
    BY <1>1, <1>2, <2>1, <2>2 DEF SeesServed, Running
  <2>4. Entitled(q)'
    BY <1>1, <1>2, <2>2 DEF Entitled, EntitledIn, Done
  <2>5. Decided(q)'
    <3>1. SUFFICES ASSUME query[q].pc \in Past \cup {"done"} PROVE Decided(q)'
      BY <1>2 DEF Decided
    <3>2. PICK i \in DOMAIN seen[q], j \in DOMAIN seen[q], k \in DOMAIN seen[q], b \in lists[q] :
            /\ i <= j /\ j <= k
            /\ Settled(q, seen[q][i], seen[q][j], seen[q][k], b)
            /\ AsDecided(q, seen[q][i], seen[q][j], seen[q][k], b)
      BY <1>1, <3>1 DEF Decided
    <3>3. /\ Settled(q, seen[q][i], seen[q][j], seen[q][k], b)'
          /\ AsDecided(q, seen[q][i], seen[q][j], seen[q][k], b)'
      BY <1>2, <2>2, <3>2 DEF Settled, AsDecided, Done
    <3> QED
      BY <2>1, <2>2, <3>2, <3>3 DEF Decided
  <2> QED
    BY <2>3, <2>4, <2>5 DEF QueryInv
<1> QED
  BY <1>3, <1>4 DEF IInv

\* The invariant is inductive.
LEMMA Invariance == Spec => []IInv
<1>1. IInv /\ [Next]_vars => IInv'
  BY StepIInv, WorldIInv DEF Next
<1> QED
  BY <1>1, InitIInv, PTL DEF Spec

\* Queries and counters keep their types; past FindTenant a query has a tenant.
THEOREM TypeCorrect == Spec => []TypeOK
<1>1. IInv => TypeOK
  BY DEF IInv
<1> QED
  BY <1>1, Invariance, PTL

\* Nobody is answered but the clients of tenants that were active.
THEOREM OnlyActiveTenantsServed == Spec => []AnsweredOnlyIfActive
<1>1. IInv => AnsweredOnlyIfActive
  BY DEF IInv, QueryInv, Entitled, AnsweredOnlyIfActive
<1> QED
  BY <1>1, Invariance, PTL

\* However reloads fall into a query, each of its checks is decided by a
\* snapshot served while it ran, none older than the check before it had.
THEOREM PolicyDecides == Spec => []AnswersAsDecided
<1>1. IInv => AnswersAsDecided
  BY DEF IInv, QueryInv, Decided, AnswersAsDecided
<1> QED
  BY <1>1, Invariance, PTL

------------------------------------------------------------------------------
(* Counting.                                                               *)

\* A query in state s has been counted for route r under u.
UsageOf(s, r, u) ==
  /\ s.route = r
  /\ IF u = "queries"
     THEN s.pc = "upstream" \/ (s.pc = "done" /\ s.reply.result \in Results \ {"malformed", "refused"})
     ELSE s.pc = "done" /\ s.reply.result = u

\* The metrics that are counted per query; hits and upstream answers together.
Totals == {"queries", "malformed", "refused", "throttled", "overridden", "blocked",
           "resolved", "failed"}
Total(x) == CASE x = "resolved" -> m["cacheHits"] + m["upstream"]
              [] x = "failed"   -> m["upstreamNG"]
              [] OTHER          -> m[x]

\* A query in state s has been counted under x.
MetricOf(s, x) == IF x = "queries" THEN s.pc # "waiting" ELSE s.pc = "done" /\ s.reply.result = x

Counts ==
  /\ \A r \in Routes, u \in Usages :
       usage[r][u] = Cardinality({q \in Queries : UsageOf(query[q], r, u)})
  /\ \A x \in Totals : Total(x) = Cardinality({q \in Queries : MetricOf(query[q], x)})

Gained(before, after) == IF after /\ ~ before THEN 1 ELSE 0

\* A step of q counts what becomes of q, and nothing else.
CountsStep(q) ==
  /\ \A p \in Queries \ {q} : query'[p] = query[p]
  /\ \A r \in Routes, u \in Usages :
       /\ UsageOf(query[q], r, u) => UsageOf(query'[q], r, u)
       /\ usage'[r][u] = usage[r][u] + Gained(UsageOf(query[q], r, u), UsageOf(query'[q], r, u))
  /\ \A x \in Totals :
       /\ MetricOf(query[q], x) => MetricOf(query'[q], x)
       /\ Total(x)' = Total(x) + Gained(MetricOf(query[q], x), MetricOf(query'[q], x))

\* A set of queries that q joins has one member more.
LEMMA OneJoins ==
  ASSUME NEW A \in SUBSET Queries, NEW B \in SUBSET Queries, NEW q \in Queries,
         \A p \in Queries \ {q} : p \in A <=> p \in B, q \in A => q \in B
  PROVE  /\ Cardinality(A) \in Nat
         /\ Cardinality(B) = Cardinality(A) + Gained(q \in A, q \in B)
<1>1. IsFiniteSet(A)
  BY FS_Subset, ResolveAssumption
<1>2. Cardinality(A) \in Nat
  BY <1>1, FS_CardinalityType
<1>3. CASE q \in B /\ q \notin A
  <2>1. B = A \cup {q}
    BY <1>3
  <2> QED
    BY <2>1, <1>1, <1>2, <1>3, FS_AddElement DEF Gained
<1>4. CASE ~ (q \in B /\ q \notin A)
  <2>1. B = A
    BY <1>4
  <2> QED
    BY <2>1, <1>2, <1>4 DEF Gained
<1> QED
  BY <1>2, <1>3, <1>4

\* So the counters keep up with the queries.
LEMMA CountsKept ==
  ASSUME Counts, NEW q \in Queries, CountsStep(q)
  PROVE  Counts'
<1>1. \A p \in Queries \ {q} : query'[p] = query[p]
  BY DEF CountsStep
<1>2. ASSUME NEW r \in Routes, NEW u \in Usages
      PROVE  usage'[r][u] = Cardinality({p \in Queries : UsageOf(query'[p], r, u)})
  <2> DEFINE A == {p \in Queries : UsageOf(query[p], r, u)}
             B == {p \in Queries : UsageOf(query'[p], r, u)}
  <2>1. /\ \A p \in Queries \ {q} : p \in A <=> p \in B
        /\ q \in A <=> UsageOf(query[q], r, u)
        /\ q \in B <=> UsageOf(query'[q], r, u)
    BY <1>1
  <2>2. /\ UsageOf(query[q], r, u) => UsageOf(query'[q], r, u)
        /\ usage'[r][u] = usage[r][u] + Gained(UsageOf(query[q], r, u), UsageOf(query'[q], r, u))
        /\ usage[r][u] = Cardinality(A)
    BY DEF CountsStep, Counts
  <2>3. A \in SUBSET Queries /\ B \in SUBSET Queries
    OBVIOUS
  <2> HIDE DEF A, B
  <2>4. Cardinality(B) = Cardinality(A) + Gained(q \in A, q \in B)
    BY <2>1, <2>2, <2>3, OneJoins
  <2>5. usage'[r][u] = Cardinality(B)
    BY <2>1, <2>2, <2>4 DEF Gained
  <2> QED
    BY <2>5 DEF B
<1>3. ASSUME NEW x \in Totals
      PROVE  Total(x)' = Cardinality({p \in Queries : MetricOf(query'[p], x)})
  <2> DEFINE A == {p \in Queries : MetricOf(query[p], x)}
             B == {p \in Queries : MetricOf(query'[p], x)}
  <2>1. /\ \A p \in Queries \ {q} : p \in A <=> p \in B
        /\ q \in A <=> MetricOf(query[q], x)
        /\ q \in B <=> MetricOf(query'[q], x)
    BY <1>1
  <2>2. /\ MetricOf(query[q], x) => MetricOf(query'[q], x)
        /\ Total(x)' = Total(x) + Gained(MetricOf(query[q], x), MetricOf(query'[q], x))
        /\ Total(x) = Cardinality(A)
    BY DEF CountsStep, Counts
  <2>3. A \in SUBSET Queries /\ B \in SUBSET Queries
    OBVIOUS
  <2> HIDE DEF A, B
  <2>4. Cardinality(B) = Cardinality(A) + Gained(q \in A, q \in B)
    BY <2>1, <2>2, <2>3, OneJoins
  <2>5. Total(x)' = Cardinality(B)
    BY <2>1, <2>2, <2>4 DEF Gained
  <2> QED
    BY <2>5 DEF B
<1> QED
  BY <1>2, <1>3 DEF Counts

\* What Record and the metrics add.
LEMMA RecordedAdds ==
  ASSUME TypeOK, NEW o \in Routes, NEW v \in Usages, usage' = Recorded(o, v)
  PROVE  \A r \in Routes, u \in Usages :
           usage'[r][u] = usage[r][u] + (IF r = o /\ u \in {"queries", v} THEN 1 ELSE 0)
<1> SUFFICES ASSUME NEW r \in Routes, NEW u \in Usages
             PROVE usage'[r][u] = usage[r][u] + (IF r = o /\ u \in {"queries", v} THEN 1 ELSE 0)
  OBVIOUS
<1>1. usage \in [Routes -> [Usages -> Nat]] /\ usage[r][u] \in Nat
  BY DEF TypeOK
<1>2. usage' = [usage EXCEPT ![o] =
        [x \in Usages |-> IF x \in {"queries", v} THEN usage[o][x] + 1 ELSE usage[o][x]]]
  BY DEF Recorded
<1>3. CASE r = o
  BY <1>1, <1>2, <1>3
<1>4. CASE r # o
  BY <1>1, <1>2, <1>4
<1> QED
  BY <1>3, <1>4

LEMMA UsageKept ==
  ASSUME TypeOK, UNCHANGED usage
  PROVE  \A r \in Routes, u \in Usages : usage'[r][u] = usage[r][u] + 0
  BY DEF TypeOK

\* The metric under which a step of Resolve counts y.
TotalFor(y) == CASE y \in {"cacheHits", "upstream"} -> "resolved"
                 [] y = "upstreamNG"                -> "failed"
                 [] OTHER                           -> y

LEMMA CountedAdds ==
  ASSUME TypeOK, NEW y \in Metrics, m' = Counted(y)
  PROVE  \A x \in Totals : Total(x)' = Total(x) + (IF x = TotalFor(y) THEN 1 ELSE 0)
<1>1. m \in [Metrics -> Nat] /\ m' = [m EXCEPT ![y] = m[y] + 1]
  BY DEF TypeOK, Counted
<1>2. \A x \in Metrics : m[x] \in Nat /\ m'[x] = m[x] + (IF x = y THEN 1 ELSE 0)
  BY <1>1
<1> SUFFICES ASSUME NEW x \in Totals
             PROVE Total(x)' = Total(x) + (IF x = TotalFor(y) THEN 1 ELSE 0)
  OBVIOUS
<1>3. CASE x = "resolved"
  BY <1>2, <1>3 DEF Total, TotalFor, Metrics
<1>4. CASE x = "failed"
  BY <1>2, <1>4 DEF Total, TotalFor, Metrics
<1>5. CASE x \in {"queries", "malformed", "refused", "throttled", "overridden", "blocked"}
  BY <1>2, <1>5 DEF Total, TotalFor, Metrics
<1> QED
  BY <1>3, <1>4, <1>5 DEF Totals

LEMMA MetricsKept ==
  ASSUME TypeOK, UNCHANGED m
  PROVE  \A x \in Totals : Total(x)' = Total(x) + 0
<1>1. \A x \in Metrics : m[x] \in Nat
  BY DEF TypeOK
<1> QED
  BY <1>1 DEF Total, Totals, Metrics

\* A query that goes on to a place before its answer is recorded is counted
\* under nothing new, and one that had not been recorded under nothing yet.
LEMMA GotoCounts ==
  ASSUME TypeOK, NEW q \in Queries, query[q].pc \in PCs \ {"waiting", "upstream", "done"},
         NEW pc \in PCs \ {"waiting", "upstream", "done"}, Goto(q, pc),
         UNCHANGED <<World, seen, lists>>, usage' = usage,
         \A x \in Totals : Total(x)' = Total(x) + 0
  PROVE  CountsStep(q)
<1>1. /\ query'[q].pc = pc /\ KeepsFields(q) /\ OthersStay(q)
  BY GotoFields
<1>2. \A r \in Routes, u \in Usages :
        ~ UsageOf(query[q], r, u) /\ ~ UsageOf(query'[q], r, u)
  BY <1>1 DEF UsageOf
<1>3. \A x \in Totals : MetricOf(query[q], x) <=> MetricOf(query'[q], x)
  BY <1>1 DEF MetricOf
<1>4. \A r \in Routes, u \in Usages : usage'[r][u] = usage[r][u] + 0
  BY UsageKept
<1> QED
  BY <1>1, <1>2, <1>3, <1>4 DEF CountsStep, Gained, OthersStay

\* A query that is answered is counted under its result, and recorded for its
\* route if the route is told.
LEMMA FinishCounts ==
  ASSUME TypeOK, NEW q \in Queries, query[q].pc \in PCs \ {"waiting", "upstream", "done"},
         NEW reply \in Replies, Finish(q, reply), UNCHANGED <<World, seen, lists>>,
         \A r \in Routes, u \in Usages :
           usage'[r][u] = usage[r][u]
             + (IF r = query[q].route /\ u \in {"queries", reply.result}
                   /\ reply.result \notin {"malformed", "refused"} THEN 1 ELSE 0),
         \A x \in Totals : Total(x)' = Total(x) + (IF x = reply.result THEN 1 ELSE 0),
         reply.result # "queries"
  PROVE  CountsStep(q)
<1>1. /\ query'[q].pc = "done" /\ query'[q].reply = reply /\ KeepsFields(q) /\ OthersStay(q)
  BY FinishFields
<1>2. reply.result \in Results
  BY DEF Replies
<1>3. ASSUME NEW r \in Routes, NEW u \in Usages
      PROVE  /\ ~ UsageOf(query[q], r, u)
             /\ UsageOf(query'[q], r, u) <=>
                  /\ r = query[q].route /\ u \in {"queries", reply.result}
                  /\ reply.result \notin {"malformed", "refused"}
  <2>1. ~ UsageOf(query[q], r, u)
    BY DEF UsageOf
  <2>2. query'[q].route = query[q].route
    BY <1>1 DEF KeepsFields
  <2> QED
    BY <2>1, <2>2, <1>1, <1>2 DEF UsageOf, Usages
<1>4. ASSUME NEW x \in Totals
      PROVE  /\ MetricOf(query[q], x) <=> x = "queries"
             /\ MetricOf(query'[q], x) <=> x \in {"queries", reply.result}
  BY <1>1 DEF MetricOf
<1> QED
  BY <1>1, <1>3, <1>4 DEF CountsStep, Gained, OthersStay

\* A query is counted when it arrives, and once more if it is malformed.
LEMMA BeginCounts ==
  ASSUME TypeOK, NEW q \in Queries, Begin(q)
  PROVE  CountsStep(q)
<1>1. query[q].pc = "waiting" /\ usage' = usage /\ query \in [Queries -> QueryType]
  BY DEF Begin, TypeOK, QueryType
<1>2. \A r \in Routes, u \in Usages : usage'[r][u] = usage[r][u] + 0 /\ ~ UsageOf(query[q], r, u)
  BY <1>1, UsageKept DEF UsageOf
<1>3. \A x \in Totals : ~ MetricOf(query[q], x)
  BY <1>1 DEF MetricOf
<1>4. m \in [Metrics -> Nat]
  BY DEF TypeOK
<1>5. PICK req \in Requests :
        IF req.kind = "malformed"
        THEN /\ query' = [query EXCEPT ![q].pc = "done", ![q].req = req, ![q].now = clock,
                                       ![q].reply = Reply("malformed")]
             /\ m' = [m EXCEPT !["queries"] = @ + 1, !["malformed"] = @ + 1]
        ELSE /\ query' = [query EXCEPT ![q].pc = "tenant", ![q].req = req, ![q].now = clock]
             /\ m' = Counted("queries")
  BY DEF Begin
<1>6. \A p \in Queries \ {q} : query'[p] = query[p]
  BY <1>1, <1>5
<1>7. CASE req.kind = "malformed"
  <2>1. query'[q] = [query[q] EXCEPT !.pc = "done", !.req = req, !.now = clock,
                                     !.reply = Reply("malformed")] /\ query[q] \in QueryType
    BY <1>1, <1>5, <1>7
  <2>2. query'[q].pc = "done" /\ query'[q].reply = Reply("malformed")
    BY <2>1 DEF QueryType
  <2>3. Reply("malformed").result = "malformed"
    BY DEF Reply
  <2>4. \A r \in Routes, u \in Usages : ~ UsageOf(query'[q], r, u)
    BY <2>2, <2>3 DEF UsageOf, Usages
  <2>5. \A x \in Totals : MetricOf(query'[q], x) <=> x \in {"queries", "malformed"}
    BY <2>2, <2>3 DEF MetricOf
  <2>6. \A x \in Metrics : /\ m[x] \in Nat
                           /\ m'[x] = m[x] + (IF x \in {"queries", "malformed"} THEN 1 ELSE 0)
    BY <1>4, <1>5, <1>7 DEF Metrics
  <2>7. \A x \in Totals : Total(x)' = Total(x) + (IF x \in {"queries", "malformed"} THEN 1 ELSE 0)
    BY <2>6 DEF Total, Totals, Metrics
  <2> QED
    BY <1>2, <1>3, <1>6, <2>4, <2>5, <2>7 DEF CountsStep, Gained
<1>8. CASE req.kind # "malformed"
  <2>1. query'[q] = [query[q] EXCEPT !.pc = "tenant", !.req = req, !.now = clock]
          /\ query[q] \in QueryType
    BY <1>1, <1>5, <1>8
  <2>2. query'[q].pc = "tenant"
    BY <2>1 DEF QueryType
  <2>3. \A r \in Routes, u \in Usages : ~ UsageOf(query'[q], r, u)
    BY <2>2 DEF UsageOf
  <2>4. \A x \in Totals : MetricOf(query'[q], x) <=> x = "queries"
    BY <2>2 DEF MetricOf
  <2>5. \A x \in Totals : Total(x)' = Total(x) + (IF x = "queries" THEN 1 ELSE 0)
    BY <1>5, <1>8, CountedAdds DEF Metrics, TotalFor
  <2> QED
    BY <1>2, <1>3, <1>6, <2>3, <2>4, <2>5 DEF CountsStep, Gained
<1> QED
  BY <1>7, <1>8

\* A plain reply is a reply of the result it was made for.
LEMMA ReplyResult == \A x \in Results : Reply(x) \in Replies /\ Reply(x).result = x
  BY ReplyTypes

\* A refusal is counted, and recorded for nobody.
LEMMA FindTenantCounts ==
  ASSUME TypeOK, NEW q \in Queries, FindTenant(q)
  PROVE  CountsStep(q)
<1>1. query[q].pc = "tenant" /\ UNCHANGED <<World, usage, seen, lists>>
  BY DEF FindTenant
<1>2. \A r \in Routes, u \in Usages : usage'[r][u] = usage[r][u] + 0
  BY <1>1, UsageKept
<1>3. CASE Finish(q, Reply("refused")) /\ m' = Counted("refused")
  <2>1. \A x \in Totals : Total(x)' = Total(x) + (IF x = "refused" THEN 1 ELSE 0)
    BY <1>3, CountedAdds DEF Metrics, TotalFor
  <2>2. Reply("refused") \in Replies /\ Reply("refused").result = "refused"
    BY ReplyResult DEF Results
  <2> QED
    BY <1>1, <1>2, <1>3, <2>1, <2>2, FinishCounts DEF PCs
<1>4. ASSUME NEW r, NEW t,
             query' = [query EXCEPT ![q].pc = "limit", ![q].route = r, ![q].tenant = t],
             UNCHANGED m
      PROVE  CountsStep(q)
  <2>1. query \in [Queries -> QueryType]
    BY DEF TypeOK, QueryType
  <2>2. \A p \in Queries \ {q} : query'[p] = query[p]
    BY <1>4, <2>1
  <2>3. query'[q] = [query[q] EXCEPT !.pc = "limit", !.route = r, !.tenant = t] /\ query[q] \in QueryType
    BY <1>4, <2>1
  <2>4. query'[q].pc = "limit"
    BY <2>3 DEF QueryType
  <2>5. \A o \in Routes, u \in Usages : ~ UsageOf(query[q], o, u) /\ ~ UsageOf(query'[q], o, u)
    BY <1>1, <2>4 DEF UsageOf
  <2>6. \A x \in Totals : MetricOf(query[q], x) <=> MetricOf(query'[q], x)
    BY <1>1, <2>4 DEF MetricOf
  <2>7. \A x \in Totals : Total(x)' = Total(x) + 0
    BY <1>4, MetricsKept
  <2> QED
    BY <1>2, <2>2, <2>5, <2>6, <2>7 DEF CountsStep, Gained
<1> QED
  BY <1>3, <1>4 DEF FindTenant

\* The rate limiter's verdict and the diagnostic names.
LEMMA LimitCounts ==
  ASSUME TypeOK, NEW q \in Queries, Throttle(q) \/ Admit(q)
  PROVE  CountsStep(q)
<1>1. query[q].pc = "limit" /\ UNCHANGED <<World, seen, lists>> /\ query[q].route \in Routes
  BY DEF Throttle, Admit, TypeOK, PCs
<1>2. CASE Throttle(q)
  <2>1. /\ Finish(q, Reply("throttled"))
        /\ m' = Counted("throttled") /\ usage' = Recorded(query[q].route, "throttled")
    BY <1>2 DEF Throttle
  <2>2. \A x \in Totals : Total(x)' = Total(x) + (IF x = "throttled" THEN 1 ELSE 0)
    BY <2>1, CountedAdds DEF Metrics, TotalFor
  <2>3. \A r \in Routes, u \in Usages :
          usage'[r][u] = usage[r][u] + (IF r = query[q].route /\ u \in {"queries", "throttled"} THEN 1 ELSE 0)
    BY <1>1, <2>1, RecordedAdds DEF Usages
  <2>4. Reply("throttled") \in Replies /\ Reply("throttled").result = "throttled"
    BY ReplyResult DEF Results
  <2> QED
    BY <1>1, <2>1, <2>2, <2>3, <2>4, FinishCounts DEF PCs
<1>3. CASE Admit(q) /\ query[q].req.kind = "probe"
  <2>1. /\ Finish(q, Reply("probe"))
        /\ UNCHANGED m /\ usage' = Recorded(query[q].route, "queries")
    BY <1>3 DEF Admit
  <2>2. \A x \in Totals : Total(x)' = Total(x) + (IF x = "probe" THEN 1 ELSE 0)
    BY <2>1, MetricsKept DEF Totals
  <2>3. \A r \in Routes, u \in Usages :
          usage'[r][u] = usage[r][u] + (IF r = query[q].route /\ u \in {"queries", "probe"} THEN 1 ELSE 0)
    BY <1>1, <2>1, RecordedAdds DEF Usages
  <2>4. Reply("probe") \in Replies /\ Reply("probe").result = "probe"
    BY ReplyResult DEF Results
  <2> QED
    BY <1>1, <2>1, <2>2, <2>3, <2>4, FinishCounts DEF PCs
<1>4. CASE Admit(q) /\ query[q].req.kind # "probe"
  <2>1. Goto(q, "allowlist") /\ UNCHANGED <<m, usage>>
    BY <1>4 DEF Admit
  <2> QED
    BY <1>1, <2>1, GotoCounts, MetricsKept DEF PCs
<1> QED
  BY <1>2, <1>3, <1>4

\* The allowlist counts a metric of its own.
LEMMA CheckAllowedCounts ==
  ASSUME TypeOK, NEW q \in Queries, CheckAllowed(q)
  PROVE  CountsStep(q)
<1>1. query[q].pc = "allowlist" /\ UNCHANGED <<World, usage, seen, lists>>
  BY DEF CheckAllowed
<1>2. \A x \in Totals : Total(x)' = Total(x) + 0
  <2>1. m' = Counted("allowed") \/ UNCHANGED m
    BY DEF CheckAllowed
  <2>2. ASSUME m' = Counted("allowed")
        PROVE  \A x \in Totals : Total(x)' = Total(x) + 0
    BY <2>2, CountedAdds DEF Metrics, TotalFor, Totals
  <2> QED
    BY <2>1, <2>2, MetricsKept
<1>3. Goto(q, "answer") \/ Goto(q, "override")
  BY DEF CheckAllowed
<1> QED
  BY <1>1, <1>2, <1>3, GotoCounts DEF PCs

\* An override is counted if it answers, and a blocked name.
LEMMA VerdictCounts ==
  ASSUME TypeOK, NEW q \in Queries, CheckOverride(q) \/ CheckBlocked(q)
  PROVE  CountsStep(q)
<1>1. /\ query[q].pc \in {"override", "blocklist"} /\ UNCHANGED <<World, seen, lists>>
      /\ query[q].route \in Routes
  BY DEF CheckOverride, CheckBlocked, TypeOK, PCs
<1>2. ASSUME NEW reply \in Replies, NEW res \in {"overridden", "blocked"}, reply.result = res,
             Finish(q, reply), m' = Counted(res), usage' = Recorded(query[q].route, res)
      PROVE  CountsStep(q)
  <2>1. \A x \in Totals : Total(x)' = Total(x) + (IF x = res THEN 1 ELSE 0)
    BY <1>2, CountedAdds DEF Metrics, TotalFor
  <2>2. \A r \in Routes, u \in Usages :
          usage'[r][u] = usage[r][u] + (IF r = query[q].route /\ u \in {"queries", res} THEN 1 ELSE 0)
    BY <1>1, <1>2, RecordedAdds DEF Usages
  <2> QED
    BY <1>1, <1>2, <2>1, <2>2, FinishCounts DEF PCs
<1>3. CASE \E a \in Answers : /\ Finish(q, OverrideWith(a)) /\ m' = Counted("overridden")
                              /\ usage' = Recorded(query[q].route, "overridden")
  BY <1>2, <1>3, ReplyTypes
<1>4. CASE /\ Finish(q, Reply("blocked")) /\ m' = Counted("blocked")
           /\ usage' = Recorded(query[q].route, "blocked")
  <2>1. Reply("blocked") \in Replies /\ Reply("blocked").result = "blocked"
    BY ReplyResult DEF Results
  <2> QED
    BY <1>2, <1>4, <2>1
<1>5. CASE (Goto(q, "blocklist") \/ Goto(q, "answer")) /\ UNCHANGED <<m, usage>>
  BY <1>1, <1>5, GotoCounts, MetricsKept DEF PCs
<1> QED
  BY <1>3, <1>4, <1>5 DEF CheckOverride, CheckBlocked

\* A query that passes is recorded before it is answered, and then counted.
LEMMA PlainCounts ==
  ASSUME TypeOK, NEW q \in Queries, RecordPlain(q) \/ AnswerUpstream(q)
  PROVE  CountsStep(q)
<1>1. query[q].route \in Routes /\ UNCHANGED <<World, seen, lists>>
  BY DEF RecordPlain, AnswerUpstream, TypeOK, PCs
<1>2. CASE RecordPlain(q)
  <2>1. /\ query[q].pc = "answer" /\ Goto(q, "upstream") /\ UNCHANGED m
        /\ usage' = Recorded(query[q].route, "queries")
    BY <1>2 DEF RecordPlain
  <2>2. /\ query'[q].pc = "upstream" /\ KeepsFields(q) /\ OthersStay(q)
    BY <1>1, <2>1, GotoFields DEF PCs
  <2>3. \A r \in Routes, u \in Usages :
          usage'[r][u] = usage[r][u] + (IF r = query[q].route /\ u = "queries" THEN 1 ELSE 0)
    BY <1>1, <2>1, RecordedAdds DEF Usages
  <2>4. \A r \in Routes, u \in Usages :
          /\ ~ UsageOf(query[q], r, u)
          /\ UsageOf(query'[q], r, u) <=> r = query[q].route /\ u = "queries"
    BY <2>1, <2>2 DEF UsageOf, KeepsFields
  <2>5. \A x \in Totals : MetricOf(query[q], x) <=> MetricOf(query'[q], x)
    BY <2>1, <2>2 DEF MetricOf
  <2>6. \A x \in Totals : Total(x)' = Total(x) + 0
    BY <2>1, MetricsKept
  <2> QED
    BY <2>2, <2>3, <2>4, <2>5, <2>6 DEF CountsStep, Gained, OthersStay
<1>3. CASE AnswerUpstream(q)
  <2>1. query[q].pc = "upstream" /\ UNCHANGED usage
    BY <1>3 DEF AnswerUpstream
  <2>2. PICK res \in {"resolved", "failed"}, y \in {"cacheHits", "upstream", "upstreamNG"} :
          Finish(q, Reply(res)) /\ m' = Counted(y) /\ TotalFor(y) = res
    BY <1>3 DEF AnswerUpstream, TotalFor
  <2>3. Reply(res) \in Replies /\ Reply(res).result = res
    BY ReplyResult DEF Results
  <2>4. query'[q].pc = "done" /\ query'[q].reply.result = res /\ KeepsFields(q) /\ OthersStay(q)
    BY <1>1, <2>2, <2>3, FinishFields
  <2>5. \A x \in Totals : Total(x)' = Total(x) + (IF x = res THEN 1 ELSE 0)
    BY <2>2, CountedAdds DEF Metrics
  <2>6. \A r \in Routes, u \in Usages : usage'[r][u] = usage[r][u] + 0
    BY <2>1, UsageKept
  <2>7. \A r \in Routes, u \in Usages : UsageOf(query[q], r, u) <=> UsageOf(query'[q], r, u)
    BY <2>1, <2>4 DEF UsageOf, Usages, Results, KeepsFields
  <2>8. \A x \in Totals : /\ MetricOf(query[q], x) <=> x = "queries"
                          /\ MetricOf(query'[q], x) <=> x \in {"queries", res}
    BY <2>1, <2>4 DEF MetricOf
  <2> QED
    BY <2>2, <2>4, <2>5, <2>6, <2>7, <2>8 DEF CountsStep, Gained, OthersStay
<1> QED
  BY <1>2, <1>3

\* The counters agree with the queries in every reachable state.
LEMMA CountsInvariance == Spec => []Counts
<1>1. Init => Counts
  <2> SUFFICES ASSUME Init PROVE Counts
    OBVIOUS
  <2>1. \A q \in Queries : query[q].pc = "waiting"
    BY DEF Init, Fresh
  <2>2. /\ \A r \in Routes, u \in Usages : usage[r][u] = 0
        /\ \A x \in Metrics : m[x] = 0
    BY DEF Init
  <2>3. Cardinality({}) = 0
    BY FS_EmptySet
  <2>4. \A r \in Routes, u \in Usages : {q \in Queries : UsageOf(query[q], r, u)} = {}
    BY <2>1 DEF UsageOf
  <2>5. \A x \in Totals : {q \in Queries : MetricOf(query[q], x)} = {}
    BY <2>1 DEF MetricOf
  <2>6. \A x \in Totals : Total(x) = 0
    BY <2>2 DEF Total, Totals, Metrics
  <2> QED
    BY <2>2, <2>3, <2>4, <2>5, <2>6 DEF Counts
<1>2. TypeOK /\ Counts /\ [Next]_vars => Counts'
  <2> SUFFICES ASSUME TypeOK, Counts, [Next]_vars PROVE Counts'
    OBVIOUS
  <2>1. ASSUME NEW q \in Queries, Step(q) PROVE Counts'
    <3>1. CountsStep(q)
      BY <2>1, BeginCounts, FindTenantCounts, LimitCounts, CheckAllowedCounts, VerdictCounts,
         PlainCounts DEF Step
    <3> QED
      BY <3>1, CountsKept
  <2>2. CASE SwapSnapshot \/ SwapLists \/ PassTime \/ UNCHANGED vars
    <3>1. query' = query /\ m' = m /\ usage' = usage
      BY <2>2 DEF SwapSnapshot, SwapLists, PassTime, vars
    <3> QED
      BY <3>1 DEF Counts, Total
  <2> QED
    BY <2>1, <2>2 DEF Next
<1> QED
  BY <1>1, <1>2, TypeCorrect, PTL DEF Spec

\* Resolve counts every query once in the metrics, and every query of an
\* admitted tenant once for it, under what became of it.
THEOREM EveryQueryCounted == Spec => []CountedOnce
<1>1. Counts => CountedOnce
  <2> SUFFICES ASSUME Counts PROVE CountedOnce
    OBVIOUS
  <2>1. ASSUME NEW r \in Routes
        PROVE  /\ usage[r]["queries"] = Cardinality({q \in Queries : query[q].route = r /\ Admitted(q)})
               /\ \A u \in Usages \ {"queries"} :
                    usage[r][u] = Cardinality({q \in Queries : query[q].route = r /\ Done(q, {u})})
    <3>1. {q \in Queries : UsageOf(query[q], r, "queries")}
            = {q \in Queries : query[q].route = r /\ Admitted(q)}
      BY DEF UsageOf, Admitted, Done
    <3>2. \A u \in Usages \ {"queries"} :
            {q \in Queries : UsageOf(query[q], r, u)} = {q \in Queries : query[q].route = r /\ Done(q, {u})}
      BY DEF UsageOf, Done
    <3> QED
      BY <3>1, <3>2 DEF Counts, Usages
  <2>2. /\ \A x \in Totals \ {"queries"} :
             {q \in Queries : MetricOf(query[q], x)} = {q \in Queries : Done(q, {x})}
        /\ {q \in Queries : MetricOf(query[q], "queries")} = {q \in Queries : query[q].pc # "waiting"}
    BY DEF MetricOf, Done
  <2>3. \A x \in Totals \ {"queries"} : Total(x) = Cardinality({q \in Queries : Done(q, {x})})
    BY <2>2 DEF Counts
  <2>4. Total("queries") = Cardinality({q \in Queries : query[q].pc # "waiting"})
    BY <2>2 DEF Counts, Totals
  <2>5. /\ m["queries"] = Total("queries")
        /\ \A x \in {"malformed", "refused", "throttled", "overridden", "blocked"} : m[x] = Total(x)
        /\ m["cacheHits"] + m["upstream"] = Total("resolved")
        /\ m["upstreamNG"] = Total("failed")
    BY DEF Total
  <2> QED
    BY <2>1, <2>3, <2>4, <2>5 DEF CountedOnce, Totals
<1> QED
  BY <1>1, CountsInvariance, PTL

------------------------------------------------------------------------------
(* The answer cache: lifetimes.                                            *)

\* Every nonempty set of naturals has a least element.
LEMMA LeastExists ==
  ASSUME NEW S, S \subseteq Nat, S # {}
  PROVE  \E x \in S : \A y \in S : x <= y
<1>1. PICK x \in S : \A y \in S : ~ (<<y, x>> \in OpToRel(<, Nat))
  BY NatLessThanWellFounded, WFMin
<1>2. \A y \in S : ~ (y < x)
  BY <1>1 DEF OpToRel
<1> QED
  BY <1>2

\* Min and Max, as far as the lifetimes need them.
LEMMA MinLeast ==
  ASSUME NEW S, S \subseteq Nat, S # {}
  PROVE  Min(S) \in S /\ \A y \in S : Min(S) <= y
  BY LeastExists DEF Min

LEMMA OfTwo ==
  ASSUME NEW a \in Int, NEW b \in Int
  PROVE  /\ Min({a, b}) = IF a <= b THEN a ELSE b
         /\ Max({a, b}) = IF a >= b THEN a ELSE b
  BY DEF Min, Max

LEMMA MaxBounds ==
  ASSUME NEW a \in Int, NEW b \in Int
  PROVE  Max({a, b}) \in Int /\ Max({a, b}) >= a /\ Max({a, b}) >= b
  BY OfTwo

\* The bounds of the lifetimes.
LEMMA Bounds ==
  /\ MinTTL \in Nat /\ NegTTL \in Nat /\ MaxTTL \in Nat
  /\ MinTTL <= NegTTL /\ NegTTL <= MaxTTL
<1>1. MinTTL \in Nat /\ NegTTL \in MinTTL..MaxTTL /\ MaxTTL \in Nat
  BY CacheAssumption
<1> QED
  BY <1>1

\* Put's messages.
Replied == [answer: SUBSET Records, auth: SUBSET Nat, tc: BOOLEAN]

\* Put keeps a message no longer than the greatest lifetime, and no longer than
\* any of its TTLs or the floor under short and negative answers.
LEMMA LifeBounds ==
  ASSUME NEW msg \in Replied
  PROVE  /\ Life(msg) \in Nat /\ Life(msg) <= MaxTTL
         /\ TTLs(msg) \subseteq Nat
         /\ \A t \in TTLs(msg) : Life(msg) <= Max({t, Floor(msg.answer)})
<1> DEFINE ttl == IF msg.answer = {} THEN NegTTL ELSE Min(TTLs(msg))
<1>0. /\ msg.answer \subseteq Records /\ msg.auth \subseteq Nat
      /\ MinTTL \in Nat /\ NegTTL \in Nat /\ MaxTTL \in Nat
      /\ MinTTL <= NegTTL /\ NegTTL <= MaxTTL
  BY Bounds DEF Replied
<1>1. TTLs(msg) \subseteq Nat
  <2>1. \A rr \in msg.answer : rr.ttl \in Nat
    BY <1>0 DEF Records
  <2> QED
    BY <2>1, <1>0 DEF TTLs
<1>2. msg.answer # {} => TTLs(msg) # {}
  BY DEF TTLs
<1>3. msg.answer # {} => ttl \in Nat /\ \A t \in TTLs(msg) : ttl <= t
  BY <1>1, <1>2, MinLeast
<1>4. ttl \in Nat
  BY <1>0, <1>3
<1>5. Life(msg) = Min({Max({ttl, MinTTL}), MaxTTL})
  BY DEF Life
<1> HIDE DEF ttl
<1>6. Max({ttl, MinTTL}) = (IF ttl >= MinTTL THEN ttl ELSE MinTTL)
  BY <1>0, <1>4, OfTwo
<1>7. /\ Life(msg) \in Nat /\ Life(msg) <= MaxTTL
      /\ Life(msg) <= ttl \/ Life(msg) <= MinTTL
  BY <1>0, <1>4, <1>5, <1>6, OfTwo
<1>8. ASSUME NEW t \in TTLs(msg)
      PROVE  Life(msg) <= Max({t, Floor(msg.answer)})
  <2> DEFINE floor == Floor(msg.answer)
             most  == Max({t, floor})
  <2>1. /\ t \in Nat /\ floor \in Nat
        /\ msg.answer = {} => floor = NegTTL /\ ttl = NegTTL
        /\ msg.answer # {} => floor = MinTTL /\ ttl <= t
    BY <1>0, <1>1, <1>3 DEF Floor, ttl
  <2> HIDE DEF floor
  <2>2. most \in Int /\ most >= t /\ most >= floor
    BY <2>1, MaxBounds
  <2> HIDE DEF most
  <2>3. Life(msg) <= most
    BY <2>1, <2>2, <1>7, <1>4, <1>0
  <2> QED
    BY <2>3 DEF most, floor
<1> QED
  BY <1>1, <1>7, <1>8

------------------------------------------------------------------------------
(* The answer cache: entries and replies.                                  *)

\* An entry Put may store: filtered for the name it answers, with its lifetime.
Clean(q, answer) == q.name \notin Exempt => \A rr \in answer : ~ rr.private

Entries == {e \in [of: Questions, msg: Replied, life: Nat, age: Nat] :
              e.life = Life(e.msg) /\ Clean(e.of, e.msg.answer)}

\* The reply to q is one to a question under the same key, filtered, and its
\* TTLs outlive neither the records nor the floor.
TTLsRight(r) ==
  /\ r.age <= MaxTTL
  /\ \A t \in r.ttls : r.age + t[2] <= Max({t[1], Floor(r.answer)}) + 1
ReplyRight(q, r) ==
  /\ CacheKey(r.of) = CacheKey(q)
  /\ Clean(r.of, r.answer)
  /\ TTLsRight(r)

\* A client has in hand what the cache holds under its key, or its own answer.
Shape(s) == DOMAIN s = {"pc", "q", "entry", "reply"}
ClientRight(s) ==
  /\ Shape(s)
  /\ s.pc # "idle" => s.q \in Questions
  /\ s.pc \in {"found", "put"} => s.entry \in Entries /\ CacheKey(s.entry.of) = CacheKey(s.q)
  /\ s.pc \notin {"found", "put"} => s.entry = Nothing
  /\ s.pc = "answered" => ReplyRight(s.q, s.reply)

CacheInv ==
  /\ DOMAIN cache = CacheKeys /\ cache = [k \in CacheKeys |-> cache[k]]
  /\ \A k \in CacheKeys : cache[k] = Nothing \/ (cache[k] \in Entries /\ CacheKey(cache[k].of) = k)
  /\ client = [c \in Clients |-> client[c]]
  /\ \A c \in Clients : ClientRight(client[c])

\* Questions under one key have the same name.
LEMMA KeyTellsName ==
  ASSUME NEW q, NEW o, CacheKey(q) = CacheKey(o)
  PROVE  q.name = o.name
  BY DEF CacheKey

\* They have the same type unless neither of their types has a name.
LEMMA KeyTellsType ==
  ASSUME NEW q, NEW o, CacheKey(q) = CacheKey(o), q.type \in NamedTypes \/ o.type \in NamedTypes
  PROVE  q.type = o.type
<1>1. "" \notin NamedTypes
  BY CacheAssumption
<1>2. (IF q.type \in NamedTypes THEN q.type ELSE "") = (IF o.type \in NamedTypes THEN o.type ELSE "")
  BY DEF CacheKey
<1> QED
  BY <1>1, <1>2

\* An entry that has not expired answers with TTLs that are right, whether it
\* is counted down (adjustTTL) or handed out as it came.
LEMMA RepliesRight ==
  ASSUME NEW e \in Entries
  PROVE  /\ e.age <= e.life =>
              TTLsRight(ReplyOf(e, {<<t, CountDown(t, e.age)>> : t \in TTLs(e.msg)}))
         /\ e.age = 0 => TTLsRight(ReplyOf(e, {<<t, t>> : t \in TTLs(e.msg)}))
<1>1. /\ e.msg \in Replied /\ e.life = Life(e.msg) /\ e.age \in Nat
      /\ MaxTTL \in Nat
  BY Bounds DEF Entries
<1>2. /\ e.life \in Nat /\ e.life <= MaxTTL
      /\ TTLs(e.msg) \subseteq Nat
      /\ \A t \in TTLs(e.msg) : e.life <= Max({t, Floor(e.msg.answer)})
  BY <1>1, LifeBounds
<1>3. ASSUME NEW t \in TTLs(e.msg)
      PROVE  /\ Max({t, Floor(e.msg.answer)}) \in Int
             /\ Max({t, Floor(e.msg.answer)}) >= t
  <2>1. t \in Int
    BY <1>2
  <2>2. Floor(e.msg.answer) \in Int
    BY Bounds DEF Floor
  <2> QED
    BY <2>1, <2>2, MaxBounds
<1>4. ASSUME e.age <= e.life, NEW t \in TTLs(e.msg)
      PROVE  e.age + CountDown(t, e.age) <= Max({t, Floor(e.msg.answer)}) + 1
  <2> DEFINE most == Max({t, Floor(e.msg.answer)})
  <2>1. t \in Nat /\ most \in Int /\ most >= t /\ e.life <= most
    BY <1>2, <1>3
  <2> HIDE DEF most
  <2>2. e.age + CountDown(t, e.age) <= most + 1
    BY <2>1, <1>1, <1>2, <1>4 DEF CountDown
  <2> QED
    BY <2>2 DEF most
<1>5. ASSUME NEW ttls PROVE /\ ReplyOf(e, ttls).ttls = ttls /\ ReplyOf(e, ttls).age = e.age
                            /\ ReplyOf(e, ttls).answer = e.msg.answer
  BY DEF ReplyOf
<1>6. ASSUME e.age <= e.life
      PROVE  TTLsRight(ReplyOf(e, {<<t, CountDown(t, e.age)>> : t \in TTLs(e.msg)}))
  <2>1. e.age <= MaxTTL
    BY <1>1, <1>2, <1>6
  <2> QED
    BY <2>1, <1>4, <1>5, <1>6 DEF TTLsRight
<1>7. ASSUME e.age = 0
      PROVE  TTLsRight(ReplyOf(e, {<<t, t>> : t \in TTLs(e.msg)}))
  <2>1. ASSUME NEW t \in TTLs(e.msg)
        PROVE  0 + t <= Max({t, Floor(e.msg.answer)}) + 1
    <3> DEFINE most == Max({t, Floor(e.msg.answer)})
    <3>1. t \in Nat /\ most \in Int /\ most >= t
      BY <1>2, <1>3
    <3> HIDE DEF most
    <3>2. 0 + t <= most + 1
      BY <3>1
    <3> QED
      BY <3>2 DEF most
  <2> QED
    BY <2>1, <1>1, <1>5, <1>7 DEF TTLsRight
<1> QED
  BY <1>6, <1>7

\* What ClientRight says is kept when one client moves to a state that is right.
LEMMA ClientMoves ==
  ASSUME CacheInv, NEW c \in Clients, NEW s, ClientRight(s),
         client' = [client EXCEPT ![c] = s]
  PROVE  client' = [d \in Clients |-> client'[d]] /\ \A d \in Clients : ClientRight(client'[d])
<1>1. client = [d \in Clients |-> client[d]] /\ \A d \in Clients : ClientRight(client[d])
  BY DEF CacheInv
<1>2. client' = [d \in Clients |-> IF d = c THEN s ELSE client[d]]
  BY <1>1
<1> QED
  BY <1>1, <1>2

\* The cache is as it was, or one key of it is emptied or given an entry.
LEMMA KeyMoves ==
  ASSUME CacheInv, NEW k \in CacheKeys, NEW e,
         e = Nothing \/ (e \in Entries /\ CacheKey(e.of) = k),
         cache' = [cache EXCEPT ![k] = e]
  PROVE  /\ DOMAIN cache' = CacheKeys /\ cache' = [x \in CacheKeys |-> cache'[x]]
         /\ \A x \in CacheKeys : cache'[x] = Nothing \/ (cache'[x] \in Entries /\ CacheKey(cache'[x].of) = x)
<1>1. /\ cache = [x \in CacheKeys |-> cache[x]]
      /\ \A x \in CacheKeys : cache[x] = Nothing \/ (cache[x] \in Entries /\ CacheKey(cache[x].of) = x)
  BY DEF CacheInv
<1>2. cache' = [x \in CacheKeys |-> IF x = k THEN e ELSE cache[x]]
  BY <1>1
<1> QED
  BY <1>1, <1>2

LEMMA KeyEmptied ==
  ASSUME CacheInv, NEW k \in CacheKeys, cache' = [cache EXCEPT ![k] = Nothing]
  PROVE  /\ DOMAIN cache' = CacheKeys /\ cache' = [x \in CacheKeys |-> cache'[x]]
         /\ \A x \in CacheKeys : cache'[x] = Nothing \/ (cache'[x] \in Entries /\ CacheKey(cache'[x].of) = x)
  BY KeyMoves

\* A step of one client keeps the invariant.
LEMMA CacheStepKeeps ==
  ASSUME CacheInv, NEW c \in Clients, CacheStep(c)
  PROVE  CacheInv'
<1> DEFINE s == client[c]
           CacheKept == /\ DOMAIN cache' = CacheKeys /\ cache' = [x \in CacheKeys |-> cache'[x]]
                        /\ \A x \in CacheKeys : cache'[x] = Nothing
                             \/ (cache'[x] \in Entries /\ CacheKey(cache'[x].of) = x)
           ClientKept == /\ client' = [d \in Clients |-> client'[d]]
                         /\ \A d \in Clients : ClientRight(client'[d])
<1>0. ClientRight(s) /\ Shape(s)
  BY DEF CacheInv, ClientRight
<1>a. cache' = cache => CacheKept
  BY DEF CacheInv
<1>1. CASE Look(c)
  <2>1. PICK q \in Questions :
          client' = [client EXCEPT ![c] =
                       [pc |-> IF cache[CacheKey(q)] = Nothing THEN "forward" ELSE "found",
                        q |-> q, entry |-> cache[CacheKey(q)], reply |-> Nothing]]
    BY <1>1 DEF Look
  <2> DEFINE e == cache[CacheKey(q)]
             n == [pc |-> IF e = Nothing THEN "forward" ELSE "found",
                   q |-> q, entry |-> e, reply |-> Nothing]
  <2>2. e = Nothing \/ (e \in Entries /\ CacheKey(e.of) = CacheKey(q))
    BY DEF CacheInv, CacheKeys
  <2>3. ClientRight(n)
    BY <2>2 DEF ClientRight, Shape
  <2>4. ClientKept
    BY <2>1, <2>3, ClientMoves
  <2> QED
    BY <2>4, <1>1, <1>a DEF Look, CacheInv
<1>2. CASE Hit(c)
  <2> DEFINE e == s.entry
             r == ReplyOf(e, {<<t, CountDown(t, e.age)>> : t \in TTLs(e.msg)})
             n == [pc |-> "answered", q |-> s.q, entry |-> Nothing, reply |-> r]
  <2>1. /\ e \in Entries /\ CacheKey(e.of) = CacheKey(s.q) /\ s.q \in Questions
        /\ e.age <= e.life
    BY <1>0, <1>2 DEF Hit, ClientRight
  <2>2. ReplyRight(s.q, r)
    BY <2>1, RepliesRight DEF ReplyRight, ReplyOf, Entries
  <2>3. client' = [client EXCEPT ![c] = n]
    BY <1>2 DEF Hit, Goes
  <2> HIDE DEF r
  <2>4. ClientRight(n)
    BY <2>1, <2>2 DEF ClientRight, Shape
  <2>5. ClientKept
    BY <2>3, <2>4, ClientMoves
  <2> QED
    BY <2>5, <1>2, <1>a DEF Hit, CacheInv
<1>3. CASE Expire(c)
  <2> DEFINE n == [pc |-> "forward", q |-> s.q, entry |-> Nothing, reply |-> Nothing]
  <2>1. s.q \in Questions
    BY <1>0, <1>3 DEF Expire, ClientRight
  <2>2. client' = [client EXCEPT ![c] = n]
    BY <1>3 DEF Expire, Goes
  <2>3. ClientRight(n)
    BY <2>1 DEF ClientRight, Shape
  <2>4. ClientKept
    BY <2>2, <2>3, ClientMoves
  <2>5. CacheKey(s.q) \in CacheKeys
    BY <2>1 DEF CacheKeys
  <2>6. CacheKept
    <3>1. cache' = [cache EXCEPT ![CacheKey(s.q)] = Nothing]
      BY <1>3 DEF Expire
    <3> QED
      BY <3>1, <2>5, KeyEmptied
  <2> QED
    BY <2>4, <2>6 DEF CacheInv
<1>4. CASE Forward(c)
  <2>1. s.q \in Questions
    BY <1>0, <1>4 DEF Forward, ClientRight
  <2>2. PICK raw \in Messages :
          LET msg == [raw EXCEPT !.answer = Filtered(s.q, @)]
          IN  Goes(c, "put", [of |-> s.q, msg |-> msg, life |-> Life(msg), age |-> 0], Nothing)
    BY <1>4 DEF Forward
  <2> DEFINE msg == [raw EXCEPT !.answer = Filtered(s.q, @)]
             e   == [of |-> s.q, msg |-> msg, life |-> Life(msg), age |-> 0]
             n   == [pc |-> "put", q |-> s.q, entry |-> e, reply |-> Nothing]
  <2>3. raw \in Replied
    BY CacheAssumption DEF Replied
  <2>4. Filtered(s.q, raw.answer) \subseteq raw.answer /\ Clean(s.q, Filtered(s.q, raw.answer))
    BY DEF Filtered, Clean
  <2>5. msg \in Replied /\ Clean(s.q, msg.answer)
    BY <2>3, <2>4 DEF Replied
  <2>6. Goes(c, "put", e, Nothing)
    BY <2>2
  <2> HIDE DEF msg
  <2>7. e \in Entries
    BY <2>1, <2>5, LifeBounds DEF Entries
  <2> HIDE DEF e
  <2>8. client' = [client EXCEPT ![c] = n]
    BY <2>6 DEF Goes
  <2>9. e.of = s.q
    BY DEF e
  <2>10. ClientRight(n)
    BY <2>1, <2>7, <2>9 DEF ClientRight, Shape
  <2>11. ClientKept
    BY <2>8, <2>10, ClientMoves
  <2> QED
    BY <2>11, <1>4, <1>a DEF Forward, CacheInv
<1>5. CASE ForwardFails(c)
  <2>1. ClientRight(Idle)
    BY DEF ClientRight, Shape, Idle
  <2>2. ClientKept
    BY <2>1, <1>5, ClientMoves DEF ForwardFails
  <2> QED
    BY <2>2, <1>5, <1>a DEF ForwardFails, CacheInv
<1>6. CASE Put(c)
  <2> DEFINE e == s.entry
             x == [e EXCEPT !.age = 0]
             r == ReplyOf(x, {<<t, t>> : t \in TTLs(e.msg)})
             n == [pc |-> "answered", q |-> s.q, entry |-> Nothing, reply |-> r]
  <2>1. e \in Entries /\ CacheKey(e.of) = CacheKey(s.q) /\ s.q \in Questions
    BY <1>0, <1>6 DEF Put, ClientRight
  <2>2. x \in Entries /\ x.msg = e.msg /\ x.of = e.of /\ x.age = 0
    BY <2>1 DEF Entries
  <2>3. client' = [client EXCEPT ![c] = n]
    BY <1>6 DEF Put, Goes
  <2>4. cache' = cache \/ cache' = [cache EXCEPT ![CacheKey(s.q)] = e]
    BY <1>6 DEF Put
  <2> HIDE DEF x
  <2>5. ReplyRight(s.q, r)
    BY <2>1, <2>2, RepliesRight DEF ReplyRight, ReplyOf, Entries
  <2> HIDE DEF r
  <2>6. ClientRight(n)
    BY <2>1, <2>5 DEF ClientRight, Shape
  <2>7. ClientKept
    BY <2>3, <2>6, ClientMoves
  <2>8. CacheKey(s.q) \in CacheKeys
    BY <2>1 DEF CacheKeys
  <2> HIDE DEF e
  <2>9. CacheKept
    BY <2>1, <2>4, <2>8, <1>a, KeyMoves
  <2> QED
    BY <2>7, <2>9 DEF CacheInv
<1> QED
  BY <1>1, <1>2, <1>3, <1>4, <1>5, <1>6 DEF CacheStep

\* An entry that grows older stays an entry.
LEMMA OlderStays ==
  ASSUME NEW e \in Entries
  PROVE  Older(e) \in Entries /\ Older(e).of = e.of
<1>1. CASE e = Nothing \/ e.age > e.life
  BY <1>1 DEF Older
<1>2. CASE ~ (e = Nothing \/ e.age > e.life)
  <2>1. Older(e) = [e EXCEPT !.age = e.age + 1]
    BY <1>2 DEF Older
  <2> QED
    BY <2>1 DEF Entries
<1> QED
  BY <1>1, <1>2

\* The sweeper and the clock keep the invariant.
LEMMA CacheTimeKeeps ==
  ASSUME CacheInv, Tick \/ \E k \in CacheKeys : Sweep(k)
  PROVE  CacheInv'
<1>1. CASE Tick
  <2>1. /\ cache' = [k \in CacheKeys |-> Older(cache[k])]
        /\ client' = [c \in Clients |-> [client[c] EXCEPT !.entry = Older(client[c].entry)]]
    BY <1>1 DEF Tick
  <2>2. Older(Nothing) = Nothing
    BY DEF Older
  <2>3. ASSUME NEW k \in CacheKeys
        PROVE  cache'[k] = Nothing \/ (cache'[k] \in Entries /\ CacheKey(cache'[k].of) = k)
    BY <2>1, <2>2, OlderStays DEF CacheInv
  <2>4. ASSUME NEW c \in Clients
        PROVE  ClientRight(client'[c])
    <3> DEFINE s == client[c]
               n == [s EXCEPT !.entry = Older(s.entry)]
    <3>1. ClientRight(s)
      BY DEF CacheInv
    <3>2. client'[c] = n
      BY <2>1
    <3>3. /\ n.pc = s.pc /\ n.q = s.q /\ n.reply = s.reply /\ n.entry = Older(s.entry)
          /\ Shape(n)
      BY <3>1 DEF ClientRight, Shape
    <3> HIDE DEF n, s
    <3>4. s.pc \in {"found", "put"} => n.entry \in Entries /\ CacheKey(n.entry.of) = CacheKey(s.q)
      BY <3>1, <3>3, OlderStays DEF ClientRight
    <3>5. ClientRight(n)
      BY <3>1, <3>3, <3>4, <2>2 DEF ClientRight
    <3> QED
      BY <3>2, <3>5
  <2> QED
    BY <2>1, <2>3, <2>4 DEF CacheInv
<1>2. CASE \E k \in CacheKeys : Sweep(k)
  BY <1>2, KeyEmptied DEF Sweep, CacheInv
<1> QED
  BY <1>1, <1>2

\* The invariant holds in every reachable state.
LEMMA CacheInvariant == CacheSpec => []CacheInv
<1>1. CacheInit => CacheInv
  BY DEF CacheInit, CacheInv, ClientRight, Shape, Idle
<1>2. CacheInv /\ [CacheNext]_cacheVars => CacheInv'
  <2>1. ASSUME CacheInv, UNCHANGED cacheVars
        PROVE  CacheInv'
    BY <2>1 DEF CacheInv, cacheVars
  <2> QED
    BY <2>1, CacheStepKeeps, CacheTimeKeeps DEF CacheNext
<1> QED
  BY <1>1, <1>2, PTL DEF CacheSpec

\* A client is answered its own question, however the entries of the shared
\* cache are replaced, deleted and raced for (cache.go Get, Put).
THEOREM OwnAnswers == CacheSpec => []AnswerFitsQuestion
<1>1. CacheInv => AnswerFitsQuestion
  <2> SUFFICES ASSUME CacheInv, NEW c \in Clients, Answered(c)
               PROVE  /\ client[c].reply.of.name = client[c].q.name
                      /\ client[c].q.type \in NamedTypes \/ client[c].reply.of.type \in NamedTypes
                           => client[c].reply.of.type = client[c].q.type
    BY DEF AnswerFitsQuestion
  <2>1. CacheKey(client[c].reply.of) = CacheKey(client[c].q)
    BY DEF CacheInv, ClientRight, ReplyRight, Answered
  <2> QED
    BY <2>1, KeyTellsName, KeyTellsType
<1> QED
  BY <1>1, CacheInvariant, PTL

\* What adjustTTL leaves of a TTL, and the time the cache has held the record,
\* exceed its TTL or the floor by a second at most.
THEOREM TTLsHonest == CacheSpec => []ServedFresh
<1>1. CacheInv => ServedFresh
  BY DEF CacheInv, ClientRight, ReplyRight, TTLsRight, Answered, ServedFresh
<1> QED
  BY <1>1, CacheInvariant, PTL

\* filterRebind runs before Put, so the cache serves no client a private
\* address for a name that is not exempt.
THEOREM NoRebinding == CacheSpec => []NoPrivateServed
<1>1. CacheInv => NoPrivateServed
  <2> SUFFICES ASSUME CacheInv, NEW c \in Clients, Answered(c), client[c].q.name \notin Exempt
               PROVE  \A rr \in client[c].reply.answer : ~ rr.private
    BY DEF NoPrivateServed
  <2>1. /\ CacheKey(client[c].reply.of) = CacheKey(client[c].q)
        /\ Clean(client[c].reply.of, client[c].reply.answer)
    BY DEF CacheInv, ClientRight, ReplyRight, Answered
  <2>2. client[c].reply.of.name = client[c].q.name
    BY <2>1, KeyTellsName
  <2> QED
    BY <2>1, <2>2 DEF Clean
<1> QED
  BY <1>1, CacheInvariant, PTL
==============================================================================
