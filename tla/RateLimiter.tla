----------------------------- MODULE RateLimiter -----------------------------
(***************************************************************************)
(* The per-tenant rate limiter (resolver/ratelimit.go): a token bucket and *)
(* a connection counter for each tenant, created on first use, refilled    *)
(* when looked at, and swept when idle.                                    *)
(*                                                                         *)
(* Every method reads the clock before it takes the mutex, so calls enter  *)
(* the critical section with times that are out of order: a time already   *)
(* passed may refill, create or mark as used a bucket that a later one has *)
(* seen.                                                                   *)
(*                                                                         *)
(* Units: a tick of the clock is the time in which the bucket gains one    *)
(* unit, and a query costs Cost units; qps is 1/Cost queries per tick.     *)
(***************************************************************************)
EXTENDS Integers, FiniteSets

CONSTANTS
  Routes,    \* tenants
  Queries,   \* goroutines serving a query
  Conns,     \* goroutines serving a DoT connection
  Cost,      \* units a query costs
  Burst,     \* units a full bucket holds
  MaxConns,  \* connections a tenant may hold; 0 is unlimited
  IdleTTL,   \* limiterIdleTTL, in ticks
  MaxStall,  \* bound: ticks between reading the clock and taking the mutex
  MaxClock,  \* bound: ticks of the clock
  None       \* an absent bucket, a goroutine without a tenant

\* Config.Validate refuses a burst that is not positive (config.go:195).
ASSUME LimiterAssumption ==
  /\ Cost \in Nat \ {0} /\ Burst \in Nat /\ Burst >= Cost
  /\ MaxConns \in Nat /\ IdleTTL \in Nat /\ MaxStall \in Nat /\ MaxClock \in Nat
  /\ IsFiniteSet(Conns)
  /\ None \notin Routes \cup Nat
  /\ None \notin [tokens: Nat, lastFill: Nat, lastUsed: Nat, conns: Nat, gen: Nat]

VARIABLES
  clock,
  bucket,    \* bucket[r]: the map entry of tenant r, or None
  made,      \* made[r], history: how many buckets tenant r has had
  query,     \* query[q]: a call of Allow and its verdict
  conn,      \* conn[c]: a connection, and the bucket its release function holds
  sweep,     \* the time the sweeper got from its ticker, or None
  winStart,  \* history: start of an arbitrary window of time
  spent,     \* spent[r], history: units granted to calls begun in the window
  grantedAt  \* grantedAt[r], history: when the last query was let through

vars == <<clock, bucket, made, query, conn, sweep, winStart, spent, grantedAt>>

NoQuery == [pc |-> "idle", route |-> None, now |-> 0]
NoConn  == [pc |-> "idle", route |-> None, now |-> 0, gen |-> 0]

Init ==
  /\ clock = 0
  /\ bucket = [r \in Routes |-> None]
  /\ made = [r \in Routes |-> 0]
  /\ query = [q \in Queries |-> NoQuery]
  /\ conn = [c \in Conns |-> NoConn]
  /\ sweep = None
  /\ winStart \in 0..MaxClock
  /\ spent = [r \in Routes |-> 0]
  /\ grantedAt = [r \in Routes |-> -Burst]

\* Time passes, but nobody waits for the mutex longer than MaxStall.
Tick ==
  /\ clock < MaxClock
  /\ \A q \in Queries : query[q].pc = "allow" => clock - query[q].now < MaxStall
  /\ \A c \in Conns : conn[c].pc = "acquire" => clock - conn[c].now < MaxStall
  /\ clock' = clock + 1
  /\ UNCHANGED <<bucket, made, query, conn, sweep, winStart, spent, grantedAt>>

------------------------------------------------------------------------------
(* Allow.                                                                  *)

NewBucket(r, now) ==
  [tokens |-> Burst, lastFill |-> now, lastUsed |-> now, conns |-> 0, gen |-> made[r] + 1]

\* The bucket a call finds in the map, or puts there.
Lookup(r, now) == IF bucket[r] = None THEN NewBucket(r, now) ELSE bucket[r]

\* Mutant: the refill is not capped.
Refill_Uncapped(b, now) ==
  IF now <= b.lastFill
  THEN b
  ELSE [b EXCEPT !.tokens = b.tokens + now - b.lastFill, !.lastFill = now]

\* Mutant: time that has gone by is forgotten when the bucket was not full.
Refill_Lost(b, now) ==
  IF now <= b.lastFill THEN b ELSE [b EXCEPT !.lastFill = now]

Refill(b, now) ==
  IF now <= b.lastFill
  THEN b
  ELSE [b EXCEPT !.tokens = IF b.tokens + now - b.lastFill > Burst
                            THEN Burst ELSE b.tokens + now - b.lastFill,
                 !.lastFill = now]

\* now := time.Now(), before the mutex is taken.
AllowBegin(q) ==
  /\ query[q].pc # "allow"
  /\ \E r \in Routes : query' = [query EXCEPT ![q] = [pc |-> "allow", route |-> r, now |-> clock]]
  /\ UNCHANGED <<clock, bucket, made, conn, sweep, winStart, spent, grantedAt>>

\* The critical section.
Allow(q) ==
  /\ query[q].pc = "allow"
  /\ LET r   == query[q].route
         now == query[q].now
         b   == [Refill(Lookup(r, now), now) EXCEPT !.lastUsed = now]
         ok  == b.tokens >= Cost
     IN  /\ bucket' = [bucket EXCEPT ![r] = IF ok THEN [b EXCEPT !.tokens = @ - Cost] ELSE b]
         /\ made' = [made EXCEPT ![r] = b.gen]
         /\ query' = [query EXCEPT ![q].pc = IF ok THEN "granted" ELSE "refused"]
         /\ spent' = IF ok /\ now >= winStart THEN [spent EXCEPT ![r] = @ + Cost] ELSE spent
         /\ grantedAt' = IF ok THEN [grantedAt EXCEPT ![r] = clock] ELSE grantedAt
  /\ UNCHANGED <<clock, conn, sweep, winStart>>

------------------------------------------------------------------------------
(* AcquireConn and the function it returns.                                *)

\* A connection of tenant r has been accepted; now := time.Now().  With no
\* limit (max_conns_per_tenant is 0) it takes no slot and releases none.
AcquireBegin(c) ==
  /\ conn[c].pc = "idle"
  /\ \E r \in Routes :
       conn' = [conn EXCEPT ![c] =
                  IF MaxConns = 0 THEN [pc |-> "open", route |-> r, now |-> 0, gen |-> 0]
                  ELSE [pc |-> "acquire", route |-> r, now |-> clock, gen |-> 0]]
  /\ UNCHANGED <<clock, bucket, made, query, sweep, winStart, spent, grantedAt>>

\* Mutant: the limit is compared with > instead of >=.
AcquireConn_OffByOne(c) ==
  /\ conn[c].pc = "acquire"
  /\ LET r == conn[c].route
         b == Lookup(r, conn[c].now)
     IN  /\ made' = [made EXCEPT ![r] = b.gen]
         /\ IF b.conns > MaxConns
            THEN /\ bucket' = [bucket EXCEPT ![r] = b]
                 /\ conn' = [conn EXCEPT ![c] = NoConn]
            ELSE /\ bucket' = [bucket EXCEPT ![r] = [b EXCEPT !.conns = @ + 1, !.lastUsed = conn[c].now]]
                 /\ conn' = [conn EXCEPT ![c].pc = "open", ![c].now = 0, ![c].gen = b.gen]
  /\ UNCHANGED <<clock, query, sweep, winStart, spent, grantedAt>>

AcquireConn(c) ==
  /\ conn[c].pc = "acquire"
  /\ LET r == conn[c].route
         b == Lookup(r, conn[c].now)
     IN  /\ made' = [made EXCEPT ![r] = b.gen]
         /\ IF b.conns >= MaxConns
            THEN /\ bucket' = [bucket EXCEPT ![r] = b]
                 /\ conn' = [conn EXCEPT ![c] = NoConn]
            ELSE /\ bucket' = [bucket EXCEPT ![r] = [b EXCEPT !.conns = @ + 1, !.lastUsed = conn[c].now]]
                 /\ conn' = [conn EXCEPT ![c].pc = "open", ![c].now = 0, ![c].gen = b.gen]
  /\ UNCHANGED <<clock, query, sweep, winStart, spent, grantedAt>>

\* release(), once: it holds the bucket it was made for, in the map or not.
Release(c) ==
  /\ conn[c].pc = "open"
  /\ LET r == conn[c].route
         b == bucket[r]
     IN  bucket' = IF b # None /\ b.gen = conn[c].gen /\ b.conns > 0
                   THEN [bucket EXCEPT ![r].conns = @ - 1] ELSE bucket
  /\ conn' = [conn EXCEPT ![c] = NoConn]
  /\ UNCHANGED <<clock, made, query, sweep, winStart, spent, grantedAt>>

------------------------------------------------------------------------------
(* StartSweeper.                                                           *)

\* The ticker sends the time; the sweeper may take it much later.
SweepTick ==
  /\ sweep = None
  /\ sweep' = clock
  /\ UNCHANGED <<clock, bucket, made, query, conn, winStart, spent, grantedAt>>

\* Mutant: live connections do not keep a bucket.
Sweep_IgnoresConns ==
  /\ sweep # None
  /\ bucket' = [r \in Routes |-> IF bucket[r] # None /\ sweep - bucket[r].lastUsed > IdleTTL
                                 THEN None ELSE bucket[r]]
  /\ sweep' = None
  /\ UNCHANGED <<clock, made, query, conn, winStart, spent, grantedAt>>

\* Mutant: the idle time is not looked at.
Sweep_Eager ==
  /\ sweep # None
  /\ bucket' = [r \in Routes |-> IF bucket[r] # None /\ bucket[r].conns = 0
                                 THEN None ELSE bucket[r]]
  /\ sweep' = None
  /\ UNCHANGED <<clock, made, query, conn, winStart, spent, grantedAt>>

\* One pass over the map under the mutex.
Sweep ==
  /\ sweep # None
  /\ bucket' = [r \in Routes |-> IF /\ bucket[r] # None /\ bucket[r].conns = 0
                                    /\ sweep - bucket[r].lastUsed > IdleTTL
                                 THEN None ELSE bucket[r]]
  /\ sweep' = None
  /\ UNCHANGED <<clock, made, query, conn, winStart, spent, grantedAt>>

Next ==
  \/ Tick
  \/ \E q \in Queries : AllowBegin(q) \/ Allow(q)
  \/ \E c \in Conns : AcquireBegin(c) \/ AcquireConn(c) \/ Release(c)
  \/ SweepTick \/ Sweep

Spec == Init /\ [][Next]_vars

------------------------------------------------------------------------------
(* Properties.                                                             *)

Bucket == [tokens: 0..Burst, lastFill: 0..clock, lastUsed: 0..clock,
           conns: Nat, gen: Nat]

\* The type invariant.
TypeOK ==
  /\ clock \in 0..MaxClock
  /\ bucket \in [Routes -> Bucket \cup {None}]
  /\ made \in [Routes -> Nat]
  /\ query \in [Queries -> [pc: {"idle", "allow", "granted", "refused"},
                            route: Routes \cup {None}, now: 0..clock]]
  /\ conn \in [Conns -> [pc: {"idle", "acquire", "open"}, route: Routes \cup {None},
                         now: 0..clock, gen: Nat]]
  /\ sweep \in 0..clock \cup {None}
  /\ winStart \in 0..MaxClock
  /\ spent \in [Routes -> Nat]
  /\ grantedAt \in [Routes -> Int]

\* An evicted bucket would have been full again: the condition on the
\* configuration under which sweeping does not hand out tokens early.
SweepSafe == Burst + 2 * MaxStall <= IdleTTL

\* "RateLimitQPS caps sustained queries per second for a single tenant", and
\* burst "how far above the sustained rate" (config.go:64,68): whatever the
\* interleaving, the calls begun in any window of time are granted no more
\* than a full bucket and what the window's own time refills.
WindowBound ==
  \A r \in Routes :
    spent[r] <= (IF clock < winStart THEN 0 ELSE Burst + clock - winStart)

\* A query is refused only if another of the same tenant was let through less
\* than one refill before it began: no eviction, creation or late call ever
\* takes tokens away from a tenant that keeps to the rate.
PacedNeverRefused ==
  \A q \in Queries :
    query[q].pc = "refused" => query[q].now < grantedAt[query[q].route] + Cost

Open(r) == {c \in Conns : conn[c].pc = "open" /\ conn[c].route = r}

\* A tenant never holds more connections than max_conns_per_tenant, although
\* buckets come and go and each connection releases the bucket it was given.
ConnCap == MaxConns > 0 => \A r \in Routes : Cardinality(Open(r)) <= MaxConns

\* The counter is exactly the open connections ("its counter is the only
\* record of them", ratelimit.go:145): a leaked slot would lock the tenant out.
ConnsCounted ==
  MaxConns > 0 =>
    \A r \in Routes :
      Cardinality(Open(r)) = (IF bucket[r] = None THEN 0 ELSE bucket[r].conns)
==============================================================================
