-------------------------- MODULE RateLimiter_proofs --------------------------
(***************************************************************************)
(* The limiter's guarantees for any number of tenants, goroutines and      *)
(* connections, any rate and burst, and times that reach the mutex out of  *)
(* order by at most MaxStall.                                              *)
(***************************************************************************)
EXTENDS RateLimiter, FiniteSetTheorems, TLAPS

BType == [tokens: 0..Burst, lastFill: Nat, lastUsed: Nat, conns: Nat, gen: Nat]

\* Types, as far as the arguments below need them.
TInv ==
  /\ clock \in Nat /\ winStart \in Nat
  /\ bucket \in [Routes -> BType \cup {None}]
  /\ made \in [Routes -> Nat]
  /\ query \in [Queries -> [pc: {"idle", "allow", "granted", "refused"},
                            route: Routes \cup {None}, now: Nat]]
  /\ \A q \in Queries : query[q].pc # "idle" => query[q].route \in Routes
  /\ conn \in [Conns -> [pc: {"idle", "acquire", "open"}, route: Routes \cup {None},
                         now: Nat, gen: Nat]]
  /\ \A c \in Conns : conn[c].pc # "idle" => conn[c].route \in Routes
  /\ sweep \in Nat \cup {None}
  /\ spent \in [Routes -> Nat]
  /\ grantedAt \in [Routes -> Int]

\* How far the times of a bucket and of the calls under way can be apart.
TimeInv ==
  /\ \A q \in Queries : query[q].now <= clock
  /\ \A q \in Queries : query[q].pc = "allow" => clock <= query[q].now + MaxStall
  /\ \A c \in Conns : conn[c].now <= clock
  /\ \A c \in Conns : conn[c].pc = "acquire" => clock <= conn[c].now + MaxStall
  /\ sweep # None => sweep <= clock
  /\ \A r \in Routes : bucket[r] # None =>
       /\ bucket[r].lastFill <= clock /\ bucket[r].lastUsed <= clock
       /\ bucket[r].lastFill <= bucket[r].lastUsed + MaxStall

------------------------------------------------------------------------------
(* What each step does to the buckets.                                     *)

LEMMA NotNone == \A b \in BType : b # None
  BY LimiterAssumption DEF BType

LEMMA LookupType ==
  ASSUME TInv, NEW r \in Routes, NEW now \in Nat
  PROVE  /\ Lookup(r, now) \in BType
         /\ bucket[r] # None => Lookup(r, now) = bucket[r]
         /\ bucket[r] = None => /\ Lookup(r, now).tokens = Burst
                                /\ Lookup(r, now).lastFill = now
                                /\ Lookup(r, now).lastUsed = now
                                /\ Lookup(r, now).conns = 0
                                /\ Lookup(r, now).gen = made[r] + 1
  <1>1. made[r] + 1 \in Nat /\ bucket[r] \in BType \cup {None}
    BY DEF TInv
  <1>2. NewBucket(r, now) \in BType
    BY <1>1, LimiterAssumption DEF NewBucket, BType
  <1>3. QED BY <1>1, <1>2 DEF Lookup, NewBucket

\* A refill moves lastFill to the later of the two times, and adds what has
\* accrued up to a full bucket.
LEMMA RefillEffect ==
  ASSUME NEW b \in BType, NEW now \in Nat
  PROVE  /\ Refill(b, now) \in BType
         /\ Refill(b, now).conns = b.conns /\ Refill(b, now).gen = b.gen
         /\ IF now <= b.lastFill
            THEN Refill(b, now) = b
            ELSE /\ Refill(b, now).lastFill = now
                 /\ Refill(b, now).tokens
                      = IF b.tokens + now - b.lastFill > Burst
                        THEN Burst ELSE b.tokens + now - b.lastFill
  <1> DEFINE t == IF b.tokens + now - b.lastFill > Burst
                  THEN Burst ELSE b.tokens + now - b.lastFill
  <1>1. CASE now <= b.lastFill
    BY <1>1 DEF Refill
  <1>2. CASE ~(now <= b.lastFill)
    <2>1. t \in 0..Burst
      BY <1>2, LimiterAssumption DEF BType
    <2> HIDE DEF t
    <2>2. Refill(b, now) = [b EXCEPT !.tokens = t, !.lastFill = now]
      BY <1>2 DEF Refill, t
    <2>3. /\ [b EXCEPT !.tokens = t, !.lastFill = now] \in BType
          /\ [b EXCEPT !.tokens = t, !.lastFill = now].lastFill = now
          /\ [b EXCEPT !.tokens = t, !.lastFill = now].tokens = t
          /\ [b EXCEPT !.tokens = t, !.lastFill = now].conns = b.conns
          /\ [b EXCEPT !.tokens = t, !.lastFill = now].gen = b.gen
      BY <2>1 DEF BType
    <2>4. QED BY <1>2, <2>2, <2>3 DEF t
  <1>3. QED BY <1>1, <1>2

\* The bucket as Allow has refilled it, and what Allow leaves behind.
Seen(q) == Refill(Lookup(query[q].route, query[q].now), query[q].now)

LEMMA AllowEffect ==
  ASSUME TInv, NEW q \in Queries, Allow(q)
  PROVE  LET r == query[q].route
             ok == Seen(q).tokens >= Cost
         IN  /\ r \in Routes /\ Seen(q) \in BType
             /\ bucket' \in [Routes -> BType \cup {None}]
             /\ bucket'[r] \in BType
             /\ bucket'[r].tokens = IF ok THEN Seen(q).tokens - Cost ELSE Seen(q).tokens
             /\ bucket'[r].lastFill = Seen(q).lastFill
             /\ bucket'[r].lastUsed = query[q].now
             /\ bucket'[r].conns = Seen(q).conns /\ bucket'[r].gen = Seen(q).gen
             /\ \A x \in Routes \ {r} : bucket'[x] = bucket[x]
             /\ query'[q].pc = (IF ok THEN "granted" ELSE "refused")
             /\ query'[q].route = r /\ query'[q].now = query[q].now
             /\ query' \in [Queries -> [pc: {"idle", "allow", "granted", "refused"},
                                        route: Routes \cup {None}, now: Nat]]
             /\ \A x \in Queries \ {q} : query'[x] = query[x]
  <1> DEFINE r == query[q].route
             now == query[q].now
             s == Seen(q)
             b == [s EXCEPT !.lastUsed = now]
             ok == b.tokens >= Cost
             d == [b EXCEPT !.tokens = b.tokens - Cost]
  <1>1. r \in Routes /\ now \in Nat /\ query[q].pc = "allow"
    BY DEF TInv, Allow
  <1>2. s \in BType
    BY <1>1, LookupType, RefillEffect DEF Seen
  <1>3. bucket' = [bucket EXCEPT ![r] = IF ok THEN d ELSE b]
    BY DEF Allow, Seen
  <1>4. query' = [query EXCEPT ![q].pc = IF ok THEN "granted" ELSE "refused"]
    BY DEF Allow, Seen
  <1> HIDE DEF s
  <1>5. b \in BType /\ b.tokens = s.tokens /\ b.lastFill = s.lastFill /\ b.lastUsed = now
        /\ b.conns = s.conns /\ b.gen = s.gen
    BY <1>1, <1>2 DEF BType
  <1> HIDE DEF b
  <1>6. ok => d \in BType /\ d.tokens = b.tokens - Cost /\ d.lastFill = b.lastFill
              /\ d.lastUsed = b.lastUsed /\ d.conns = b.conns /\ d.gen = b.gen
    <2>1. ok => b.tokens - Cost \in 0..Burst
      BY <1>5, LimiterAssumption DEF BType
    <2>2. QED BY <1>5, <2>1 DEF BType
  <1> HIDE DEF d
  <1>7. bucket'[r] = (IF ok THEN d ELSE b) /\ (\A x \in Routes \ {r} : bucket'[x] = bucket[x])
        /\ bucket' \in [Routes -> BType \cup {None}]
    BY <1>1, <1>3, <1>5, <1>6 DEF TInv
  <1>8. /\ query'[q].pc = (IF ok THEN "granted" ELSE "refused")
        /\ query'[q].route = r /\ query'[q].now = now
        /\ query' \in [Queries -> [pc: {"idle", "allow", "granted", "refused"},
                                   route: Routes \cup {None}, now: Nat]]
        /\ \A x \in Queries \ {q} : query'[x] = query[x]
    BY <1>4 DEF TInv
  <1>9. QED BY <1>1, <1>2, <1>5, <1>6, <1>7, <1>8 DEF s

\* What the steps other than Allow may do to the bucket of a tenant.
Kept(r) == bucket'[r] = bucket[r]
Touched(r, now) ==
  LET b == Lookup(r, now)
  IN  /\ bucket'[r] \in BType
      /\ bucket'[r].tokens = b.tokens /\ bucket'[r].lastFill = b.lastFill
      /\ bucket'[r].lastUsed \in {b.lastUsed, now}
      /\ bucket'[r].gen = b.gen
Evicted(r) ==
  /\ bucket[r] # None /\ bucket'[r] = None /\ sweep # None
  /\ sweep - bucket[r].lastUsed > IdleTTL /\ bucket[r].conns = 0

LEMMA AcquireEffect ==
  ASSUME TInv, NEW c \in Conns, AcquireConn(c)
  PROVE  LET r == conn[c].route
             b == Lookup(r, conn[c].now)
             full == b.conns >= MaxConns
         IN  /\ r \in Routes /\ b \in BType /\ conn[c].now \in Nat
             /\ bucket' \in [Routes -> BType \cup {None}]
             /\ Touched(r, conn[c].now)
             /\ bucket'[r].conns = (IF full THEN b.conns ELSE b.conns + 1)
             /\ \A x \in Routes \ {r} : Kept(x)
             /\ IF full THEN conn'[c] = NoConn
                        ELSE /\ conn'[c].pc = "open" /\ conn'[c].route = r
                             /\ conn'[c].now = 0 /\ conn'[c].gen = b.gen
             /\ conn' \in [Conns -> [pc: {"idle", "acquire", "open"},
                                     route: Routes \cup {None}, now: Nat, gen: Nat]]
             /\ \A x \in Conns \ {c} : conn'[x] = conn[x]
  <1> DEFINE r == conn[c].route
             now == conn[c].now
             b == Lookup(r, now)
             n == [b EXCEPT !.conns = b.conns + 1, !.lastUsed = now]
  <1>1. r \in Routes /\ now \in Nat /\ conn[c].pc = "acquire" /\ made \in [Routes -> Nat]
    BY DEF TInv, AcquireConn
  <1>2. b \in BType
    BY <1>1, LookupType
  <1>3. /\ bucket' = [bucket EXCEPT ![r] = IF b.conns >= MaxConns THEN b ELSE n]
        /\ conn' = [conn EXCEPT ![c] = IF b.conns >= MaxConns THEN NoConn
             ELSE [pc |-> "open", route |-> r, now |-> 0, gen |-> b.gen]]
    BY <1>1 DEF AcquireConn, TInv
  <1> HIDE DEF b
  <1>4. n \in BType /\ n.tokens = b.tokens /\ n.lastFill = b.lastFill /\ n.gen = b.gen
        /\ n.lastUsed = now /\ n.conns = b.conns + 1
    <2> DEFINE m == b.conns + 1
    <2>1. m \in Nat
      BY <1>2 DEF BType
    <2> HIDE DEF now, m
    <2>2. LET x == [b EXCEPT !.conns = m, !.lastUsed = now]
          IN  /\ x \in BType /\ x.tokens = b.tokens /\ x.lastFill = b.lastFill
              /\ x.gen = b.gen /\ x.lastUsed = now /\ x.conns = m
      BY <1>1, <1>2, <2>1 DEF BType
    <2>3. QED BY <2>2 DEF m
  <1> HIDE DEF n
  <1>5. /\ bucket'[r] = (IF b.conns >= MaxConns THEN b ELSE n)
        /\ \A x \in Routes \ {r} : bucket'[x] = bucket[x]
        /\ bucket' \in [Routes -> BType \cup {None}]
    BY <1>1, <1>2, <1>3, <1>4 DEF TInv
  <1>6. Touched(r, now)
    BY <1>2, <1>4, <1>5 DEF Touched, b
  <1>7. b.gen \in Nat
    BY <1>2 DEF BType
  <1>8. /\ conn'[c] = IF b.conns >= MaxConns THEN NoConn
             ELSE [pc |-> "open", route |-> r, now |-> 0, gen |-> b.gen]
        /\ conn' \in [Conns -> [pc: {"idle", "acquire", "open"},
                                 route: Routes \cup {None}, now: Nat, gen: Nat]]
        /\ \A x \in Conns \ {c} : conn'[x] = conn[x]
    BY <1>1, <1>3, <1>7 DEF TInv, NoConn
  <1>9. QED BY <1>1, <1>2, <1>4, <1>5, <1>6, <1>8 DEF Kept, b

LEMMA ReleaseEffect ==
  ASSUME TInv, NEW c \in Conns, Release(c)
  PROVE  LET r == conn[c].route
             held == bucket[r] # None /\ bucket[r].gen = conn[c].gen /\ bucket[r].conns > 0
         IN  /\ r \in Routes
             /\ bucket' \in [Routes -> BType \cup {None}]
             /\ IF held THEN /\ Touched(r, clock) /\ bucket[r] # None
                             /\ bucket'[r].conns = bucket[r].conns - 1
                        ELSE Kept(r)
             /\ \A x \in Routes \ {r} : Kept(x)
             /\ conn' = [conn EXCEPT ![c] = NoConn]
  <1> DEFINE r == conn[c].route
             b == bucket[r]
             n == [b EXCEPT !.conns = b.conns - 1]
  <1>1. r \in Routes /\ b \in BType \cup {None} /\ conn' = [conn EXCEPT ![c] = NoConn]
    BY DEF TInv, Release
  <1>2. CASE b # None /\ b.gen = conn[c].gen /\ b.conns > 0
    <2>1. bucket' = [bucket EXCEPT ![r] = n]
      BY <1>2 DEF Release
    <2>2. n \in BType /\ n.tokens = b.tokens /\ n.lastFill = b.lastFill /\ n.gen = b.gen
          /\ n.lastUsed = b.lastUsed /\ n.conns = b.conns - 1
      BY <1>1, <1>2 DEF BType
    <2> HIDE DEF n
    <2>3. /\ bucket'[r] = n /\ \A x \in Routes \ {r} : bucket'[x] = bucket[x]
          /\ bucket' \in [Routes -> BType \cup {None}]
      BY <1>1, <2>1, <2>2 DEF TInv
    <2>4. QED BY <1>1, <1>2, <2>2, <2>3 DEF Touched, Lookup, Kept
  <1>3. CASE ~(b # None /\ b.gen = conn[c].gen /\ b.conns > 0)
    BY <1>1, <1>3 DEF Release, Kept, TInv
  <1>4. QED BY <1>2, <1>3

LEMMA SweepEffect ==
  ASSUME TInv, Sweep
  PROVE  /\ bucket' \in [Routes -> BType \cup {None}]
         /\ \A r \in Routes : Kept(r) \/ Evicted(r)
  BY DEF Sweep, TInv, Kept, Evicted

------------------------------------------------------------------------------
(* Types and times.                                                        *)

\* Every step but Allow.
Other ==
  \/ Tick \/ SweepTick \/ Sweep \/ UNCHANGED vars
  \/ \E q \in Queries : AllowBegin(q)
  \/ \E c \in Conns : AcquireBegin(c) \/ AcquireConn(c) \/ Release(c)

LEMMA Steps == [Next]_vars <=> (Other \/ \E q \in Queries : Allow(q))
  BY DEF Next, Other

LEMMA ConnType ==
  ASSUME TInv, NEW c \in Conns,
         AcquireBegin(c) \/ AcquireConn(c) \/ Release(c)
  PROVE  /\ conn' \in [Conns -> [pc: {"idle", "acquire", "open"},
                                 route: Routes \cup {None}, now: Nat, gen: Nat]]
         /\ \A x \in Conns : conn'[x].pc # "idle" => conn'[x].route \in Routes
         /\ \A x \in Conns \ {c} : conn'[x] = conn[x]
         /\ conn'[c].now = 0 \/ (conn'[c].now = clock /\ AcquireBegin(c))
         /\ AcquireBegin(c) \/ conn'[c].pc # "acquire"
  <1>1. CASE AcquireBegin(c)
    <2>1. PICK r \in Routes :
            conn' = [conn EXCEPT ![c] =
                       IF MaxConns = 0 THEN [pc |-> "open", route |-> r, now |-> 0, gen |-> 0]
                       ELSE [pc |-> "acquire", route |-> r, now |-> clock, gen |-> 0]]
      BY <1>1 DEF AcquireBegin
    <2> DEFINE v == IF MaxConns = 0 THEN [pc |-> "open", route |-> r, now |-> 0, gen |-> 0]
                    ELSE [pc |-> "acquire", route |-> r, now |-> clock, gen |-> 0]
    <2>2. /\ v \in [pc: {"idle", "acquire", "open"}, route: Routes \cup {None}, now: Nat, gen: Nat]
          /\ v.route = r /\ (v.now = 0 \/ v.now = clock)
      BY DEF TInv
    <2>3. conn'[c] = v /\ \A x \in Conns \ {c} : conn'[x] = conn[x]
      BY <2>1 DEF TInv
    <2>4. QED BY <1>1, <2>1, <2>2, <2>3 DEF TInv
  <1>2. CASE AcquireConn(c)
    BY <1>2, AcquireEffect DEF TInv, NoConn
  <1>3. CASE Release(c)
    BY <1>3 DEF Release, TInv, NoConn
  <1>4. QED BY <1>1, <1>2, <1>3

LEMMA TypeStep == ASSUME TInv, [Next]_vars PROVE TInv'
  <1>1. ASSUME NEW q \in Queries, Allow(q) PROVE TInv'
    <2>1. made' \in [Routes -> Nat]
      <3>1. [Refill(Lookup(query[q].route, query[q].now), query[q].now)
               EXCEPT !.lastUsed = query[q].now].gen \in Nat
        BY <1>1, AllowEffect DEF Seen, BType
      <3>2. QED BY <1>1, <3>1 DEF Allow, TInv
    <2>2. spent' \in [Routes -> Nat] /\ grantedAt' \in [Routes -> Int]
      BY <1>1, LimiterAssumption DEF Allow, TInv
    <2>3. \A x \in Queries : query'[x].pc # "idle" => query'[x].route \in Routes
      BY <1>1, AllowEffect DEF TInv
    <2>4. QED BY <1>1, <2>1, <2>2, <2>3, AllowEffect DEF TInv, Allow
  <1>2. ASSUME NEW q \in Queries, AllowBegin(q) PROVE TInv'
    BY <1>2 DEF AllowBegin, TInv
  <1>3. ASSUME NEW c \in Conns, AcquireBegin(c) PROVE TInv'
    BY <1>3, ConnType DEF AcquireBegin, TInv
  <1>4. ASSUME NEW c \in Conns, AcquireConn(c) PROVE TInv'
    <2>1. made' \in [Routes -> Nat]
      BY <1>4, AcquireEffect DEF AcquireConn, TInv, BType
    <2>2. QED BY <1>4, <2>1, ConnType, AcquireEffect DEF AcquireConn, TInv
  <1>5. ASSUME NEW c \in Conns, Release(c) PROVE TInv'
    BY <1>5, ConnType, ReleaseEffect DEF Release, TInv
  <1>6. CASE Tick \/ SweepTick
    BY <1>6 DEF Tick, SweepTick, TInv
  <1>7. CASE Sweep
    BY <1>7, SweepEffect DEF Sweep, TInv
  <1>8. CASE UNCHANGED vars
    BY <1>8 DEF vars, TInv
  <1>9. QED BY <1>1, <1>2, <1>3, <1>4, <1>5, <1>6, <1>7, <1>8, Steps DEF Other

\* A tenant's bucket is left alone, touched by a recent call, or evicted.
LEMMA OtherEffect ==
  ASSUME TInv, TimeInv, Other, NEW r \in Routes
  PROVE  \/ Kept(r)
         \/ Evicted(r) /\ clock' = clock
         \/ \E now \in Nat : /\ now <= clock /\ clock <= now + MaxStall /\ clock' = clock
                             /\ Touched(r, now)
  <1>1. ASSUME NEW c \in Conns, AcquireConn(c)
        PROVE  Kept(r) \/ \E now \in Nat : /\ now <= clock /\ clock <= now + MaxStall
                                         /\ clock' = clock /\ Touched(r, now)
    <2>1. /\ conn[c].now \in Nat /\ conn[c].now <= clock /\ clock <= conn[c].now + MaxStall
          /\ clock' = clock
      BY <1>1, AcquireEffect DEF TimeInv, AcquireConn
    <2>2. Kept(r) \/ Touched(r, conn[c].now)
      BY <1>1, AcquireEffect
    <2>3. QED BY <2>1, <2>2
  <1>2. ASSUME NEW c \in Conns, Release(c)
        PROVE  Kept(r) \/ \E now \in Nat : /\ now <= clock /\ clock <= now + MaxStall
                                         /\ clock' = clock /\ Touched(r, now)
    <2>1. clock \in Nat /\ clock <= clock + MaxStall /\ clock' = clock
      BY <1>2, LimiterAssumption DEF TInv, Release
    <2>2. Kept(r) \/ Touched(r, clock)
      BY <1>2, ReleaseEffect
    <2>3. QED BY <2>1, <2>2
  <1>3. CASE Sweep
    BY <1>3, SweepEffect DEF Sweep
  <1>4. bucket' = bucket => Kept(r)
    BY DEF Kept
  <1>5. CASE Tick \/ SweepTick \/ UNCHANGED vars
    <2>1. bucket' = bucket
      BY <1>5 DEF Tick, SweepTick, vars
    <2>2. QED BY <1>4, <2>1
  <1>6. ASSUME NEW q \in Queries, AllowBegin(q) PROVE Kept(r)
    BY <1>4, <1>6 DEF AllowBegin
  <1>7. ASSUME NEW c \in Conns, AcquireBegin(c) PROVE Kept(r)
    BY <1>4, <1>7 DEF AcquireBegin
  <1>8. QED
    <2> HIDE DEF Kept, Touched, Evicted
    <2>1. QED BY <1>1, <1>2, <1>3, <1>5, <1>6, <1>7 DEF Other

\* Which steps leave the clock, the sweeper, the calls or the connections alone.
ConnStep(c) == AcquireBegin(c) \/ AcquireConn(c) \/ Release(c)

LEMMA Frame ==
  ASSUME [Next]_vars
  PROVE  /\ clock' = clock \/ Tick
         /\ sweep' = sweep \/ SweepTick \/ Sweep
         /\ query' = query \/ \E q \in Queries : Allow(q) \/ AllowBegin(q)
         /\ conn' = conn \/ \E c \in Conns : ConnStep(c)
  <1>1. CASE Tick
    BY <1>1 DEF Tick
  <1>2. ASSUME NEW q \in Queries, Allow(q) \/ AllowBegin(q)
        PROVE  UNCHANGED <<clock, sweep, conn>>
    BY <1>2 DEF Allow, AllowBegin
  <1>3. ASSUME NEW c \in Conns, ConnStep(c) PROVE UNCHANGED <<clock, sweep, query>>
    BY <1>3 DEF ConnStep, AcquireBegin, AcquireConn, Release
  <1>4. CASE SweepTick \/ Sweep
    BY <1>4 DEF SweepTick, Sweep
  <1>5. CASE UNCHANGED vars
    BY <1>5 DEF vars
  <1>6. QED BY <1>1, <1>2, <1>3, <1>4, <1>5 DEF Next, ConnStep

LEMMA TimeStep == ASSUME TInv, TimeInv, [Next]_vars PROVE TimeInv'
  <1>1. clock' \in Nat /\ clock' >= clock /\ clock \in Nat
    BY Frame DEF TInv, Tick
  <1>2. ASSUME NEW r \in Routes, bucket'[r] # None
        PROVE  /\ bucket'[r].lastFill <= clock' /\ bucket'[r].lastUsed <= clock'
               /\ bucket'[r].lastFill <= bucket'[r].lastUsed + MaxStall
    <2>1. CASE Kept(r)
      <3>1. bucket[r] \in BType
        BY <1>2, <2>1 DEF Kept, TInv
      <3>2. bucket[r].lastFill \in Nat /\ bucket[r].lastUsed \in Nat
        BY <3>1 DEF BType
      <3>3. QED BY <1>1, <1>2, <2>1, <3>2 DEF Kept, TimeInv
    <2>2. ASSUME NEW now \in Nat, now <= clock, clock <= now + MaxStall, Touched(r, now)
          PROVE  /\ bucket'[r].lastFill <= clock' /\ bucket'[r].lastUsed <= clock'
                 /\ bucket'[r].lastFill <= bucket'[r].lastUsed + MaxStall
      <3> DEFINE b == Lookup(r, now)
      <3>1. /\ b \in BType /\ b.lastFill <= clock /\ b.lastUsed <= clock
            /\ b.lastFill <= b.lastUsed + MaxStall
        BY <2>2, LookupType, LimiterAssumption DEF TimeInv
      <3>2. b.lastFill \in Nat /\ b.lastUsed \in Nat
        BY <3>1 DEF BType
      <3>3. bucket'[r].lastFill = b.lastFill /\ bucket'[r].lastUsed \in {b.lastUsed, now}
        BY <2>2 DEF Touched
      <3> HIDE DEF b
      <3>4. QED BY <1>1, <2>2, <3>1, <3>2, <3>3, LimiterAssumption
    <2>3. ASSUME NEW q \in Queries, Allow(q)
          PROVE  /\ bucket'[r].lastFill <= clock' /\ bucket'[r].lastUsed <= clock'
                 /\ bucket'[r].lastFill <= bucket'[r].lastUsed + MaxStall
      <3> DEFINE now == query[q].now
                 b == Lookup(query[q].route, now)
      <3>1. now \in Nat /\ now <= clock /\ clock <= now + MaxStall /\ query[q].route \in Routes
        BY <2>3, AllowEffect DEF TInv, TimeInv, Allow
      <3>2. b \in BType /\ b.lastFill <= clock
        BY <3>1, LookupType DEF TimeInv
      <3>3. Seen(q).lastFill <= clock /\ Seen(q).lastFill \in Nat
        BY <3>1, <3>2, RefillEffect DEF Seen, BType
      <3>4. CASE query[q].route = r
        <4>1. clock' = clock
          BY <2>3 DEF Allow
        <4>2. bucket'[r].lastFill = Seen(q).lastFill /\ bucket'[r].lastUsed = now
          BY <2>3, <3>4, AllowEffect
        <4> HIDE DEF now
        <4>3. QED BY <1>1, <3>1, <3>3, <4>1, <4>2, LimiterAssumption
      <3>5. CASE query[q].route # r
        BY <2>1, <2>3, <3>5, AllowEffect DEF Kept
      <3>6. QED BY <3>4, <3>5
    <2>4. QED BY <1>2, <2>1, <2>2, <2>3, Steps, OtherEffect DEF Evicted
  <1>3. /\ \A q \in Queries : query'[q].now <= clock'
        /\ \A q \in Queries : query'[q].pc = "allow" => clock' <= query'[q].now + MaxStall
    <2>1. ASSUME NEW q \in Queries, Allow(q) \/ AllowBegin(q)
          PROVE  /\ \A x \in Queries : query'[x].now <= clock
                 /\ \A x \in Queries : query'[x].pc = "allow" => clock <= query'[x].now + MaxStall
                 /\ clock' = clock
      <3>1. CASE Allow(q)
        <4>1. clock' = clock
          BY <3>1 DEF Allow
        <4>2. /\ query'[q].pc # "allow" /\ query'[q].now = query[q].now
              /\ \A x \in Queries \ {q} : query'[x] = query[x]
          BY <3>1, AllowEffect
        <4>3. QED BY <4>1, <4>2 DEF TimeInv
      <3>2. CASE AllowBegin(q)
        BY <3>2, <1>1, LimiterAssumption DEF TimeInv, AllowBegin, TInv
      <3>3. QED BY <2>1, <3>1, <3>2
    <2>2. CASE Tick
      BY <2>2, <1>1, LimiterAssumption DEF Tick, TimeInv, TInv
    <2>3. CASE UNCHANGED <<query, clock>>
      BY <2>3 DEF TimeInv
    <2>4. QED BY <2>1, <2>2, <2>3, Frame
  <1>4. /\ \A c \in Conns : conn'[c].now <= clock'
        /\ \A c \in Conns : conn'[c].pc = "acquire" => clock' <= conn'[c].now + MaxStall
    <2>1. ASSUME NEW c \in Conns,
                 AcquireBegin(c) \/ AcquireConn(c) \/ Release(c)
          PROVE  /\ \A x \in Conns : conn'[x].now <= clock
                 /\ \A x \in Conns : conn'[x].pc = "acquire" => clock <= conn'[x].now + MaxStall
                 /\ clock' = clock
      <3>1. clock' = clock
        BY <2>1 DEF AcquireBegin, AcquireConn, Release
      <3>2. AcquireBegin(c) /\ conn'[c].pc = "acquire" => conn'[c].now = clock
        BY <1>1 DEF AcquireBegin, TInv
      <3>3. QED BY <1>1, <2>1, <3>1, <3>2, ConnType, LimiterAssumption DEF TimeInv
    <2>2. CASE Tick
      BY <2>2, <1>1, LimiterAssumption DEF Tick, TimeInv, TInv
    <2>3. CASE UNCHANGED <<conn, clock>>
      BY <2>3 DEF TimeInv
    <2>4. QED BY <2>1, <2>2, <2>3, Frame DEF ConnStep
  <1>5. sweep' # None => sweep' <= clock'
    <2>1. CASE sweep' = sweep
      BY <1>1, <2>1 DEF TimeInv, TInv
    <2>2. CASE SweepTick \/ Sweep
      BY <1>1, <2>2 DEF SweepTick, Sweep
    <2>3. QED BY <2>1, <2>2, Frame
  <1>6. QED BY <1>2, <1>3, <1>4, <1>5 DEF TimeInv

LEMMA InitTime == Init => TInv /\ TimeInv
  <1> SUFFICES ASSUME Init PROVE TInv /\ TimeInv
    OBVIOUS
  <1>1. TInv
    BY LimiterAssumption DEF Init, TInv, NoQuery, NoConn
  <1>2. TimeInv
    BY DEF Init, TimeInv, NoQuery, NoConn
  <1>3. QED BY <1>1, <1>2

\* Every variable keeps its type, and no bucket or call is dated in the future.
THEOREM TypeCorrect == Spec => []TypeOK
  <1> DEFINE I == TInv /\ TimeInv /\ clock <= MaxClock /\ winStart \in 0..MaxClock
  <1>1. Init => I
    BY InitTime, LimiterAssumption DEF Init
  <1>2. I /\ [Next]_vars => I'
    <2> SUFFICES ASSUME I, [Next]_vars PROVE I'
      OBVIOUS
    <2>1. TInv' /\ TimeInv'
      BY TypeStep, TimeStep
    <2>2. clock' <= MaxClock
      BY Frame, LimiterAssumption DEF TInv, Tick
    <2>3. winStart' = winStart
      BY Steps DEF Other, Tick, SweepTick, Sweep, vars, AllowBegin, AcquireBegin,
         AcquireConn, Release, Allow
    <2>4. QED BY <2>1, <2>2, <2>3
  <1>3. I => TypeOK
    <2> SUFFICES ASSUME I PROVE TypeOK
      OBVIOUS
    <2>1. clock \in 0..MaxClock /\ sweep \in 0..clock \cup {None}
      BY LimiterAssumption DEF TInv, TimeInv
    <2>2. ASSUME NEW r \in Routes PROVE bucket[r] \in Bucket \cup {None}
      <3>1. CASE bucket[r] # None
        <4>1. bucket[r] \in BType
          BY <3>1 DEF TInv
        <4>2. bucket[r].lastFill \in 0..clock /\ bucket[r].lastUsed \in 0..clock
          BY <2>1, <3>1, <4>1 DEF BType, TimeInv
        <4>3. QED BY <4>1, <4>2 DEF BType, Bucket
      <3>2. QED BY <3>1
    <2>3. \A q \in Queries : query[q].now \in 0..clock
      BY <2>1 DEF TInv, TimeInv
    <2>4. query \in [Queries -> [pc: {"idle", "allow", "granted", "refused"},
                                route: Routes \cup {None}, now: 0..clock]]
      BY <2>3 DEF TInv
    <2>5. \A c \in Conns : conn[c].now \in 0..clock
      BY <2>1 DEF TInv, TimeInv
    <2>6. conn \in [Conns -> [pc: {"idle", "acquire", "open"}, route: Routes \cup {None},
                             now: 0..clock, gen: Nat]]
      BY <2>5 DEF TInv
    <2>7. bucket \in [Routes -> Bucket \cup {None}]
      BY <2>2 DEF TInv
    <2>8. QED BY <2>1, <2>4, <2>6, <2>7 DEF TypeOK, TInv
  <1>4. QED BY <1>1, <1>2, <1>3, PTL DEF Spec

------------------------------------------------------------------------------
(* The sustained rate.                                                     *)

\* What has been granted in the window and what the bucket still holds were in
\* a full bucket at the start or have dripped in since.  A bucket not yet
\* refilled in the window, or none, means that nothing was granted yet, or that
\* the grants are so old that any later call finds them refilled.
SpentInv(r) ==
  IF bucket[r] # None /\ bucket[r].lastFill >= winStart
  THEN spent[r] + bucket[r].tokens <= Burst + bucket[r].lastFill - winStart
  ELSE spent[r] = 0 \/ spent[r] + winStart + MaxStall <= clock

LEMMA SpentOther ==
  ASSUME SweepSafe, TInv, TimeInv, Other, NEW r \in Routes, SpentInv(r)
  PROVE  SpentInv(r)'
  <1>1. /\ spent' = spent /\ winStart' = winStart /\ clock' >= clock
        /\ clock \in Nat /\ clock' \in Nat /\ winStart \in Nat /\ spent[r] \in Nat
    <2>1. spent' = spent /\ winStart' = winStart
      BY DEF Other, Tick, SweepTick, Sweep, vars, AllowBegin, AcquireBegin,
             AcquireConn, Release
    <2>2. clock' >= clock /\ clock' \in Nat
      BY Frame, Steps DEF TInv, Tick
    <2>3. QED BY <2>1, <2>2 DEF TInv
  <1>2. bucket[r] # None => /\ bucket[r] \in BType /\ bucket[r].tokens \in 0..Burst
                            /\ bucket[r].lastFill \in Nat /\ bucket[r].lastUsed \in Nat
    BY DEF TInv, BType
  <1>3. CASE Kept(r)
    BY <1>1, <1>2, <1>3, LimiterAssumption DEF Kept, SpentInv
  <1>4. CASE Evicted(r) /\ clock' = clock
    <2>1. /\ sweep \in Nat /\ sweep <= clock
          /\ bucket[r].lastFill <= bucket[r].lastUsed + MaxStall
          /\ sweep - bucket[r].lastUsed > IdleTTL
      BY <1>4 DEF TInv, TimeInv, Evicted
    <2>2. CASE bucket[r].lastFill >= winStart
      <3>1. spent[r] + bucket[r].tokens <= Burst + bucket[r].lastFill - winStart
        BY <1>4, <2>2 DEF SpentInv, Evicted
      <3>2. bucket[r].lastFill + Burst + MaxStall <= clock
        BY <1>1, <1>2, <1>4, <2>1, LimiterAssumption DEF SweepSafe, Evicted
      <3>3. spent[r] + winStart + MaxStall <= clock
        BY <1>1, <1>2, <1>4, <3>1, <3>2, LimiterAssumption DEF Evicted
      <3>4. QED BY <1>1, <1>4, <3>3 DEF SpentInv, Evicted
    <2>3. CASE ~(bucket[r].lastFill >= winStart)
      BY <1>1, <1>4, <2>3 DEF SpentInv, Evicted
    <2>4. QED BY <2>2, <2>3
  <1>5. ASSUME NEW now \in Nat, now <= clock, clock <= now + MaxStall, clock' = clock, Touched(r, now)
        PROVE  SpentInv(r)'
    <2>1. bucket'[r] # None
      BY <1>5, NotNone DEF Touched
    <2>2. CASE bucket[r] # None
      <3>1. bucket'[r].tokens = bucket[r].tokens /\ bucket'[r].lastFill = bucket[r].lastFill
        BY <1>5, <2>2, LookupType DEF Touched
      <3>2. QED BY <1>1, <1>5, <2>1, <2>2, <3>1 DEF SpentInv
    <2>3. CASE bucket[r] = None
      <3>1. bucket'[r].tokens = Burst /\ bucket'[r].lastFill = now
        BY <1>5, <2>3, LookupType DEF Touched
      <3>2. spent[r] = 0 \/ spent[r] + winStart + MaxStall <= clock
        BY <2>3 DEF SpentInv
      <3>3. QED BY <1>1, <1>5, <2>1, <3>1, <3>2, LimiterAssumption DEF SpentInv
    <2>4. QED BY <2>2, <2>3
  <1>6. QED BY <1>3, <1>4, <1>5, OtherEffect

\* Allow counts and dates a grant of its own tenant only.
LEMMA AllowOthersGrant ==
  ASSUME TInv, NEW q \in Queries, Allow(q), NEW r \in Routes, query[q].route # r
  PROVE  grantedAt'[r] = grantedAt[r] /\ spent'[r] = spent[r]
  <1> DEFINE o == query[q].route
  <1>1. /\ grantedAt' = grantedAt \/ grantedAt' = [grantedAt EXCEPT ![o] = clock]
        /\ spent' = spent \/ spent' = [spent EXCEPT ![o] = @ + Cost]
    BY DEF Allow
  <1>2. grantedAt \in [Routes -> Int] /\ spent \in [Routes -> Nat] /\ o # r
    BY DEF TInv
  <1> HIDE DEF o
  <1>3. QED BY <1>1, <1>2

LEMMA SpentAllow ==
  ASSUME TInv, TimeInv, NEW q \in Queries, Allow(q), NEW r \in Routes, SpentInv(r)
  PROVE  SpentInv(r)'
  <1> DEFINE now == query[q].now
             b == Lookup(r, now)
             s == Seen(q)
             ok == s.tokens >= Cost
  <1>1. /\ winStart' = winStart /\ clock' = clock
        /\ clock \in Nat /\ winStart \in Nat /\ spent[r] \in Nat
        /\ now \in Nat /\ now <= clock /\ clock <= now + MaxStall
    BY DEF Allow, TInv, TimeInv
  <1>2. CASE query[q].route # r
    <2> HIDE DEF now, b, s, ok
    <2>1. bucket'[r] = bucket[r]
      BY <1>2, AllowEffect
    <2>2. spent'[r] = spent[r]
      BY <1>2, AllowOthersGrant
    <2>3. QED BY <1>1, <2>1, <2>2 DEF SpentInv
  <1>3. CASE query[q].route = r
    <2>1. /\ b \in BType /\ b.tokens \in 0..Burst /\ b.lastFill \in Nat
          /\ bucket[r] # None => b = bucket[r]
          /\ bucket[r] = None => b.tokens = Burst /\ b.lastFill = now
      BY <1>1, LookupType DEF BType
    <2>2. /\ s \in BType /\ s.tokens \in 0..Burst
          /\ IF now <= b.lastFill THEN s = b
             ELSE s.lastFill = now /\ s.tokens
                    = IF b.tokens + now - b.lastFill > Burst
                      THEN Burst ELSE b.tokens + now - b.lastFill
      BY <1>1, <1>3, <2>1, RefillEffect DEF Seen, BType
    <2>3. /\ bucket'[r] # None /\ bucket'[r].lastFill = s.lastFill
          /\ bucket'[r].tokens = IF ok THEN s.tokens - Cost ELSE s.tokens
      BY <1>3, AllowEffect, NotNone
    <2>4. spent'[r] = IF ok /\ now >= winStart THEN spent[r] + Cost ELSE spent[r]
      <3>1. [s EXCEPT !.lastUsed = now].tokens = s.tokens
        BY <2>2 DEF BType
      <3>2. QED BY <1>3, <3>1 DEF Allow, TInv, Seen
    <2>5. s.lastFill \in Nat /\ s.lastFill >= now
      BY <1>1, <2>1, <2>2
    <2>6. s.lastFill >= winStart => spent[r] + s.tokens <= Burst + s.lastFill - winStart
      <3> SUFFICES ASSUME s.lastFill >= winStart
                   PROVE  spent[r] + s.tokens <= Burst + s.lastFill - winStart
        OBVIOUS
      <3>1. CASE bucket[r] # None /\ b.lastFill >= winStart
        <4>1. spent[r] + b.tokens <= Burst + b.lastFill - winStart
          BY <2>1, <3>1 DEF SpentInv
        <4> HIDE DEF b, s
        <4>2. QED BY <1>1, <2>1, <2>2, <4>1, LimiterAssumption
      <3>2. CASE ~(bucket[r] # None /\ b.lastFill >= winStart)
        <4>1. spent[r] = 0 \/ spent[r] + winStart + MaxStall <= clock
          BY <2>1, <3>2 DEF SpentInv
        <4>2. s.lastFill = now
          BY <1>1, <2>1, <2>2, <3>2
        <4> HIDE DEF b, s
        <4>3. QED BY <1>1, <2>1, <2>2, <4>1, <4>2, LimiterAssumption
      <3>3. QED BY <3>1, <3>2
    <2>7. ~(s.lastFill >= winStart) => spent[r] = 0 \/ spent[r] + winStart + MaxStall <= clock
      BY <1>1, <2>1, <2>2 DEF SpentInv
    <2> HIDE DEF s
    <2>8. QED BY <1>1, <2>2, <2>3, <2>4, <2>5, <2>6, <2>7, LimiterAssumption DEF SpentInv
  <1>4. QED BY <1>2, <1>3

\* Allow (ratelimit.go:58) lets no tenant exceed the configured rate by more
\* than one full bucket in any window, as long as a bucket is not swept before
\* it could have refilled.
THEOREM SustainedRate ==
  ASSUME SweepSafe
  PROVE  Spec => []WindowBound
  <1> DEFINE I == TInv /\ TimeInv /\ \A r \in Routes : SpentInv(r)
  <1>1. Init => I
    <2>1. Init => \A r \in Routes : SpentInv(r)
      BY DEF Init, SpentInv
    <2>2. QED BY <2>1, InitTime
  <1>2. I /\ [Next]_vars => I'
    <2> SUFFICES ASSUME I, [Next]_vars PROVE I'
      OBVIOUS
    <2>1. TInv' /\ TimeInv'
      BY TypeStep, TimeStep
    <2>2. \A r \in Routes : SpentInv(r)'
      BY Steps, SpentOther, SpentAllow
    <2>3. QED BY <2>1, <2>2
  <1>3. I => WindowBound
    <2> SUFFICES ASSUME I, NEW r \in Routes
                 PROVE  spent[r] <= (IF clock < winStart THEN 0 ELSE Burst + clock - winStart)
      BY DEF WindowBound
    <2>1. /\ clock \in Nat /\ winStart \in Nat /\ spent[r] \in Nat
          /\ bucket[r] # None => /\ bucket[r].tokens \in 0..Burst /\ bucket[r].lastFill \in Nat
                                 /\ bucket[r].lastFill <= clock
      BY DEF TInv, TimeInv, BType
    <2>2. QED BY <2>1, LimiterAssumption DEF SpentInv
  <1>4. QED BY <1>1, <1>2, <1>3, PTL DEF Spec

------------------------------------------------------------------------------
(* Nobody who keeps to the rate is throttled.                              *)

\* A bucket holds at least what has dripped in since the last grant.
PaceInv(r) ==
  /\ grantedAt[r] <= clock
  /\ bucket[r] # None => \/ bucket[r].tokens >= Burst
                         \/ bucket[r].tokens >= bucket[r].lastFill - grantedAt[r]
  /\ \A q \in Queries : query[q].pc = "refused" /\ query[q].route = r
       => query[q].now < grantedAt[r] + Cost

LEMMA PaceOther ==
  ASSUME TInv, TimeInv, Other, NEW r \in Routes, PaceInv(r)
  PROVE  PaceInv(r)'
  <1>1. grantedAt' = grantedAt /\ grantedAt[r] \in Int /\ clock \in Nat
    BY DEF Other, Tick, SweepTick, Sweep, vars, AllowBegin, AcquireBegin,
           AcquireConn, Release, TInv
  <1>2. clock' >= clock /\ clock' \in Nat
    BY Frame, Steps DEF TInv, Tick
  <1>3. \A q \in Queries : query'[q].pc = "refused" => query'[q] = query[q]
    <2>1. CASE query' = query
      BY <2>1
    <2>2. ASSUME NEW q \in Queries, AllowBegin(q)
          PROVE  \A x \in Queries : query'[x].pc = "refused" => query'[x] = query[x]
      BY <2>2 DEF AllowBegin, TInv
    <2>3. query' = query \/ \E q \in Queries : AllowBegin(q)
      BY DEF Other, Tick, SweepTick, Sweep, vars, AcquireBegin,
             AcquireConn, Release
    <2>4. QED BY <2>1, <2>2, <2>3
  <1>4. bucket'[r] # None => \/ bucket'[r].tokens >= Burst
                            \/ bucket'[r].tokens >= bucket'[r].lastFill - grantedAt[r]
    <2>1. CASE Kept(r)
      BY <2>1 DEF Kept, PaceInv
    <2>2. ASSUME NEW now \in Nat, Touched(r, now)
          PROVE  \/ bucket'[r].tokens >= Burst
                 \/ bucket'[r].tokens >= bucket'[r].lastFill - grantedAt[r]
      <3>1. CASE bucket[r] = None
        BY <2>2, <3>1, LookupType, LimiterAssumption DEF Touched
      <3>2. CASE bucket[r] # None
        BY <2>2, <3>2, LookupType DEF Touched, PaceInv
      <3>3. QED BY <3>1, <3>2
    <2>3. QED BY <2>1, <2>2, OtherEffect DEF Evicted
  <1>5. QED BY <1>1, <1>2, <1>3, <1>4 DEF PaceInv

LEMMA PaceAllow ==
  ASSUME TInv, TimeInv, NEW q \in Queries, Allow(q), NEW r \in Routes, PaceInv(r)
  PROVE  PaceInv(r)'
  <1> DEFINE now == query[q].now
             b == Lookup(r, now)
             s == Seen(q)
             ok == s.tokens >= Cost
  <1>1. /\ clock' = clock /\ clock \in Nat /\ grantedAt[r] \in Int
        /\ now \in Nat /\ now <= clock
    BY DEF Allow, TInv, TimeInv
  <1>2. CASE query[q].route # r
    <2> HIDE DEF now, b, s, ok
    <2>1. bucket'[r] = bucket[r]
      BY <1>2, AllowEffect
    <2>2. query'[q].route # r /\ \A x \in Queries \ {q} : query'[x] = query[x]
      BY <1>2, AllowEffect
    <2>3. grantedAt'[r] = grantedAt[r]
      BY <1>2, AllowOthersGrant
    <2>4. QED BY <1>1, <2>1, <2>2, <2>3 DEF PaceInv
  <1>3. CASE query[q].route = r
    <2>1. /\ b \in BType /\ b.tokens \in 0..Burst /\ b.lastFill \in Nat /\ b.lastFill <= clock
          /\ b.tokens >= Burst \/ b.tokens >= b.lastFill - grantedAt[r]
      <3>1. CASE bucket[r] = None
        BY <1>1, <3>1, LookupType, LimiterAssumption DEF BType
      <3>2. CASE bucket[r] # None
        BY <1>1, <3>2, LookupType DEF BType, PaceInv, TimeInv
      <3>3. QED BY <3>1, <3>2
    <2>2. /\ s \in BType /\ s.tokens \in 0..Burst
          /\ IF now <= b.lastFill THEN s = b
             ELSE s.lastFill = now /\ s.tokens
                    = IF b.tokens + now - b.lastFill > Burst
                      THEN Burst ELSE b.tokens + now - b.lastFill
      BY <1>1, <1>3, <2>1, RefillEffect DEF Seen, BType
    <2>3. /\ s.lastFill \in Nat /\ now <= s.lastFill /\ s.lastFill <= clock
          /\ s.tokens >= Burst \/ s.tokens >= s.lastFill - grantedAt[r]
      <3> HIDE DEF b, s
      <3>1. QED BY <1>1, <2>1, <2>2, LimiterAssumption
    <2>4. /\ bucket'[r].lastFill = s.lastFill
          /\ bucket'[r].tokens = IF ok THEN s.tokens - Cost ELSE s.tokens
          /\ query'[q].pc = (IF ok THEN "granted" ELSE "refused")
          /\ query'[q].now = now
          /\ \A x \in Queries \ {q} : query'[x] = query[x]
      BY <1>3, AllowEffect
    <2>5. grantedAt'[r] = IF ok THEN clock ELSE grantedAt[r]
      <3>1. [s EXCEPT !.lastUsed = now].tokens = s.tokens
        BY <2>2 DEF BType
      <3>2. QED BY <1>3, <3>1 DEF Allow, TInv, Seen
    <2>6. \A x \in Queries : query[x].now \in Nat
      BY DEF TInv
    <2> HIDE DEF s, now
    <2>7. CASE ok
      BY <1>1, <2>2, <2>3, <2>4, <2>5, <2>6, <2>7, LimiterAssumption DEF PaceInv
    <2>8. CASE ~ok
      BY <1>1, <2>2, <2>3, <2>4, <2>5, <2>6, <2>8, LimiterAssumption DEF PaceInv
    <2>9. QED BY <2>7, <2>8
  <1>4. QED BY <1>2, <1>3

\* A query that Allow refuses began less than one refill after another query of
\* its tenant was let through, whatever was swept or arrived late in between.
THEOREM PacedTenantsServed == Spec => []PacedNeverRefused
  <1> DEFINE I == TInv /\ TimeInv /\ \A r \in Routes : PaceInv(r)
  <1>1. Init => I
    <2>1. Init => \A r \in Routes : PaceInv(r)
      BY LimiterAssumption DEF Init, PaceInv, NoQuery
    <2>2. QED BY <2>1, InitTime
  <1>2. I /\ [Next]_vars => I'
    <2> SUFFICES ASSUME I, [Next]_vars PROVE I'
      OBVIOUS
    <2>1. TInv' /\ TimeInv'
      BY TypeStep, TimeStep
    <2>2. \A r \in Routes : PaceInv(r)'
      BY Steps, PaceOther, PaceAllow
    <2>3. QED BY <2>1, <2>2
  <1>3. I => PacedNeverRefused
    BY DEF TInv, PaceInv, PacedNeverRefused
  <1>4. QED BY <1>1, <1>2, <1>3, PTL DEF Spec

------------------------------------------------------------------------------
(* Connections.                                                            *)

\* The bucket in the map is the one every open connection releases, and its
\* counter is their number.
ConnInv(r) ==
  /\ \A c \in Open(r) : bucket[r] # None /\ conn[c].gen = bucket[r].gen
  /\ bucket[r] # None => /\ bucket[r].conns = Cardinality(Open(r))
                         /\ bucket[r].conns <= MaxConns

LEMMA OpenFinite ==
  \A r : /\ IsFiniteSet(Open(r)) /\ Cardinality(Open(r)) \in Nat
         /\ Cardinality(Open(r)) = 0 <=> Open(r) = {}
  BY LimiterAssumption, FS_Subset, FS_CardinalityType, FS_EmptySet DEF Open

\* Open connections that no step touches, seen through another bucket record.
LEMMA ConnSame ==
  ASSUME TInv, NEW r \in Routes, ConnInv(r),
         \A c \in Conns : (c \in Open(r)) <=> (c \in Open(r)'),
         \A c \in Open(r) : conn'[c].gen = conn[c].gen,
         \/ bucket'[r] = bucket[r]
         \/ bucket[r] # None /\ bucket'[r] # None /\ bucket'[r].conns = bucket[r].conns
              /\ bucket'[r].gen = bucket[r].gen
         \/ bucket[r] = None /\ bucket'[r].conns = 0
         \/ bucket'[r] = None /\ bucket[r].conns = 0
  PROVE  ConnInv(r)'
  <1>1. Open(r)' = Open(r)
    BY DEF Open
  <1>2. Cardinality(Open(r)') = Cardinality(Open(r))
    BY <1>1
  <1>3. bucket[r] = None => Open(r) = {} /\ Cardinality(Open(r)) = 0
    BY OpenFinite DEF ConnInv
  <1>4. bucket[r] # None /\ bucket[r].conns = 0 => Open(r) = {}
    BY OpenFinite DEF ConnInv
  <1>5. QED BY <1>1, <1>2, <1>3, <1>4, LimiterAssumption DEF ConnInv

LEMMA ConnAllow ==
  ASSUME TInv, NEW q \in Queries, Allow(q), NEW r \in Routes, ConnInv(r)
  PROVE  ConnInv(r)'
  <1> DEFINE b == Lookup(r, query[q].now)
  <1>1. conn' = conn /\ query[q].now \in Nat
    BY DEF Allow, TInv
  <1>2. \A c \in Conns : (c \in Open(r)) <=> (c \in Open(r)')
    BY <1>1 DEF Open
  <1>3. CASE query[q].route # r
    BY <1>1, <1>2, <1>3, AllowEffect, ConnSame
  <1>4. CASE query[q].route = r
    <2>1. /\ b \in BType /\ Seen(q).conns = b.conns /\ Seen(q).gen = b.gen
          /\ bucket[r] # None => b = bucket[r]
          /\ bucket[r] = None => b.conns = 0
      BY <1>1, <1>4, LookupType, RefillEffect DEF Seen
    <2>2. bucket'[r] # None /\ bucket'[r].conns = b.conns /\ bucket'[r].gen = b.gen
      BY <1>4, <2>1, AllowEffect, NotNone
    <2>3. QED BY <1>1, <1>2, <2>1, <2>2, ConnSame
  <1>5. QED BY <1>3, <1>4

LEMMA ConnAcquire ==
  ASSUME MaxConns > 0, TInv, NEW c \in Conns, AcquireConn(c), NEW r \in Routes, ConnInv(r)
  PROVE  ConnInv(r)'
  <1> DEFINE b == Lookup(r, conn[c].now)
  <1>1. conn[c].pc = "acquire" /\ c \notin Open(r)
    BY DEF AcquireConn, Open
  <1>2. CASE conn[c].route # r
    <2>1. \A x \in Conns : (x \in Open(r)) <=> (x \in Open(r)')
      BY <1>2, AcquireEffect DEF Open, NoConn
    <2>2. \A x \in Open(r) : conn'[x] = conn[x]
      BY <1>1, AcquireEffect DEF Open
    <2>3. QED BY <1>2, <2>1, <2>2, AcquireEffect, ConnSame DEF Kept
  <1>3. CASE conn[c].route = r
    <2>1. /\ b \in BType /\ bucket'[r] # None /\ bucket'[r].gen = b.gen
          /\ bucket[r] # None => b = bucket[r]
          /\ bucket[r] = None => b.conns = 0
      BY <1>3, AcquireEffect, LookupType, NotNone DEF Touched
    <2>2. \A x \in Conns \ {c} : conn'[x] = conn[x]
      BY AcquireEffect
    <2>3. CASE b.conns >= MaxConns
      <3>1. bucket'[r].conns = b.conns /\ conn'[c] = NoConn
        BY <1>3, <2>3, AcquireEffect
      <3>2. \A x \in Conns : (x \in Open(r)) <=> (x \in Open(r)')
        BY <1>1, <2>2, <3>1 DEF Open, NoConn
      <3>3. \A x \in Open(r) : conn'[x] = conn[x]
        BY <1>1, <2>2 DEF Open
      <3>4. QED BY <2>1, <3>1, <3>2, <3>3, ConnSame
    <2>4. CASE ~(b.conns >= MaxConns)
      <3>1. /\ bucket'[r].conns = b.conns + 1
            /\ conn'[c].pc = "open" /\ conn'[c].route = r /\ conn'[c].gen = b.gen
        BY <1>3, <2>4, AcquireEffect
      <3>2. Open(r)' = Open(r) \cup {c}
        BY <1>1, <2>2, <3>1 DEF Open
      <3>3. Cardinality(Open(r)') = Cardinality(Open(r)) + 1
        BY <1>1, <3>2, OpenFinite, FS_AddElement
      <3>4. b.conns = Cardinality(Open(r)) /\ b.conns \in Nat
        BY <2>1, OpenFinite DEF ConnInv, BType
      <3>5. \A x \in Open(r)' : conn'[x].gen = b.gen
        <4>1. \A x \in Open(r) : conn[x].gen = b.gen /\ conn'[x] = conn[x]
          BY <1>1, <2>1, <2>2 DEF ConnInv, Open
        <4>2. QED BY <3>1, <3>2, <4>1
      <3>6. bucket'[r].conns = Cardinality(Open(r)') /\ bucket'[r].conns <= MaxConns
        BY <2>4, <3>1, <3>3, <3>4, LimiterAssumption
      <3>7. QED BY <2>1, <3>5, <3>6 DEF ConnInv
    <2>5. QED BY <2>3, <2>4
  <1>4. QED BY <1>2, <1>3

LEMMA ConnRelease ==
  ASSUME MaxConns > 0, TInv, NEW c \in Conns, Release(c), NEW r \in Routes, ConnInv(r)
  PROVE  ConnInv(r)'
  <1>1. /\ conn'[c] = NoConn /\ conn[c].pc = "open" /\ c \in Open(conn[c].route)
        /\ \A x \in Conns \ {c} : conn'[x] = conn[x]
    BY DEF Release, TInv, Open
  <1>2. CASE conn[c].route # r
    <2>1. \A x \in Conns : (x \in Open(r)) <=> (x \in Open(r)')
      BY <1>1, <1>2 DEF Open, NoConn
    <2>2. \A x \in Open(r) : conn'[x] = conn[x]
      BY <1>1, <1>2 DEF Open
    <2>3. QED BY <1>2, <2>1, <2>2, ReleaseEffect, ConnSame DEF Kept
  <1>3. CASE conn[c].route = r
    <2>1. /\ bucket[r] # None /\ bucket[r].gen = conn[c].gen
          /\ bucket[r].conns = Cardinality(Open(r)) /\ bucket[r].conns <= MaxConns
      BY <1>1, <1>3 DEF ConnInv
    <2>2. Open(r) # {} /\ Cardinality(Open(r)) \in Nat /\ bucket[r].conns > 0
      BY <1>1, <1>3, <2>1, OpenFinite
    <2>3. Touched(r, clock) /\ bucket'[r].conns = bucket[r].conns - 1
      BY <1>3, <2>1, <2>2, ReleaseEffect
    <2>4. bucket'[r] # None /\ bucket'[r].gen = bucket[r].gen
      BY <2>1, <2>3, NotNone, LookupType DEF Touched, TInv
    <2>5. Open(r)' = Open(r) \ {c}
      BY <1>1 DEF Open, NoConn
    <2>6. Cardinality(Open(r)') = Cardinality(Open(r)) - 1
      BY <1>1, <1>3, <2>5, OpenFinite, FS_RemoveElement
    <2>7. \A x \in Open(r)' : conn'[x].gen = bucket[r].gen
      BY <1>1, <2>5 DEF ConnInv, Open
    <2>8. QED BY <2>1, <2>2, <2>3, <2>4, <2>6, <2>7, LimiterAssumption DEF ConnInv
  <1>4. QED BY <1>2, <1>3

LEMMA ConnRest ==
  ASSUME MaxConns > 0, TInv, NEW r \in Routes, ConnInv(r),
         \/ Tick \/ SweepTick \/ Sweep \/ UNCHANGED vars
         \/ \E q \in Queries : AllowBegin(q)
         \/ \E c \in Conns : AcquireBegin(c)
  PROVE  ConnInv(r)'
  <1>1. CASE Sweep
    <2>1. conn' = conn /\ (Kept(r) \/ Evicted(r))
      BY <1>1, SweepEffect DEF Sweep
    <2>2. \A c \in Conns : (c \in Open(r)) <=> (c \in Open(r)')
      BY <2>1 DEF Open
    <2>3. QED BY <2>1, <2>2, ConnSame DEF Kept, Evicted
  <1>2. CASE UNCHANGED <<conn, bucket>>
    <2>1. \A c \in Conns : (c \in Open(r)) <=> (c \in Open(r)')
      BY <1>2 DEF Open
    <2>2. QED BY <1>2, <2>1, ConnSame
  <1>3. ASSUME NEW c \in Conns, AcquireBegin(c) PROVE ConnInv(r)'
    <2>1. /\ bucket' = bucket /\ c \notin Open(r) /\ conn'[c].pc = "acquire"
          /\ \A x \in Conns \ {c} : conn'[x] = conn[x]
      BY <1>3 DEF AcquireBegin, TInv, Open
    <2>2. \A x \in Conns : (x \in Open(r)) <=> (x \in Open(r)')
      BY <2>1 DEF Open
    <2>3. \A x \in Open(r) : conn'[x] = conn[x]
      BY <2>1 DEF Open
    <2>4. QED BY <2>1, <2>2, <2>3, ConnSame
  <1>4. Tick \/ SweepTick \/ UNCHANGED vars => UNCHANGED <<conn, bucket>>
    BY DEF Tick, SweepTick, vars
  <1>5. (\E q \in Queries : AllowBegin(q)) => UNCHANGED <<conn, bucket>>
    BY DEF AllowBegin
  <1>6. QED BY <1>1, <1>2, <1>3, <1>4, <1>5

\* While connections are counted at all, the cap and the count are invariants
\* together (AcquireConn, ReleaseConn and the sweeper, ratelimit.go).
LEMMA Connections == Spec => [](ConnCap /\ ConnsCounted)
  <1>1. CASE MaxConns > 0
    <2> DEFINE I == TInv /\ TimeInv /\ \A r \in Routes : ConnInv(r)
    <2>1. Init => I
      <3>1. Init => \A r \in Routes : ConnInv(r)
        BY DEF Init, ConnInv, Open, NoConn
      <3>2. QED BY <3>1, InitTime
    <2>2. I /\ [Next]_vars => I'
      <3> SUFFICES ASSUME I, [Next]_vars PROVE I'
        OBVIOUS
      <3>1. TInv' /\ TimeInv'
        BY TypeStep, TimeStep
      <3>2. \A r \in Routes : ConnInv(r)'
        BY <1>1, Steps, ConnAllow, ConnAcquire, ConnRelease, ConnRest DEF Other
      <3>3. QED BY <3>1, <3>2
    <2>3. I => ConnCap /\ ConnsCounted
      <3> SUFFICES ASSUME I, NEW r \in Routes
                   PROVE  /\ Cardinality(Open(r)) <= MaxConns
                          /\ Cardinality(Open(r)) = IF bucket[r] = None THEN 0 ELSE bucket[r].conns
        BY DEF ConnCap, ConnsCounted
      <3>1. bucket[r] = None => Cardinality(Open(r)) = 0
        BY OpenFinite DEF ConnInv
      <3>2. QED BY <1>1, <3>1, LimiterAssumption DEF ConnInv
    <2>4. QED BY <2>1, <2>2, <2>3, PTL DEF Spec
  <1>2. CASE ~(MaxConns > 0)
    <2>1. ConnCap /\ ConnsCounted
      BY <1>2 DEF ConnCap, ConnsCounted
    <2>2. QED BY <2>1, PTL
  <1>3. QED BY <1>1, <1>2

\* AcquireConn (ratelimit.go:96) holds every tenant to max_conns_per_tenant.
THEOREM ConnectionsCapped == Spec => []ConnCap
  BY Connections, PTL

\* Every slot AcquireConn takes is given back by ReleaseConn: the counter never
\* drifts, through evictions and releases that come late ("its counter is the
\* only record of them", ratelimit.go:145).
THEOREM ConnectionsCounted == Spec => []ConnsCounted
  BY Connections, PTL
==============================================================================
