----------------------------- MODULE AnswerCache -----------------------------
(***************************************************************************)
(* The resolver's shared answer cache (resolver/cache.go) with the two     *)
(* places that use it: the end of Resolve (resolver/resolve.go), which     *)
(* looks a question up, forwards it on a miss, drops private addresses     *)
(* (resolver/rebind.go) and stores what is left, and the sweeper.          *)
(*                                                                         *)
(* Every query runs in its own goroutine.  Get reads the entry under the   *)
(* lock, compares it with the clock outside it, and takes the lock again   *)
(* to delete an expired one; Put reads the clock before it takes the lock. *)
(* Entries are overtaken, expire and are deleted in between.               *)
(*                                                                         *)
(* There is no absolute clock.  An entry carries its age, the whole        *)
(* seconds since storedAt, which a tick advances wherever a copy of the    *)
(* entry is held; an age beyond the entry's life is not told apart.        *)
(***************************************************************************)
EXTENDS Integers, FiniteSetsExt

CONSTANTS
  Clients,     \* goroutines, each serving one query after another
  Questions,   \* [name, type, do]: do is the DNSSEC OK bit of the request
  NamedTypes,  \* the types dns.TypeToString has a name for
  Exempt,      \* names rebinding protection leaves alone; all when it is off
  Messages,    \* [answer, auth, tc]: what upstreams reply
  MinTTL, NegTTL, MaxTTL,  \* minCacheTTL, negativeTTL, maxCacheTTL
  Nothing

\* A record of the answer section is its TTL and whether it is an A or AAAA
\* record with an address rebinding protection drops.
Records == [ttl: Nat, private: BOOLEAN]

ASSUME CacheAssumption ==
  /\ "" \notin NamedTypes
  /\ MinTTL \in Nat /\ NegTTL \in MinTTL..MaxTTL /\ MaxTTL \in Nat
  /\ Messages \subseteq [answer: SUBSET Records, auth: SUBSET Nat, tc: BOOLEAN]
  /\ \A msg \in Messages : IsFiniteSet(msg.answer) /\ IsFiniteSet(msg.auth)

VARIABLES
  cache,  \* cache[k]: the entry under key k, or Nothing
  client  \* client[c]: pc, question, the entry in hand, the last reply

cacheVars == <<cache, client>>

\* Mutant: answers of all types share a key.
CacheKey_NameOnly(q) == <<q.name, "">>

\* TypeToString of a type without a name is empty.
CacheKey(q) == <<q.name, IF q.type \in NamedTypes THEN q.type ELSE "">>
CacheKeys   == {CacheKey(q) : q \in Questions}

Idle == [pc |-> "idle", q |-> Nothing, entry |-> Nothing, reply |-> Nothing]

CacheInit ==
  /\ cache = [k \in CacheKeys |-> Nothing]
  /\ client = [c \in Clients |-> Idle]

------------------------------------------------------------------------------
(* Messages and their lifetimes.                                           *)

TTLs(msg) == {rr.ttl : rr \in msg.answer} \cup msg.auth

\* Mutant: an answer that is private throughout is left alone.
Filtered_Mixed(q, answer) ==
  IF \A rr \in answer : rr.private THEN answer ELSE {rr \in answer : ~rr.private}

\* filterRebind: the private addresses of a reply are dropped.
Filtered(q, answer) ==
  IF q.name \in Exempt THEN answer ELSE {rr \in answer : ~rr.private}

\* How long Put keeps a message: its least TTL, or NegTTL without an answer.
Life(msg) ==
  LET ttl == IF msg.answer = {} THEN NegTTL ELSE Min(TTLs(msg))
  IN  Min({Max({ttl, MinTTL}), MaxTTL})

\* Mutant: the TTL is handed out as it came.
CountDown_Not(ttl, age) == ttl

\* adjustTTL.
CountDown(ttl, age) == IF ttl > age THEN ttl - age ELSE 1

\* A reply as a client gets it: the question the message answers, its records,
\* its age, and each TTL with what has become of it.
ReplyOf(e, ttls) ==
  [of |-> e.of, answer |-> e.msg.answer, age |-> e.age, ttls |-> ttls]

------------------------------------------------------------------------------
(* One query.                                                              *)

\* Client c goes on with its question.
Goes(c, pc, entry, reply) ==
  client' = [client EXCEPT ![c] =
               [pc |-> pc, q |-> client[c].q, entry |-> entry, reply |-> reply]]

\* Get, up to the end of the read lock.
Look(c) ==
  /\ client[c].pc \in {"idle", "answered"}
  /\ \E q \in Questions :
       LET e == cache[CacheKey(q)]
       IN  client' = [client EXCEPT ![c] =
                        [pc |-> IF e = Nothing THEN "forward" ELSE "found",
                         q |-> q, entry |-> e, reply |-> Nothing]]
  /\ UNCHANGED cache

\* The entry is not after its expiry, which is within the second Life begins.
Hit(c) ==
  /\ client[c].pc = "found"
  /\ LET e == client[c].entry
     IN  /\ e.age <= e.life
         /\ Goes(c, "answered", Nothing,
                 ReplyOf(e, {<<t, CountDown(t, e.age)>> : t \in TTLs(e.msg)}))
  /\ UNCHANGED cache

\* The entry has expired: whatever is under its key by now is deleted.
Expire(c) ==
  /\ client[c].pc = "found"
  /\ client[c].entry.age >= client[c].entry.life
  /\ cache' = [cache EXCEPT ![CacheKey(client[c].q)] = Nothing]
  /\ Goes(c, "forward", Nothing, Nothing)

\* An upstream replies; filterRebind; Put reads the clock.
Forward(c) ==
  /\ client[c].pc = "forward"
  /\ \E raw \in Messages :
       LET q   == client[c].q
           msg == [raw EXCEPT !.answer = Filtered(q, @)]
       IN  Goes(c, "put", [of |-> q, msg |-> msg, life |-> Life(msg), age |-> 0], Nothing)
  /\ UNCHANGED cache

\* No upstream replies: SERVFAIL, which is not cached.
ForwardFails(c) ==
  /\ client[c].pc = "forward"
  /\ client' = [client EXCEPT ![c] = Idle]
  /\ UNCHANGED cache

\* Put, under the lock, and the reply.
Put(c) ==
  /\ client[c].pc = "put"
  /\ LET e == client[c].entry
     IN  /\ cache' = IF e.msg.tc THEN cache
                     ELSE [cache EXCEPT ![CacheKey(client[c].q)] = e]
         /\ Goes(c, "answered", Nothing,
                 ReplyOf([e EXCEPT !.age = 0], {<<t, t>> : t \in TTLs(e.msg)}))

------------------------------------------------------------------------------
(* The sweeper and the clock.                                              *)

\* Mutant: negative answers are kept.
Sweep_KeepsNegative(k) ==
  /\ cache[k] # Nothing /\ cache[k].msg.answer # {}
  /\ cache[k].age >= cache[k].life
  /\ cache' = [cache EXCEPT ![k] = Nothing]
  /\ UNCHANGED client

\* The sweeper reaches the shard of key k and finds it expired.
Sweep(k) ==
  /\ cache[k] # Nothing
  /\ cache[k].age >= cache[k].life
  /\ cache' = [cache EXCEPT ![k] = Nothing]
  /\ UNCHANGED client

Older(e) == IF e = Nothing \/ e.age > e.life THEN e ELSE [e EXCEPT !.age = @ + 1]

\* A second passes.
Tick ==
  /\ cache' = [k \in CacheKeys |-> Older(cache[k])]
  /\ client' = [c \in Clients |-> [client[c] EXCEPT !.entry = Older(@)]]

CacheStep(c) == Look(c) \/ Hit(c) \/ Expire(c) \/ Forward(c) \/ ForwardFails(c) \/ Put(c)

CacheNext ==
  \/ \E c \in Clients : CacheStep(c)
  \/ \E k \in CacheKeys : Sweep(k)
  \/ Tick

CacheSpec == CacheInit /\ [][CacheNext]_cacheVars

\* Time passes and the sweeper's ticker keeps firing.
FairSpec == CacheSpec /\ WF_cacheVars(Tick) /\ \A k \in CacheKeys : WF_cacheVars(Sweep(k))

------------------------------------------------------------------------------
(* Properties.                                                             *)

Answered(c) == client[c].pc = "answered"

\* However entries are replaced, deleted and raced for, a client gets an answer
\* to its own question: of its name, and of its type unless that is one of the
\* types without a name, which share a key (cache.go:45).
AnswerFitsQuestion ==
  \A c \in Clients : Answered(c) =>
    LET q  == client[c].q
        of == client[c].reply.of
    IN  of.name = q.name /\ (q.type \in NamedTypes \/ of.type \in NamedTypes => of.type = q.type)

\* "so downstream caches do not extend its life" (cache.go:78), as far as it is
\* so: with what a client is told added to what the cache has held it, a record
\* outlives its TTL, or the floor under short and negative answers, by a second
\* at most, and nothing is served beyond the longest life.
Floor(answer) == IF answer = {} THEN NegTTL ELSE MinTTL
ServedFresh ==
  \A c \in Clients : Answered(c) =>
    LET r == client[c].reply
    IN  /\ r.age <= MaxTTL
        /\ \A t \in r.ttls : r.age + t[2] <= Max({t[1], Floor(r.answer)}) + 1

\* "so a rebinding answer is not stored and served to every later client from
\* cache" (resolve.go:211): no client, and not the one that fetched it, is
\* served a private address for a name that is not exempt.
NoPrivateServed ==
  \A c \in Clients : Answered(c) /\ client[c].q.name \notin Exempt =>
    \A rr \in client[c].reply.answer : ~rr.private

\* "drops expired entries so an idle cache does not grow forever"
\* (cache.go:153): when the queries stop, the cache ends up empty.
Quiet == \A c \in Clients : client[c].pc \in {"idle", "answered"}
IdleCacheEmpties == <>[]Quiet => <>[](cache = [k \in CacheKeys |-> Nothing])
==============================================================================
