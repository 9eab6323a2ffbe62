--------------------------- MODULE ServerLife_proofs ---------------------------
(***************************************************************************)
(* Proofs about ServerLife, for any set of processes, any migrations and   *)
(* any number of failures.                                                 *)
(*                                                                         *)
(* MigratedOnceInOrder needs that no process believes a migration recorded *)
(* that is not.  TLSListenersClosed needs the whole story of a listener:   *)
(* before Shutdown one that is open, or about to be, is among the closers; *)
(* afterwards it is among those still to be run, or will notice itself.    *)
(*                                                                         *)
(* The second half is about Identity, the resolver's other composition:    *)
(* a pair on its way to tenant_ips was credited when it was observed, and  *)
(* the probe recorder holds the last arrival until it is read or too old.  *)
(***************************************************************************)
EXTENDS ServerLife, Identity, TLAPS

StoreType ==
  /\ schema \subseteq Versions
  /\ applied \in [Versions -> Nat]
  /\ store \in [Procs -> [pc : {"closed", "migrating", "open"}, done : SUBSET Versions]]

\* What a process has read as recorded is recorded: nothing takes it back.
ReadIsRecorded == \A p \in Procs : store[p].done \subseteq schema

MigrationInv == StoreType /\ ReadIsRecorded /\ MigratedOnceInOrder

ListenerType ==
  /\ phase \in {"off", "running", "stopping", "closing", "closed"}
  /\ closed \in BOOLEAN
  /\ closers \in Seq(Transports) /\ todo \in Seq(Transports)
  /\ lst \in [All -> {"off", "started", "bound", "ready", "serving", "ended"}]
  /\ down \subseteq All

Among(k, s) == \E i \in 1 .. Len(s) : s[i] = k

\* closed goes with the phase, and no closer is left when Run has shut down.
Phases ==
  /\ closed <=> phase \in {"closing", "closed"}
  /\ phase = "closed" => todo = <<>>

\* ServeDoT registers once it listens.
DoTClosable ==
  /\ lst["dot"] # "ready"
  /\ lst["dot"] = "serving" => Among("dot", IF closed THEN todo ELSE closers)

\* ServeDoH registers before it listens: a server shut down earlier remembers.
DoHClosable ==
  /\ lst["doh"] = "serving" => Among("doh", IF closed THEN todo ELSE closers)
  /\ lst["doh"] = "ready"
       => Among("doh", IF closed THEN todo ELSE closers) \/ (closed /\ "doh" \in down)

ListenerInv == ListenerType /\ Phases /\ DoTClosable /\ DoHClosable

------------------------------------------------------------------------------
(* Migrations.                                                             *)

\* The initial state satisfies the invariant of the migrations.
LEMMA MigrationsBegin == MigrationsInit => MigrationInv
  BY DEF MigrationsInit, MigrationInv, StoreType, ReadIsRecorded, MigratedOnceInOrder, Closed

\* A migration that is pending at a process is one of all, and everything
\* lower is recorded already if it is the lowest.
LEMMA LowestPending ==
  ASSUME MigrationInv, NEW p \in Procs, NEW v \in Lowest(Pending(p))
  PROVE  /\ v \in Versions
         /\ \A w \in Versions : w < v => w \in schema
<1>1. v \in Known[p] /\ \A w \in Known[p] \ store[p].done : v <= w
  BY DEF Lowest, Pending
<1>2. v \in Versions /\ v \in Nat
  BY <1>1, MigrationsAssumption DEF Versions
<1>3. ASSUME NEW w \in Versions, w < v
      PROVE  w \in schema
  <2>1. PICK o \in Procs : w \in Known[o]
    BY DEF Versions
  <2>2. w \in Known[p] /\ w \in Nat
    BY <2>1, <1>1, <1>3, KnownFromTheFirst, MigrationsAssumption
  <2>3. w \in store[p].done
    BY <2>2, <1>1, <1>2, <1>3
  <2> QED
    BY <2>3 DEF MigrationInv, ReadIsRecorded
<1> QED
  BY <1>2, <1>3

\* The steps that leave the database alone keep the invariant.
LEMMA OpeningKeeps ==
  ASSUME MigrationInv, UNCHANGED <<schema, applied>>,
         NEW p \in Procs,
         NEW pc \in {"closed", "migrating", "open"}, NEW done \in {{}, schema, store[p].done},
         store' = [store EXCEPT ![p] = [pc |-> pc, done |-> done]]
  PROVE  MigrationInv'
  BY DEF MigrationInv, StoreType, ReadIsRecorded, MigratedOnceInOrder

\* A step of Migrate keeps the invariant.
LEMMA MigrateKeeps ==
  ASSUME MigrationInv, NEW p \in Procs, Migrate(p)
  PROVE  MigrationInv'
<1>1. PICK v \in Lowest(Pending(p)) :
        IF Conflict(v)
        THEN /\ store' = [store EXCEPT ![p].pc = "closed"]
             /\ UNCHANGED <<schema, applied>>
        ELSE /\ schema' = schema \cup {v}
             /\ applied' = [applied EXCEPT ![v] = @ + 1]
             /\ store' = [store EXCEPT ![p].done = @ \cup {v}]
  BY DEF Migrate
<1>2. CASE v \in schema
  <2>1. /\ store' = [store EXCEPT ![p].pc = "closed"]
        /\ UNCHANGED <<schema, applied>>
    BY <1>1, <1>2 DEF Conflict
  <2>2. store \in [Procs -> [pc : {"closed", "migrating", "open"}, done : SUBSET Versions]]
    BY DEF MigrationInv, StoreType
  <2>3. /\ store' \in [Procs -> [pc : {"closed", "migrating", "open"}, done : SUBSET Versions]]
        /\ \A q \in Procs : store'[q].done = store[q].done
    BY <2>1, <2>2
  <2>4. StoreType'
    BY <2>1, <2>3 DEF MigrationInv, StoreType
  <2>5. ReadIsRecorded'
    BY <2>1, <2>3 DEF MigrationInv, ReadIsRecorded
  <2>6. MigratedOnceInOrder'
    BY <2>1 DEF MigrationInv, MigratedOnceInOrder
  <2> QED
    BY <2>4, <2>5, <2>6 DEF MigrationInv
<1>3. CASE v \notin schema
  <2>1. /\ schema' = schema \cup {v}
        /\ applied' = [applied EXCEPT ![v] = @ + 1]
        /\ store' = [store EXCEPT ![p].done = @ \cup {v}]
    BY <1>1, <1>3 DEF Conflict
  <2>2. v \in Versions /\ \A w \in Versions : w < v => w \in schema
    BY LowestPending
  <2>3. StoreType'
    BY <2>1, <2>2 DEF MigrationInv, StoreType
  <2>4. ReadIsRecorded'
    BY <2>1 DEF MigrationInv, StoreType, ReadIsRecorded
  <2>5. MigratedOnceInOrder'
    BY <2>1, <2>2, <1>3 DEF MigrationInv, StoreType, MigratedOnceInOrder
  <2> QED
    BY <2>3, <2>4, <2>5 DEF MigrationInv
<1> QED
  BY <1>2, <1>3

\* Every step of a process keeps the invariant of the migrations.
LEMMA MigrationsGoOn ==
  ASSUME MigrationInv, NEW p \in Procs,
         \/ MigrationStep(p) \/ ProcessStops(p)
         \/ UNCHANGED <<schema, applied>> /\ store' = [store EXCEPT ![p] = Closed]
  PROVE  MigrationInv'
<1> DEFINE Becomes_(pc, done) == store' = [store EXCEPT ![p] = [pc |-> pc, done |-> done]]
<1>0. store[p].done \in SUBSET Versions /\ store \in [Procs -> [pc : {"closed", "migrating", "open"}, done : SUBSET Versions]]
  BY DEF MigrationInv, StoreType
<1>1. CASE OpenStore(p)
  BY <1>1, OpeningKeeps DEF OpenStore, ReadVersions
<1>2. CASE Migrate(p)
  BY <1>2, MigrateKeeps
<1>3. CASE Opened(p) \/ OpenStoreReadOnly(p)
  <2>1. Becomes_("open", store[p].done) /\ UNCHANGED <<schema, applied>>
    BY <1>3, <1>0 DEF Opened, OpenStoreReadOnly
  <2> QED
    BY <2>1, OpeningKeeps
<1>4. CASE MigrationFails(p) \/ ProcessStops(p)
  <2>1. Becomes_("closed", store[p].done) /\ UNCHANGED <<schema, applied>>
    BY <1>4, <1>0 DEF MigrationFails, ProcessStops
  <2> QED
    BY <2>1, OpeningKeeps
<1>5. CASE UNCHANGED <<schema, applied>> /\ store' = [store EXCEPT ![p] = Closed]
  BY <1>5, OpeningKeeps DEF Closed
<1> QED
  BY <1>1, <1>2, <1>3, <1>4, <1>5 DEF MigrationStep

------------------------------------------------------------------------------
(* Sequences of closers.                                                   *)

\* A closer that is registered is the last one, and the others stay.
LEMMA AppendAmong ==
  ASSUME NEW s \in Seq(Transports), NEW k \in Transports
  PROVE  /\ Append(s, k) \in Seq(Transports)
         /\ Among(k, Append(s, k))
         /\ \A x \in Transports : Among(x, s) => Among(x, Append(s, k))
<1>1. /\ Append(s, k) \in Seq(Transports)
      /\ Len(s) \in Nat /\ Len(Append(s, k)) = Len(s) + 1
      /\ Append(s, k)[Len(s) + 1] = k
      /\ \A i \in 1 .. Len(s) : Append(s, k)[i] = s[i]
  OBVIOUS
<1>2. Among(k, Append(s, k))
  <2>1. Len(s) + 1 \in 1 .. Len(Append(s, k))
    BY <1>1
  <2> QED
    BY <2>1, <1>1 DEF Among
<1>3. ASSUME NEW x \in Transports, Among(x, s)
      PROVE  Among(x, Append(s, k))
  <2>1. PICK i \in 1 .. Len(s) : s[i] = x
    BY <1>3 DEF Among
  <2>2. i \in 1 .. Len(Append(s, k)) /\ Append(s, k)[i] = x
    BY <2>1, <1>1
  <2> QED
    BY <2>2 DEF Among
<1> QED
  BY <1>1, <1>2, <1>3

\* When the first closer has been run, every other is still to come.
LEMMA TailAmong ==
  ASSUME NEW s \in Seq(Transports), s # <<>>
  PROVE  /\ Head(s) \in Transports /\ Tail(s) \in Seq(Transports)
         /\ \A x \in Transports : Among(x, s) => x = Head(s) \/ Among(x, Tail(s))
<1>1. /\ Head(s) \in Transports /\ Tail(s) \in Seq(Transports)
      /\ Len(s) \in Nat /\ Len(Tail(s)) = Len(s) - 1 /\ Head(s) = s[1]
      /\ \A i \in 1 .. Len(Tail(s)) : Tail(s)[i] = s[i + 1]
  OBVIOUS
<1>2. ASSUME NEW x \in Transports, Among(x, s), x # Head(s)
      PROVE  Among(x, Tail(s))
  <2>1. PICK i \in 1 .. Len(s) : s[i] = x
    BY <1>2 DEF Among
  <2>2. i # 1
    BY <2>1, <1>1, <1>2
  <2>3. i - 1 \in 1 .. Len(Tail(s)) /\ (i - 1) + 1 = i
    BY <2>1, <2>2, <1>1
  <2>4. Tail(s)[i - 1] = x
    BY <2>1, <2>3, <1>1
  <2> QED
    BY <2>3, <2>4 DEF Among
<1> QED
  BY <1>1, <1>2

\* There is no closer among none.
LEMMA NoneAmong == \A k \in Transports : ~Among(k, <<>>)
  BY DEF Among

------------------------------------------------------------------------------
(* Listeners.                                                              *)

\* A resolver that has not started, or has just, has nothing to close.
LEMMA ListenersBegin ==
  /\ ListenersInit => ListenerInv
  /\ \A ph \in {"off", "running"} : ListenersOff(ph) => ListenerInv'
<1>0. <<>> \in Seq(Transports) /\ "dot" \in All /\ "doh" \in All
  BY DEF All, Transports
<1>1. ASSUME ListenersInit
      PROVE  ListenerInv
  <2>1. ListenerType
    BY <1>0, <1>1 DEF ListenersInit, ListenerType
  <2>2. Phases /\ DoTClosable /\ DoHClosable
    BY <1>0, <1>1 DEF ListenersInit, Phases, DoTClosable, DoHClosable
  <2> QED
    BY <2>1, <2>2 DEF ListenerInv
<1>2. ASSUME NEW ph \in {"off", "running"}, ListenersOff(ph)
      PROVE  ListenerInv'
  <2>1. ListenerType'
    BY <1>0, <1>2 DEF ListenersOff, ListenerType
  <2>2. Phases' /\ DoTClosable' /\ DoHClosable'
    BY <1>0, <1>2 DEF ListenersOff, Phases, DoTClosable, DoHClosable
  <2> QED
    BY <2>1, <2>2 DEF ListenerInv
<1> QED
  BY <1>1, <1>2

\* Registering: the listener is among the closers, or was told it is late.
LEMMA TrackKeeps ==
  ASSUME ListenerInv, NEW k \in All, track(k)
  PROVE  ListenerInv'
<1>1. k \in Transports /\ lst \in [All -> {"off", "started", "bound", "ready", "serving", "ended"}]
      /\ closers \in Seq(Transports)
  BY DEF track, ListenerInv, ListenerType
<1>2. UNCHANGED <<phase, closed, todo, down, failed>>
  BY DEF track
<1>3. CASE Late
  <2>1. closed /\ lst' = [lst EXCEPT ![k] = "ended"] /\ UNCHANGED closers
    BY <1>3 DEF track, Late, Becomes
  <2>2. ListenerType' /\ Phases'
    BY <1>2, <2>1 DEF ListenerInv, ListenerType, Phases
  <2>3. DoTClosable' /\ DoHClosable'
    BY <1>1, <1>2, <2>1 DEF ListenerInv, DoTClosable, DoHClosable, All, Transports
  <2> QED
    BY <2>2, <2>3 DEF ListenerInv
<1>4. CASE ~Late
  <2>1. /\ ~closed /\ closers' = Append(closers, k)
        /\ lst' = [lst EXCEPT ![k] = IF k = "dot" THEN "serving" ELSE "ready"]
    BY <1>4 DEF track, Late, Becomes
  <2>2. /\ closers' \in Seq(Transports) /\ Among(k, closers')
        /\ \A x \in Transports : Among(x, closers) => Among(x, closers')
    BY <1>1, <2>1, AppendAmong
  <2>3. ListenerType' /\ Phases'
    BY <1>1, <1>2, <2>1, <2>2 DEF ListenerInv, ListenerType, Phases
  <2>4. DoTClosable'
    BY <1>1, <1>2, <2>1, <2>2 DEF ListenerInv, DoTClosable, All, Transports
  <2>5. DoHClosable'
    BY <1>1, <1>2, <2>1, <2>2 DEF ListenerInv, DoHClosable, All, Transports
  <2> QED
    BY <2>3, <2>4, <2>5 DEF ListenerInv
<1> QED
  BY <1>3, <1>4

\* Shutdown takes the closers registered so far.
LEMMA ShutdownKeeps ==
  ASSUME ListenerInv, Shutdown
  PROVE  ListenerInv'
<1>1. ~closed /\ closed' /\ phase' = "closing" /\ todo' = closers /\ closers' = <<>>
      /\ UNCHANGED <<lst, down, failed>>
  BY DEF ListenerInv, Phases, Shutdown
<1>2. ListenerType'
  BY <1>1 DEF ListenerInv, ListenerType, Shutdown
<1>3. Phases' /\ DoTClosable' /\ DoHClosable'
  BY <1>1 DEF ListenerInv, Phases, DoTClosable, DoHClosable
<1> QED
  BY <1>2, <1>3 DEF ListenerInv

\* Running a closer ends a listener that serves, and a server that does not
\* listen yet remembers.
LEMMA RunCloserKeeps ==
  ASSUME ListenerInv, RunCloser
  PROVE  ListenerInv'
<1> DEFINE k == Head(todo)
<1>1. /\ todo \in Seq(Transports) /\ todo # <<>> /\ phase = "closing" /\ closed
      /\ todo' = Tail(todo)
      /\ UNCHANGED <<phase, closed, closers, failed>>
  BY DEF RunCloser, ListenerInv, ListenerType, Phases
<1>2. /\ k \in Transports /\ todo' \in Seq(Transports)
      /\ \A x \in Transports : Among(x, todo) => x = k \/ Among(x, todo')
  BY <1>1, TailAmong
<1> HIDE DEF k
<1>3. /\ lst' = [lst EXCEPT ![k] = IF @ = "serving" THEN "ended" ELSE @]
      /\ down' = IF k = "plain" THEN down ELSE down \cup {k}
  BY DEF RunCloser, ShutServer, k
<1>4. ListenerType' /\ Phases'
  BY <1>1, <1>2, <1>3 DEF ListenerInv, ListenerType, Phases, All
<1>5. DoTClosable'
  BY <1>1, <1>2, <1>3 DEF ListenerInv, ListenerType, DoTClosable, All, Transports
<1>6. DoHClosable'
  BY <1>1, <1>2, <1>3 DEF ListenerInv, ListenerType, DoHClosable, All, Transports
<1> QED
  BY <1>4, <1>5, <1>6 DEF ListenerInv

\* The end of Shutdown concerns the admin API alone.
LEMMA ShutdownAdminKeeps ==
  ASSUME ListenerInv, ShutdownAdmin
  PROVE  ListenerInv'
<1> USE DEF ListenerInv, ListenerType, Phases, DoTClosable, DoHClosable, All, Transports
<1>1. CASE lst["admin"] # "started" /\ ShutServer("admin")
  BY <1>1 DEF ShutdownAdmin, ShutServer
<1>2. CASE UNCHANGED <<lst, down>>
  BY <1>2 DEF ShutdownAdmin
<1> QED
  BY <1>1, <1>2 DEF ShutdownAdmin

\* Every step of the listeners keeps their invariant.
LEMMA ListenersGoOn ==
  ASSUME ListenerInv, ListenerStep
  PROVE  ListenerInv'
<1> USE DEF ListenerInv, ListenerType, Phases, DoTClosable, DoHClosable, All, Transports
<1>1. CASE ListenDoT
  BY <1>1 DEF ListenDoT, Listen, Becomes
<1>2. CASE SetServer
  BY <1>2 DEF SetServer, Becomes
<1>3. CASE Stop
  BY <1>3 DEF Stop
<1>4. ASSUME NEW k \in All, ListenAndServe(k)
      PROVE  ListenerInv'
  BY <1>4 DEF ListenAndServe, Listen, Becomes
<1>5. ASSUME NEW k \in All, AcceptFails(k)
      PROVE  ListenerInv'
  BY <1>5 DEF AcceptFails, Becomes
<1> QED
  BY <1>1, <1>2, <1>3, <1>4, <1>5, TrackKeeps, ShutdownKeeps, RunCloserKeeps, ShutdownAdminKeeps
     DEF ListenerStep

------------------------------------------------------------------------------
(* The processes.                                                          *)

\* Both invariants hold from the start ...
LEMMA ServersBegin == Init => MigrationInv /\ ListenerInv
  BY MigrationsBegin, ListenersBegin DEF Init

\* ... and every step keeps them.
LEMMA ServersGoOn == MigrationInv /\ ListenerInv /\ [Next]_vars => (MigrationInv /\ ListenerInv)'
<1> SUFFICES ASSUME MigrationInv, ListenerInv, [Next]_vars
             PROVE  MigrationInv' /\ ListenerInv'
  OBVIOUS
<1> USE ResolverAssumption
<1>0. /\ UNCHANGED migrationVars => MigrationInv'
      /\ UNCHANGED listenerVars => ListenerInv'
  BY DEF MigrationInv, StoreType, ReadIsRecorded, MigratedOnceInOrder, migrationVars,
         ListenerInv, ListenerType, Phases, DoTClosable, DoHClosable, Among, listenerVars
<1>1. ASSUME NEW p \in Procs, MigrationStep(p) \/ ProcessStops(p), UNCHANGED listenerVars
      PROVE  MigrationInv' /\ ListenerInv'
  BY <1>0, <1>1, MigrationsGoOn
<1>2. CASE Run
  BY <1>0, <1>2, ListenersBegin DEF Run, Start
<1>3. CASE ListenerStep /\ UNCHANGED migrationVars
  BY <1>0, <1>3, ListenersGoOn
<1>4. CASE RunReturns
  BY <1>4, MigrationsGoOn, ListenersBegin DEF RunReturns, Exit
<1>5. CASE Killed
  BY <1>5, MigrationsGoOn, ListenersBegin DEF Killed
<1>6. CASE UNCHANGED vars
  BY <1>0, <1>6 DEF vars
<1> QED
  BY <1>1, <1>2, <1>3, <1>4, <1>5, <1>6 DEF Next

\* Every recorded migration was run exactly once and after all the lower ones,
\* however many processes start together and fail (migrate.go migrate).
THEOREM MigrationsRunOnce == Spec => []MigratedOnceInOrder
<1>1. MigrationInv => MigratedOnceInOrder
  BY DEF MigrationInv
<1> QED
  BY <1>1, ServersBegin, ServersGoOn, PTL DEF Spec

\* After Shutdown no TLS listener takes connections, wherever its goroutine
\* was when it began (listeners.go track, Shutdown).
THEOREM ShutdownCloses == Spec => []TLSListenersClosed
<1>1. ListenerInv => TLSListenersClosed
  <2> SUFFICES ASSUME ListenerInv, phase = "closed"
               PROVE  lst["dot"] # "serving" /\ lst["doh"] # "serving"
    BY DEF TLSListenersClosed
  <2>1. closed /\ todo = <<>>
    BY DEF ListenerInv, Phases
  <2> QED
    BY <2>1, NoneAmong DEF ListenerInv, DoTClosable, DoHClosable, Transports
<1> QED
  BY <1>1, ServersBegin, ServersGoOn, PTL DEF Spec

------------------------------------------------------------------------------
(* Who an address belongs to.                                              *)

Bindings == [IPs -> Routes \cup {None}]

\* A table binds an address only for a reason.
Reasoned(table) == \A i \in IPs : table[i] # None => <<table[i], i>> \in credited

\* A write goroutine carries a pair that was observed, so its reason is known.
BindInv ==
  /\ status \subseteq Routes
  /\ binding \in Bindings /\ Reasoned(binding)
  /\ snap \in [active: SUBSET Routes, byIP: Bindings] /\ Reasoned(snap.byIP)
  /\ writes \in [Pairs -> Nat]
  /\ \A p \in Pairs : writes[p] > 0 => p \in credited

\* The initial state satisfies the invariant.
LEMMA BindBegins == BindInit => BindInv
  BY DEF BindInit, BindInv, Bindings, Reasoned

\* Credit is never taken back, so a table remains reasoned.
LEMMA CreditStays ==
  ASSUME NEW table, Reasoned(table), credited \subseteq credited'
  PROVE  \A i \in IPs : table[i] # None => <<table[i], i>> \in credited'
  BY DEF Reasoned

\* A query binds nothing by itself, and only observes a tenant that is served.
LEMMA QueryBinds ==
  ASSUME BindInv, NEW r \in Routes, NEW i \in IPs, tenantFor(r, i)
  PROVE  BindInv'
<1>1. /\ UNCHANGED <<status, binding, snap>>
      /\ credited' = IF r \in snap.active THEN credited \cup {<<r, i>>} ELSE credited
  BY DEF tenantFor
<1>2. <<r, i>> \in Pairs
  BY DEF Pairs
<1>3. writes' = writes \/ (r \in snap.active /\ writes' = [writes EXCEPT ![<<r, i>>] = @ + 1])
  BY DEF tenantFor, observe, Observed
<1>4. /\ writes' \in [Pairs -> Nat]
      /\ \A p \in Pairs : writes'[p] > 0 => p \in credited'
  BY <1>1, <1>2, <1>3 DEF BindInv
<1> QED
  BY <1>1, <1>4 DEF BindInv, Reasoned

\* The steps of the binder and of the tables keep the invariant.
LEMMA BindStepKeeps ==
  ASSUME BindInv, BindStep
  PROVE  BindInv'
<1>1. ASSUME NEW p \in Pairs, WriteBinding(p) PROVE BindInv'
  <2>1. /\ UNCHANGED <<status, snap, credited>>
        /\ writes' = [writes EXCEPT ![p] = @ - 1] /\ writes[p] > 0
        /\ binding' = [binding EXCEPT ![p[2]] = p[1]]
    BY <1>1 DEF WriteBinding
  <2>2. p[1] \in Routes /\ p[2] \in IPs /\ p = <<p[1], p[2]>> /\ p \in credited
    BY <2>1 DEF BindInv, Pairs
  <2>3. binding' \in Bindings /\ Reasoned(binding)'
    BY <2>1, <2>2 DEF BindInv, Bindings, Reasoned
  <2>4. writes' \in [Pairs -> Nat] /\ \A q \in Pairs : writes'[q] > 0 => q \in credited'
    BY <2>1 DEF BindInv
  <2> QED
    BY <2>1, <2>3, <2>4 DEF BindInv, Reasoned
<1>2. ASSUME NEW p \in Pairs, WriteFails(p) PROVE BindInv'
  <2>1. /\ UNCHANGED <<status, binding, snap, credited>>
        /\ writes' = [writes EXCEPT ![p] = @ - 1] /\ writes[p] > 0
    BY <1>2 DEF WriteFails
  <2>2. writes' \in [Pairs -> Nat] /\ \A q \in Pairs : writes'[q] > 0 => q \in credited'
    BY <2>1 DEF BindInv
  <2> QED
    BY <2>1, <2>2 DEF BindInv, Reasoned
<1>3. ASSUME NEW active \in SUBSET Routes, NEW byIP \in Bindings,
             \A i \in IPs : byIP[i] # None => <<byIP[i], i>> \in credited',
             credited \subseteq credited', Reloads(active, byIP)
      PROVE  snap' \in [active: SUBSET Routes, byIP: Bindings] /\ Reasoned(snap.byIP)'
  BY <1>3 DEF BindInv, Reloads, Reasoned
<1>4. ASSUME NEW r \in Routes, NEW i \in IPs, RegisterIP(r, i) PROVE BindInv'
  <2>1. /\ binding' = [binding EXCEPT ![i] = r] /\ credited' = credited \cup {<<r, i>>}
        /\ UNCHANGED <<status, writes>> /\ Reloads(status, binding')
    BY <1>4 DEF RegisterIP
  <2>2. binding' \in Bindings /\ Reasoned(binding)'
    BY <2>1 DEF BindInv, Bindings, Reasoned
  <2>3. snap' \in [active: SUBSET Routes, byIP: Bindings] /\ Reasoned(snap.byIP)'
    BY <2>1, <2>2, <1>3 DEF BindInv, Reasoned
  <2> QED
    BY <2>1, <2>2, <2>3 DEF BindInv
<1>5. ASSUME NEW i \in IPs, ReleaseIP(i) PROVE BindInv'
  <2>1. /\ binding' = [binding EXCEPT ![i] = None]
        /\ UNCHANGED <<status, writes, credited>> /\ Reloads(status, binding')
    BY <1>5 DEF ReleaseIP
  <2>2. binding' \in Bindings /\ Reasoned(binding)'
    BY <2>1 DEF BindInv, Bindings, Reasoned
  <2>3. snap' \in [active: SUBSET Routes, byIP: Bindings] /\ Reasoned(snap.byIP)'
    BY <2>1, <2>2, <1>3 DEF BindInv, Reasoned
  <2> QED
    BY <2>1, <2>2, <2>3 DEF BindInv
<1>6. ASSUME NEW r \in Routes, SetStatus(r) PROVE BindInv'
  <2>1. /\ status' \subseteq Routes /\ UNCHANGED <<binding, writes, credited>>
        /\ Reloads(status', binding)
    BY <1>6 DEF SetStatus, BindInv
  <2>2. snap' \in [active: SUBSET Routes, byIP: Bindings] /\ Reasoned(snap.byIP)'
    BY <2>1, <1>3 DEF BindInv, Reasoned
  <2> QED
    BY <2>1, <2>2 DEF BindInv, Reasoned
<1>7. ASSUME NEW r \in Routes, Expire(r) PROVE BindInv'
  <2>1. /\ status' \subseteq Routes /\ UNCHANGED <<binding, writes, credited>>
        /\ snap' = [snap EXCEPT !.active = @ \ {r}]
    BY <1>7 DEF Expire, BindInv
  <2>2. snap' \in [active: SUBSET Routes, byIP: Bindings] /\ snap'.byIP = snap.byIP
    BY <2>1 DEF BindInv
  <2> QED
    BY <2>1, <2>2 DEF BindInv, Reasoned
<1>8. ASSUME Reload PROVE BindInv'
  BY <1>8 DEF BindInv, Reload, Reasoned
<1> QED
  BY <1>1, <1>2, <1>4, <1>5, <1>6, <1>7, <1>8 DEF BindStep

\* So do a restart and the clock.
LEMMA BindRestKeeps ==
  ASSUME BindInv, Restart \/ BindTick \/ UNCHANGED bindVars
  PROVE  BindInv'
  BY DEF BindInv, Restart, BindTick, bindVars, Reasoned

------------------------------------------------------------------------------
(* What a page is told.                                                    *)

Ages     == 0 .. Stale
Entries  == [route: Senders, age: Ages]
Arrivals == [route: Senders, age: Ages, taken: BOOLEAN]
Pages    == [pc: {"closed", "open", "asking", "answer", "told"}, polls: Nat,
             result: Senders \cup {Nothing}]

\* What the recorder holds is the last arrival, unless somebody has read it or
\* nobody may read it any more.
Recorded(n) ==
  /\ probe[n] # Nothing =>
       /\ arrival[n] # Nothing /\ ~ arrival[n].taken
       /\ arrival[n].route = probe[n].route /\ arrival[n].age = probe[n].age
  /\ arrival[n] # Nothing /\ ~ arrival[n].taken /\ arrival[n].age < Stale => probe[n] # Nothing

ProbeInv ==
  /\ probe \in [Nonces -> Entries \cup {Nothing}]
  /\ arrival \in [Nonces -> Arrivals \cup {Nothing}]
  /\ page \in [Nonces -> Pages]
  /\ DOMAIN truth = Nonces
  /\ \A n \in Nonces : Recorded(n)
  /\ ToldOncePerArrival

\* No entry or arrival is Nothing.
LEMMA SomethingIsNot == Nothing \notin Entries /\ Nothing \notin Arrivals
<1>1. Ages \subseteq Nat
  BY ProbeAssumption DEF Ages, Stale
<1>2. /\ Entries \subseteq [route: Senders, age: Nat]
      /\ Arrivals \subseteq [route: Senders, age: Nat, taken: BOOLEAN]
  BY <1>1 DEF Entries, Arrivals
<1>3. /\ Nothing \notin [route: Senders, age: Nat]
      /\ Nothing \notin [route: Senders, age: Nat, taken: BOOLEAN]
  BY ProbeAssumption
<1> QED
  BY <1>2, <1>3

\* Stale is an age, and the last one.
LEMMA StaleIsAge == Stale \in Nat /\ Stale > 0 /\ 0 \in Ages /\ Ages \subseteq Nat
  BY ProbeAssumption DEF Ages, Stale

\* The initial state satisfies the invariant.
LEMMA ProbeBegins == ProbeInit => ProbeInv
  BY DEF ProbeInit, ProbeInv, Recorded, ToldOncePerArrival, Pages

\* Sweeping drops only what may not be read any more.
LEMMA PruneKeeps ==
  ASSUME ProbeInv, NEW n \in Nonces
  PROVE  /\ Pruned \in [Nonces -> Entries \cup {Nothing}]
         /\ Pruned[n] = probe[n] \/ (Pruned[n] = Nothing /\ probe[n] # Nothing /\ probe[n].age = Stale)
  BY DEF ProbeInv, Pruned

\* A lookup that arrives is recorded, whoever was before it.
LEMMA RecordKeeps ==
  ASSUME ProbeInv, NEW n \in Nonces, NEW r \in Senders, Record(n, r)
  PROVE  ProbeInv'
<1> DEFINE e == [route |-> r, age |-> 0]
           a == [route |-> r, age |-> 0, taken |-> FALSE]
<1>1. /\ probe' = [Pruned EXCEPT ![n] = e]
      /\ arrival' = [arrival EXCEPT ![n] = a]
      /\ UNCHANGED <<page, truth>>
  BY DEF Record
<1>2. e \in Entries /\ a \in Arrivals /\ e # Nothing /\ a # Nothing
  <2>1. e \in Entries
    BY StaleIsAge DEF Entries
  <2>2. a \in Arrivals
    BY StaleIsAge DEF Arrivals
  <2> QED
    BY <2>1, <2>2, SomethingIsNot
<1>3. /\ probe' \in [Nonces -> Entries \cup {Nothing}]
      /\ arrival' \in [Nonces -> Arrivals \cup {Nothing}]
  BY <1>1, <1>2, PruneKeeps DEF ProbeInv
<1>4. ASSUME NEW m \in Nonces PROVE Recorded(m)'
  <2>1. CASE m = n
    <3>1. probe'[m] = e /\ arrival'[m] = a
      BY <2>1, <1>1, PruneKeeps DEF ProbeInv
    <3> QED
      BY <3>1, <1>2 DEF Recorded
  <2>2. CASE m # n
    <3>1. probe'[m] = Pruned[m] /\ arrival'[m] = arrival[m]
      BY <2>2, <1>1, PruneKeeps DEF ProbeInv
    <3>2. Recorded(m)
      BY DEF ProbeInv
    <3>3. Pruned[m] = probe[m] \/ (Pruned[m] = Nothing /\ probe[m] # Nothing /\ probe[m].age = Stale)
      BY PruneKeeps
    <3> QED
      BY <3>1, <3>2, <3>3, StaleIsAge DEF Recorded
  <2> QED
    BY <2>1, <2>2
<1>5. ToldOncePerArrival'
  BY <1>1 DEF ProbeInv, ToldOncePerArrival
<1> QED
  BY <1>1, <1>3, <1>4, <1>5 DEF ProbeInv

\* Reading a nonce, in time or late, takes what the recorder holds.
LEMMA TakenKeeps ==
  ASSUME ProbeInv, NEW n \in Nonces, Taken(n)
  PROVE  /\ probe' \in [Nonces -> Entries \cup {Nothing}]
         /\ arrival' \in [Nonces -> Arrivals \cup {Nothing}]
         /\ \A m \in Nonces : Recorded(m)'
<1>1. /\ probe' = [probe EXCEPT ![n] = Nothing]
      /\ arrival' = [arrival EXCEPT ![n] =
           IF arrival[n] = Nothing THEN arrival[n] ELSE [arrival[n] EXCEPT !.taken = TRUE]]
  BY DEF Taken, Consumed
<1>2. arrival[n] # Nothing => [arrival[n] EXCEPT !.taken = TRUE] \in Arrivals
                              /\ [arrival[n] EXCEPT !.taken = TRUE].taken = TRUE
  BY DEF ProbeInv, Arrivals
<1>3. /\ probe' \in [Nonces -> Entries \cup {Nothing}]
      /\ arrival' \in [Nonces -> Arrivals \cup {Nothing}]
  BY <1>1, <1>2 DEF ProbeInv
<1>4. ASSUME NEW m \in Nonces PROVE Recorded(m)'
  <2>1. CASE m = n
    <3>1. /\ probe'[m] = Nothing
          /\ arrival'[m] = Nothing \/ arrival'[m].taken = TRUE
      BY <2>1, <1>1, <1>2 DEF ProbeInv
    <3> QED
      BY <3>1 DEF Recorded
  <2>2. CASE m # n
    BY <2>2, <1>1 DEF ProbeInv, Recorded
  <2> QED
    BY <2>1, <2>2
<1> QED
  BY <1>3, <1>4

\* What Lookup finds is what it should find.
LEMMA ReadRight ==
  ASSUME ProbeInv, NEW n \in Nonces
  PROVE  /\ Read(n) \in Senders \cup {Nothing}
         /\ Read(n) = IF arrival[n] # Nothing /\ arrival[n].age < Stale /\ ~ arrival[n].taken
                      THEN arrival[n].route ELSE Nothing
<1>1. probe[n] # Nothing => probe[n].route \in Senders
  BY DEF ProbeInv, Entries
<1> QED
  BY <1>1 DEF ProbeInv, Recorded, Read

\* The steps of the page, the portal and the recorder keep the invariant.
LEMMA ProbeStepKeeps ==
  ASSUME ProbeInv, ProbeStep
  PROVE  ProbeInv'
<1>1. PICK n \in Nonces :
        \/ handleCheckStart(n) \/ handleCheckResult(n) \/ Lookup(n) \/ Told(n)
        \/ readProbeFails(n) \/ LateLookup(n)
  BY DEF ProbeStep
<1>2. page \in [Nonces -> Pages] /\ page[n] \in Pages
  BY DEF ProbeInv
<1>3. CASE handleCheckStart(n)
  <2>1. /\ page' = [page EXCEPT ![n].pc = "open"] /\ UNCHANGED <<probe, arrival, truth>>
    BY <1>3 DEF handleCheckStart
  <2>2. page' \in [Nonces -> Pages] /\ page'[n].pc = "open" /\ \A m \in Nonces \ {n} : page'[m] = page[m]
    BY <2>1, <1>2 DEF Pages
  <2> QED
    BY <2>1, <2>2 DEF ProbeInv, ToldOncePerArrival, Recorded
<1>4. CASE handleCheckResult(n)
  <2>1. /\ page' = [page EXCEPT ![n] = [pc |-> "asking", polls |-> page[n].polls + 1, result |-> Nothing]]
        /\ UNCHANGED <<probe, arrival, truth>>
    BY <1>4 DEF handleCheckResult
  <2>2. page' \in [Nonces -> Pages] /\ page'[n].pc = "asking" /\ \A m \in Nonces \ {n} : page'[m] = page[m]
    BY <2>1, <1>2 DEF Pages
  <2> QED
    BY <2>1, <2>2 DEF ProbeInv, ToldOncePerArrival, Recorded
<1>5. CASE Lookup(n)
  <2> DEFINE t == IF arrival[n] # Nothing /\ arrival[n].age < Stale /\ ~ arrival[n].taken
                  THEN arrival[n].route ELSE Nothing
  <2>1. /\ page' = [page EXCEPT ![n].pc = "answer", ![n].result = Read(n)]
        /\ truth' = [truth EXCEPT ![n] = t] /\ Taken(n)
    BY <1>5 DEF Lookup
  <2>2. Read(n) = t /\ Read(n) \in Senders \cup {Nothing}
    BY ReadRight
  <2> HIDE DEF t
  <2>3. /\ page' \in [Nonces -> Pages] /\ page'[n].result = Read(n)
        /\ \A m \in Nonces \ {n} : page'[m] = page[m]
    BY <2>1, <2>2, <1>2 DEF Pages
  <2>4. DOMAIN truth' = Nonces /\ truth'[n] = t /\ \A m \in Nonces \ {n} : truth'[m] = truth[m]
    BY <2>1 DEF ProbeInv
  <2>5. ToldOncePerArrival'
    BY <2>2, <2>3, <2>4 DEF ProbeInv, ToldOncePerArrival
  <2> QED
    BY <2>1, <2>3, <2>4, <2>5, TakenKeeps DEF ProbeInv
<1>6. CASE Told(n)
  <2>1. /\ page' = [page EXCEPT ![n].pc = "told"] /\ page[n].pc = "answer"
        /\ UNCHANGED <<probe, arrival, truth>>
    BY <1>6 DEF Told
  <2>2. /\ page' \in [Nonces -> Pages] /\ page'[n].result = page[n].result
        /\ \A m \in Nonces \ {n} : page'[m] = page[m]
    BY <2>1, <1>2 DEF Pages
  <2> QED
    BY <2>1, <2>2 DEF ProbeInv, ToldOncePerArrival, Recorded
<1>7. CASE readProbeFails(n)
  <2>1. /\ page' = [page EXCEPT ![n].pc = "open", ![n].result = Nothing]
        /\ UNCHANGED <<probe, arrival, truth>>
    BY <1>7 DEF readProbeFails
  <2>2. page' \in [Nonces -> Pages] /\ page'[n].pc = "open" /\ \A m \in Nonces \ {n} : page'[m] = page[m]
    BY <2>1, <1>2 DEF Pages
  <2> QED
    BY <2>1, <2>2 DEF ProbeInv, ToldOncePerArrival, Recorded
<1>8. CASE LateLookup(n)
  <2>1. Taken(n) /\ UNCHANGED <<page, truth>>
    BY <1>8 DEF LateLookup
  <2>2. ToldOncePerArrival'
    BY <2>1 DEF ProbeInv, ToldOncePerArrival
  <2> QED
    BY <2>1, <2>2, TakenKeeps DEF ProbeInv
<1> QED
  BY <1>1, <1>3, <1>4, <1>5, <1>6, <1>7, <1>8

\* So does the clock: an entry and its arrival grow older together.
LEMMA ProbeTickKeeps ==
  ASSUME ProbeInv, ProbeTick
  PROVE  ProbeInv'
<1>1. /\ probe' = [n \in Nonces |-> Older(probe[n])]
      /\ arrival' = [n \in Nonces |-> IF arrival[n] = Nothing THEN Nothing ELSE Older(arrival[n])]
      /\ UNCHANGED <<page, truth>>
  BY DEF ProbeTick
<1>2. ASSUME NEW e \in Entries
      PROVE  /\ Older(e) \in Entries /\ Older(e).route = e.route
             /\ Older(e).age = IF e.age = Stale THEN Stale ELSE e.age + 1
  BY <1>2, StaleIsAge, SomethingIsNot DEF Older, Entries, Ages
<1>3. ASSUME NEW a \in Arrivals
      PROVE  /\ Older(a) \in Arrivals /\ Older(a).route = a.route /\ Older(a).taken = a.taken
             /\ Older(a).age = IF a.age = Stale THEN Stale ELSE a.age + 1
  BY <1>3, StaleIsAge, SomethingIsNot DEF Older, Arrivals, Ages
<1>4. Older(Nothing) = Nothing
  BY DEF Older
<1>5. /\ probe' \in [Nonces -> Entries \cup {Nothing}]
      /\ arrival' \in [Nonces -> Arrivals \cup {Nothing}]
  BY <1>1, <1>2, <1>3, <1>4 DEF ProbeInv
<1>6. ASSUME NEW n \in Nonces PROVE Recorded(n)'
  <2>1. /\ Recorded(n) /\ probe[n] \in Entries \cup {Nothing} /\ arrival[n] \in Arrivals \cup {Nothing}
        /\ probe'[n] = Older(probe[n])
        /\ arrival'[n] = IF arrival[n] = Nothing THEN Nothing ELSE Older(arrival[n])
    BY <1>1 DEF ProbeInv
  <2>2. CASE probe[n] = Nothing
    <3>1. probe'[n] = Nothing
      BY <2>1, <2>2, <1>4
    <3>2. arrival[n] # Nothing => arrival[n].taken \/ ~ (arrival[n].age < Stale)
      BY <2>1, <2>2 DEF Recorded
    <3>3. arrival[n] # Nothing => arrival[n].age \in Ages
      BY <2>1 DEF Arrivals
    <3>4. arrival'[n] # Nothing => arrival'[n].taken \/ ~ (arrival'[n].age < Stale)
      BY <2>1, <3>2, <3>3, <1>3, StaleIsAge DEF Ages
    <3> QED
      BY <3>1, <3>4 DEF Recorded
  <2>3. CASE probe[n] # Nothing
    <3>1. /\ arrival[n] # Nothing /\ ~ arrival[n].taken
          /\ arrival[n].route = probe[n].route /\ arrival[n].age = probe[n].age
      BY <2>1, <2>3 DEF Recorded
    <3>2. probe'[n] \in Entries /\ arrival'[n] \in Arrivals
      BY <2>1, <2>3, <3>1, <1>2, <1>3
    <3>3. /\ ~ arrival'[n].taken /\ arrival'[n].route = probe'[n].route
          /\ arrival'[n].age = probe'[n].age
      BY <2>1, <2>3, <3>1, <1>2, <1>3
    <3> QED
      BY <3>2, <3>3, SomethingIsNot DEF Recorded
  <2> QED
    BY <2>2, <2>3
<1>7. ToldOncePerArrival'
  BY <1>1 DEF ProbeInv, ToldOncePerArrival
<1> QED
  BY <1>1, <1>5, <1>6, <1>7 DEF ProbeInv

\* And a restart, which forgets what had arrived.
LEMMA ProbeRestKeeps ==
  ASSUME ProbeInv, ProbeRestart \/ UNCHANGED probeVars
  PROVE  ProbeInv'
<1>1. CASE ProbeRestart
  BY <1>1 DEF ProbeInv, ProbeRestart, Recorded, ToldOncePerArrival
<1>2. CASE UNCHANGED probeVars
  BY <1>2 DEF ProbeInv, probeVars, Recorded, ToldOncePerArrival
<1> QED
  BY <1>1, <1>2

------------------------------------------------------------------------------
(* The binder and the recorder on the same queries.                        *)

IdentityInv == BindInv /\ ProbeInv

\* Every step keeps both invariants.
LEMMA IdentityStepKeeps == IdentityInv /\ [IdentityNext]_identityVars => IdentityInv'
<1> SUFFICES ASSUME BindInv, ProbeInv, [IdentityNext]_identityVars
             PROVE  BindInv' /\ ProbeInv'
  BY DEF IdentityInv
<1>1. ASSUME NEW r \in Routes, NEW i \in IPs, Query(r, i)
      PROVE  BindInv' /\ ProbeInv'
  BY <1>1, QueryBinds, ProbeRestKeeps DEF Query
<1>2. ASSUME NEW r \in Routes, NEW i \in IPs, NEW n \in Nonces, ProbeQuery(r, i, n)
      PROVE  BindInv' /\ ProbeInv'
  BY <1>2, QueryBinds, RecordKeeps, IdentityAssumption DEF ProbeQuery
<1>3. ASSUME NEW i \in IPs, NEW n \in Nonces, PlainProbe(i, n)
      PROVE  BindInv' /\ ProbeInv'
  <2>1. snap.byIP[i] \in Senders
    BY <1>3, IdentityAssumption DEF PlainProbe, BindInv
  <2>2. Record(n, snap.byIP[i]) /\ UNCHANGED bindVars
    BY <1>3 DEF PlainProbe
  <2> QED
    BY <2>1, <2>2, RecordKeeps, BindRestKeeps
<1>4. CASE (BindStep /\ UNCHANGED probeVars) \/ (ProbeStep /\ UNCHANGED bindVars)
  BY <1>4, BindStepKeeps, ProbeStepKeeps, BindRestKeeps, ProbeRestKeeps
<1>5. CASE Tick \/ RestartResolver
  BY <1>5, BindRestKeeps, ProbeTickKeeps, ProbeRestKeeps DEF Tick, RestartResolver
<1>6. CASE UNCHANGED identityVars
  BY <1>6, BindRestKeeps, ProbeRestKeeps DEF identityVars
<1> QED
  BY <1>1, <1>2, <1>3, <1>4, <1>5, <1>6 DEF IdentityNext

\* Both invariants hold in every reachable state.
LEMMA IdentityInvariant == IdentitySpec => []IdentityInv
<1>1. IdentityInit => IdentityInv
  BY BindBegins, ProbeBegins DEF IdentityInit, IdentityInv
<1> QED
  BY <1>1, IdentityStepKeeps, PTL DEF IdentitySpec

\* The query path binds no lapsed or unknown tenant, however late and in
\* whatever order its write goroutines land (resolve.go tenantFor, bind.go).
THEOREM BindingsHaveReasons == IdentitySpec => []BoundForAReason
<1>1. IdentityInv => BoundForAReason
  BY DEF IdentityInv, BindInv, Reasoned, BoundForAReason
<1> QED
  BY <1>1, IdentityInvariant, PTL

\* The diagnostic page reports an arrival at most once and no other, through
\* sweeps, lost answers and requests that reach Lookup late (probe.go).
THEOREM VerdictsSound == IdentitySpec => []ToldOncePerArrival
<1>1. IdentityInv => ToldOncePerArrival
  BY DEF IdentityInv, ProbeInv
<1> QED
  BY <1>1, IdentityInvariant, PTL
==============================================================================
