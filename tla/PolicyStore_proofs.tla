-------------------------- MODULE PolicyStore_proofs --------------------------
(***************************************************************************)
(* What the resolver may serve, for any number of tenants, rules, admin    *)
(* goroutines, failures and restarts.                                      *)
(*                                                                         *)
(* The inductive invariant dates every copy of the tables, the served one  *)
(* and those being read: a copy taken after a row's last commit holds the  *)
(* row as committed.  A copy being read needs it because it is the next    *)
(* snapshot.                                                               *)
(***************************************************************************)
EXTENDS PolicyStore, TLAPS

\* The part of the types the argument rests on.
Dates ==
  /\ commits \in Nat
  /\ stamp \in [Keys -> Nat]
  /\ \A k \in Keys : stamp[k] <= commits
  /\ db = [k \in Keys |-> db[k]]

CopyOK(c) ==
  /\ c.ver \in [Tables -> Nat]
  /\ \A t \in Tables : c.ver[t] <= commits

LoaderOK(l) ==
  /\ loader[l].pc \in {"idle", "activate", "reload"}
  /\ loader[l].n \in 0..4
  /\ loader[l].pc # "reload" => loader[l].n = 0
  /\ loader[l].pc = "activate" => loader[l].target \in Routes
  /\ loader[l] = [pc |-> loader[l].pc, n |-> loader[l].n,
                  target |-> loader[l].target, copy |-> loader[l].copy]
  /\ CopyOK(loader[l].copy)
  /\ \A k \in Keys : HasRead(l, Table(k)) => Current(loader[l].copy, k)

IInv ==
  /\ Dates
  /\ CopyOK(snap) /\ SnapshotCurrent
  /\ loader = [l \in Loaders |-> loader[l]]
  /\ \A l \in Loaders : LoaderOK(l)

\* What a commit may do to the tables: a row keeps its value and its date, or
\* is dated after every copy there is.
WriteStep ==
  /\ Dates' /\ commits' >= commits
  /\ \A k \in Keys : \/ stamp'[k] = stamp[k] /\ db'[k] = db[k]
                     \/ stamp'[k] > commits

------------------------------------------------------------------------------

\* Every key belongs to one of the four tables that Reload reads.
LEMMA KeyTable == \A k \in Keys : Table(k) \in Tables
  BY DEF Keys, Table, Tables

\* The four tables are the four positions of the read order.
LEMMA OrderTable == /\ \A i \in 1..4 : ReadOrder[i] \in Tables
                    /\ \A t \in Tables : \E i \in 1..4 : ReadOrder[i] = t
  BY DEF ReadOrder, Tables

\* Leaving the tables alone is a WriteStep.
LEMMA NoWrite == Dates /\ UNCHANGED <<db, commits, stamp>> => WriteStep
  BY DEF Dates, WriteStep

\* The one statement every write path ends in.
LEMMA PutStep ==
  ASSUME Dates, NEW k0 \in Keys, NEW row, Put(k0, row)
  PROVE  WriteStep
  <1>1. CASE db[k0] = row
    BY <1>1, NoWrite DEF Put
  <1>2. CASE db[k0] # row
    BY <1>2 DEF Put, Dates, WriteStep
  <1>3. QED BY <1>1, <1>2

LEMMA KeysTyped ==
  /\ \A r \in Routes : TenantKey(r) \in Keys
  /\ \A i \in IPs : IPKey(i) \in Keys
  /\ \A s \in Scopes, d \in Domains : AllowKey(s, d) \in Keys /\ OverrideKey(s, d) \in Keys
  BY DEF TenantKey, IPKey, AllowKey, OverrideKey, Keys

\* Each write path of the store, on whatever arguments, is a WriteStep.
LEMMA TenantWriteStep ==
  ASSUME Dates, NEW r \in Routes, NEW x,
         CreateTenant(r, x) \/ SetStatus(r, x) \/ Extend(r, x) \/ PauseFiltering(r, x)
  PROVE  WriteStep
  <1>1. TenantKey(r) \in Keys
    BY KeysTyped
  <1>2. ASSUME NEW row, UpdateTenant(r, row) PROVE WriteStep
    BY <1>1, <1>2, NoWrite, PutStep DEF UpdateTenant
  <1>3. CASE CreateTenant(r, x)
    BY <1>1, <1>3, PutStep DEF CreateTenant
  <1>4. CASE SetStatus(r, x)
    BY <1>2, <1>4 DEF SetStatus
  <1>5. CASE Extend(r, x)
    BY <1>2, <1>5 DEF Extend
  <1>6. CASE PauseFiltering(r, x)
    BY <1>2, <1>6 DEF PauseFiltering
  <1>7. QED BY <1>3, <1>4, <1>5, <1>6

LEMMA IPWriteStep ==
  ASSUME Dates, NEW i \in IPs, NEW r, RegisterIP(r, i) \/ ReleaseIP(i)
  PROVE  WriteStep
  BY KeysTyped, PutStep DEF RegisterIP, ReleaseIP

LEMMA RuleWriteStep ==
  ASSUME Dates, NEW s \in Scopes, NEW d \in Domains, NEW a,
         AddAllow(s, d) \/ RemoveAllow(s, d) \/ SetOverride(s, d, a) \/ RemoveOverride(s, d)
  PROVE  WriteStep
  BY KeysTyped, PutStep DEF AddAllow, RemoveAllow, SetOverride, RemoveOverride

\* A copy that was current before a commit is current after it.
LEMMA CopyKept ==
  ASSUME WriteStep, Dates, NEW c, CopyOK(c)
  PROVE  /\ \A t \in Tables : c.ver[t] <= commits'
         /\ \A k \in Keys : Current(c, k)
              => (stamp'[k] <= c.ver[Table(k)] => c.row[k] = db'[k])
  BY KeyTable DEF WriteStep, Dates, CopyOK, Current

------------------------------------------------------------------------------
(* Steps that leave the served snapshot and every copy being read alone.   *)

\* A loader that has read nothing before the step and nothing after it, or
\* that does not move.
Quiet(l) ==
  \/ loader'[l] = loader[l]
  \/ /\ loader[l].n = 0
     /\ \E pc \in {"idle", "activate", "reload"} : \E target :
          /\ pc = "activate" => target \in Routes
          /\ loader'[l] = [pc |-> pc, n |-> 0, target |-> target, copy |-> loader[l].copy]

LEMMA QuietStep ==
  ASSUME IInv, WriteStep, UNCHANGED snap,
         loader' = [l \in Loaders |-> loader'[l]],
         \A l \in Loaders : Quiet(l)
  PROVE  IInv'
  <1>1. Dates' /\ commits' >= commits
    BY DEF WriteStep
  <1>2. CopyOK(snap)' /\ SnapshotCurrent'
    BY <1>1, CopyKept DEF IInv, CopyOK, SnapshotCurrent, Current
  <1>3. ASSUME NEW l \in Loaders PROVE LoaderOK(l)'
    <2> DEFINE c == loader[l].copy
    <2>1. LoaderOK(l) /\ CopyOK(c)
      BY DEF IInv, LoaderOK
    <2>2. /\ \A t \in Tables : c.ver[t] <= commits'
          /\ \A k \in Keys : Current(c, k)
               => (stamp'[k] <= c.ver[Table(k)] => c.row[k] = db'[k])
      BY <2>1, CopyKept DEF IInv
    <2>3. CASE loader'[l] = loader[l]
      <3>1. \A t : HasRead(l, t)' <=> HasRead(l, t)
        BY <2>3 DEF HasRead
      <3>2. CopyOK(loader[l].copy)'
        BY <2>1, <2>2, <2>3 DEF CopyOK
      <3>3. \A k \in Keys : HasRead(l, Table(k))' => Current(loader[l].copy, k)'
        BY <2>1, <2>2, <2>3, <3>1 DEF LoaderOK, Current
      <3>4. QED BY <2>1, <2>3, <3>2, <3>3 DEF LoaderOK
    <2>4. ASSUME loader[l].n = 0, NEW pc \in {"idle", "activate", "reload"}, NEW target,
                 pc = "activate" => target \in Routes,
                 loader'[l] = [pc |-> pc, n |-> 0, target |-> target, copy |-> loader[l].copy]
          PROVE  LoaderOK(l)'
      <3>1. /\ loader'[l].n = 0 /\ loader'[l].copy = c
            /\ loader'[l].pc = pc /\ loader'[l].target = target
        BY <2>4
      <3>2. \A t : ~HasRead(l, t)'
        BY <3>1 DEF HasRead
      <3>3. CopyOK(loader[l].copy)'
        BY <2>1, <2>2, <3>1 DEF CopyOK
      <3>4. QED BY <2>4, <3>1, <3>2, <3>3 DEF LoaderOK
    <2>5. QED BY <2>3, <2>4 DEF Quiet
  <1>4. QED BY <1>1, <1>2, <1>3 DEF IInv

\* The goroutine of loader a moves between idle, a handler and the head of
\* Reload; the others do not move.
Moves(a) ==
  /\ loader[a].pc # "reload"
  /\ \/ loader' = [loader EXCEPT ![a].pc = "reload"]
     \/ \E pc \in {"activate", "reload"} : \E target :
          /\ pc = "activate" => target \in Routes
          /\ loader' = [loader EXCEPT ![a].pc = pc, ![a].target = target]

LEMMA MoveQuiet ==
  ASSUME IInv, NEW a \in Loaders, Moves(a)
  PROVE  /\ loader' = [l \in Loaders |-> loader'[l]]
         /\ \A l \in Loaders : Quiet(l)
  <1>1. loader = [l \in Loaders |-> loader[l]] /\ LoaderOK(a)
    BY DEF IInv
  <1>2. loader' = [l \in Loaders |-> loader'[l]] /\ \A l \in Loaders \ {a} : loader'[l] = loader[l]
    BY <1>1 DEF Moves
  <1>3. Quiet(a)
    <2>1. CASE loader' = [loader EXCEPT ![a].pc = "reload"]
      <3>1. loader'[a] = [pc |-> "reload", n |-> 0, target |-> loader[a].target,
                          copy |-> loader[a].copy]
        BY <1>1, <2>1 DEF LoaderOK, Moves
      <3>2. QED BY <1>1, <3>1 DEF Quiet, LoaderOK, Moves
    <2>2. ASSUME NEW pc \in {"activate", "reload"}, NEW target,
                 pc = "activate" => target \in Routes,
                 loader' = [loader EXCEPT ![a].pc = pc, ![a].target = target]
          PROVE  Quiet(a)
      <3>1. loader'[a] = [pc |-> pc, n |-> 0, target |-> target, copy |-> loader[a].copy]
        BY <1>1, <2>2 DEF LoaderOK, Moves
      <3>2. QED BY <1>1, <2>2, <3>1 DEF Quiet, LoaderOK, Moves
    <2>3. QED BY <2>1, <2>2 DEF Moves
  <1>4. QED BY <1>2, <1>3 DEF Quiet

\* Nobody moves.
LEMMA StillQuiet ==
  ASSUME IInv, UNCHANGED loader
  PROVE  /\ loader' = [l \in Loaders |-> loader'[l]]
         /\ \A l \in Loaders : Quiet(l)
  BY DEF IInv, Quiet

------------------------------------------------------------------------------
(* The steps one by one.                                                   *)

LEMMA OtherProcessStep == ASSUME IInv, OtherProcessWrite PROVE IInv'
  <1>1. WriteStep
    BY TenantWriteStep, IPWriteStep, RuleWriteStep DEF OtherProcessWrite, IInv
  <1>2. QED BY <1>1, QuietStep, StillQuiet DEF OtherProcessWrite

LEMMA AdminStep ==
  ASSUME IInv, NEW a \in AdminThreads, AdminHandler(a) \/ extendTenantActivate(a)
  PROVE  IInv' /\ WriteStep /\ Moves(a) /\ UNCHANGED snap
  <1>0. Dates /\ a \in Loaders
    BY DEF IInv, Loaders
  <1>1. CASE createTenant(a) \/ revokeTenant(a) \/ pauseTenant(a) \/ extendTenant(a)
    <2>1. WriteStep /\ UNCHANGED snap
      BY <1>0, <1>1, TenantWriteStep
         DEF createTenant, revokeTenant, pauseTenant, extendTenant, Handling
    <2>2. Moves(a)
      BY <1>1 DEF createTenant, revokeTenant, pauseTenant, extendTenant, Handling, ThenReload, Moves
    <2>3. QED BY <1>0, <2>1, <2>2, MoveQuiet, QuietStep
  <1>2. CASE registerIP(a) \/ releaseIP(a)
    <2>1. WriteStep /\ UNCHANGED snap
      BY <1>0, <1>2, IPWriteStep DEF registerIP, releaseIP, Handling
    <2>2. Moves(a)
      BY <1>2 DEF registerIP, releaseIP, Handling, ThenReload, Moves
    <2>3. QED BY <1>0, <2>1, <2>2, MoveQuiet, QuietStep
  <1>3. CASE setOverride(a) \/ addAllow(a)
    <2>1. WriteStep /\ UNCHANGED snap
      BY <1>0, <1>3, RuleWriteStep DEF setOverride, addAllow, Handling
    <2>2. Moves(a)
      BY <1>3 DEF setOverride, addAllow, Handling, ThenReload, Moves
    <2>3. QED BY <1>0, <2>1, <2>2, MoveQuiet, QuietStep
  <1>4. CASE extendTenantActivate(a)
    <2>1. WriteStep /\ UNCHANGED snap
      <3>1. loader[a].target \in Routes
        BY <1>0, <1>4 DEF IInv, LoaderOK, extendTenantActivate
      <3>2. QED BY <1>0, <1>4, <3>1, TenantWriteStep DEF extendTenantActivate
    <2>2. Moves(a)
      BY <1>4 DEF extendTenantActivate, Moves
    <2>3. QED BY <1>0, <2>1, <2>2, MoveQuiet, QuietStep
  <1>5. QED BY <1>1, <1>2, <1>3, <1>4 DEF AdminHandler

LEMMA TickStep == ASSUME IInv, Tick PROVE IInv' /\ Moves(Watcher)
  <1>1. WriteStep /\ UNCHANGED snap
    BY NoWrite DEF IInv, Tick
  <1>2. Moves(Watcher)
    BY DEF Tick, Moves
  <1>3. QED BY <1>1, <1>2, MoveQuiet, QuietStep DEF Loaders

\* The copy of loader l once it has read its next table.
NextTable(l) == ReadOrder[loader[l].n + 1]
NextCopy(l) ==
  LET c == loader[l].copy
  IN  [row |-> [k \in Keys |-> IF Table(k) = NextTable(l) THEN db[k] ELSE c.row[k]],
       ver |-> [c.ver EXCEPT ![NextTable(l)] = commits]]

LEMMA ReadEffect ==
  ASSUME IInv, NEW l \in Loaders, ReadTable(l)
  PROVE  /\ loader[l].pc = "reload" /\ loader[l].n \in 0..3 /\ NextTable(l) \in Tables
         /\ loader'[l].pc = "reload" /\ loader'[l].n = loader[l].n + 1
         /\ loader'[l].copy = NextCopy(l)
         /\ loader'[l] = [pc |-> loader'[l].pc, n |-> loader'[l].n,
                          target |-> loader'[l].target, copy |-> loader'[l].copy]
         /\ \A x \in Loaders \ {l} : loader'[x] = loader[x]
         /\ loader' = [x \in Loaders |-> loader'[x]]
  <1> DEFINE m == loader[l].n + 1
             d == NextCopy(l)
  <1>1. LoaderOK(l) /\ loader = [x \in Loaders |-> loader[x]]
    BY DEF IInv
  <1>2. loader[l].pc = "reload" /\ loader[l].n \in 0..3 /\ m \in 1..4
    <2>1. loader[l].n \in 0..4 /\ loader[l].n < 4 /\ loader[l].pc = "reload"
      BY <1>1 DEF LoaderOK, ReadTable
    <2>2. QED BY <2>1
  <1>3. NextTable(l) \in Tables
    BY <1>2, OrderTable DEF NextTable
  <1>4. loader' = [loader EXCEPT ![l].n = m, ![l].copy = d]
    BY DEF ReadTable, NextCopy, NextTable
  <1> HIDE DEF m, d
  <1>5. loader'[l] = [pc |-> loader[l].pc, n |-> m, target |-> loader[l].target, copy |-> d]
    BY <1>1, <1>4 DEF LoaderOK
  <1>6. /\ \A x \in Loaders \ {l} : loader'[x] = loader[x]
        /\ loader' = [x \in Loaders |-> loader'[x]]
    BY <1>1, <1>4
  <1>7. /\ loader'[l].pc = loader[l].pc /\ loader'[l].n = m /\ loader'[l].copy = d
        /\ loader'[l] = [pc |-> loader'[l].pc, n |-> loader'[l].n,
                         target |-> loader'[l].target, copy |-> loader'[l].copy]
    BY <1>5
  <1>8. QED BY <1>2, <1>3, <1>6, <1>7 DEF m, d

\* What the copy of the next table says of the rows of each table.
LEMMA NextCopyOK ==
  ASSUME IInv, NEW l \in Loaders, ReadTable(l)
  PROVE  /\ CopyOK(NextCopy(l))
         /\ \A k \in Keys : IF Table(k) = NextTable(l)
              THEN NextCopy(l).ver[Table(k)] = commits /\ NextCopy(l).row[k] = db[k]
              ELSE /\ NextCopy(l).ver[Table(k)] = loader[l].copy.ver[Table(k)]
                   /\ NextCopy(l).row[k] = loader[l].copy.row[k]
  <1>1. CopyOK(loader[l].copy) /\ commits \in Nat /\ NextTable(l) \in Tables
    BY ReadEffect DEF IInv, LoaderOK, Dates
  <1>2. QED BY <1>1, KeyTable DEF NextCopy, CopyOK

\* Reading a table adds its committed rows to the copy, dated now.
LEMMA ReadStep == ASSUME IInv, NEW l \in Loaders, ReadTable(l) PROVE IInv'
  <1> DEFINE t == NextTable(l)
             d == NextCopy(l)
  <1>1. LoaderOK(l) /\ Dates
    BY DEF IInv
  <1>2. loader[l].n \in 0..3 /\ UNCHANGED <<db, commits, stamp, snap>>
    BY ReadEffect DEF ReadTable
  <1>3. \A k \in Keys : Table(k) = t \/ Current(loader[l].copy, k) => Current(d, k)
    BY NextCopyOK DEF Current
  <1>4. /\ loader'[l].pc = "reload" /\ loader'[l].n = loader[l].n + 1
        /\ loader'[l].copy = d
    BY ReadEffect
  <1>5. LoaderOK(l)'
    <2>1. CopyOK(loader[l].copy)'
      BY <1>2, <1>4, NextCopyOK DEF CopyOK
    <2>2. ASSUME NEW k \in Keys, HasRead(l, Table(k))' PROVE Current(loader[l].copy, k)'
      <3>1. HasRead(l, Table(k)) \/ Table(k) = t
        BY <1>2, <1>4, <2>2 DEF HasRead, ReadTable, NextTable
      <3>2. Current(d, k)
        BY <1>1, <1>3, <3>1 DEF LoaderOK
      <3>3. QED BY <1>2, <1>4, <3>2 DEF Current
    <2>3. loader[l]' = [pc |-> loader'[l].pc, n |-> loader'[l].n,
                        target |-> loader'[l].target, copy |-> loader'[l].copy]
      BY ReadEffect
    <2>4. QED BY <1>2, <1>4, <2>1, <2>2, <2>3 DEF LoaderOK
  <1>6. ASSUME NEW x \in Loaders \ {l} PROVE LoaderOK(x)'
    <2>1. loader'[x] = loader[x] /\ LoaderOK(x)
      BY ReadEffect DEF IInv
    <2>2. QED BY <1>2, <2>1 DEF LoaderOK, CopyOK, HasRead, Current
  <1>7. Dates' /\ CopyOK(snap)' /\ SnapshotCurrent'
    BY <1>2 DEF IInv, Dates, CopyOK, SnapshotCurrent, Current
  <1>8. QED BY <1>5, <1>6, <1>7, ReadEffect DEF IInv

\* A loader that starts afresh has read nothing.
Fresh(l) ==
  \E pc \in {"idle", "reload"} :
    loader'[l] = [pc |-> pc, n |-> 0, target |-> None, copy |-> EmptyCopy]

LEMMA FreshOK ==
  ASSUME commits' \in Nat, NEW l, Fresh(l)
  PROVE  LoaderOK(l)' /\ \A t : ~HasRead(l, t)'
  <1> PICK pc \in {"idle", "reload"} :
        loader'[l] = [pc |-> pc, n |-> 0, target |-> None, copy |-> EmptyCopy]
    BY DEF Fresh
  <1>1. \A t : ~HasRead(l, t)'
    BY DEF HasRead
  <1>2. CopyOK(EmptyCopy)'
    BY DEF CopyOK, EmptyCopy
  <1>3. CopyOK(loader[l].copy)'
    BY <1>2 DEF CopyOK
  <1>4. QED BY <1>1, <1>3 DEF LoaderOK

\* A step that writes nothing, in which every loader stands still or starts afresh.
LEMMA FreshStep ==
  ASSUME IInv, UNCHANGED <<db, commits, stamp>>,
         CopyOK(snap'), \A k \in Keys : Current(snap', k),
         loader' = [l \in Loaders |-> loader'[l]],
         \A l \in Loaders : loader'[l] = loader[l] \/ Fresh(l)
  PROVE  IInv'
  <1>1. Dates'
    BY DEF IInv, Dates
  <1>2. CopyOK(snap)' /\ SnapshotCurrent'
    BY DEF CopyOK, SnapshotCurrent, Current
  <1>3. ASSUME NEW l \in Loaders PROVE LoaderOK(l)'
    <2>1. CASE Fresh(l)
      BY <1>1, <2>1, FreshOK DEF Dates
    <2>2. CASE loader'[l] = loader[l]
      BY <2>2 DEF IInv, LoaderOK, CopyOK, HasRead, Current
    <2>3. QED BY <2>1, <2>2
  <1>4. QED BY <1>1, <1>2, <1>3 DEF IInv

\* A copy that has read all four tables is fit to be served.
LEMMA StoreStep == ASSUME IInv, NEW l \in Loaders, StoreSnapshot(l) PROVE IInv'
  <1>1. LoaderOK(l) /\ loader = [x \in Loaders |-> loader[x]]
    BY DEF IInv
  <1>2. \A k \in Keys : HasRead(l, Table(k))
    BY KeyTable, OrderTable DEF HasRead, StoreSnapshot
  <1>3. CopyOK(snap') /\ \A k \in Keys : Current(snap', k)
    BY <1>1, <1>2 DEF LoaderOK, StoreSnapshot
  <1>4. \A x \in Loaders : loader'[x] = loader[x] \/ Fresh(x)
    BY <1>1 DEF StoreSnapshot, Fresh, Idle
  <1>5. QED BY <1>1, <1>3, <1>4, FreshStep DEF StoreSnapshot

LEMMA ErrorStep == ASSUME IInv, NEW l \in Loaders, ReloadError(l) PROVE IInv'
  <1>1. loader = [x \in Loaders |-> loader[x]] /\ CopyOK(snap) /\ SnapshotCurrent
    BY DEF IInv
  <1>2. \A x \in Loaders : loader'[x] = loader[x] \/ Fresh(x)
    BY <1>1 DEF ReloadError, Fresh, Idle
  <1>3. QED BY <1>1, <1>2, FreshStep DEF ReloadError, SnapshotCurrent

LEMMA RestartStep == ASSUME IInv, Restart PROVE IInv'
  <1>1. CopyOK(snap) /\ SnapshotCurrent
    BY DEF IInv
  <1>2. \A x \in Loaders : Fresh(x)
    BY DEF Restart, Fresh, Idle
  <1>3. QED BY <1>1, <1>2, FreshStep DEF Restart, SnapshotCurrent

LEMMA StutterStep == ASSUME IInv, UNCHANGED vars PROVE IInv'
  BY NoWrite, QuietStep, StillQuiet DEF vars, IInv

LEMMA InitIInv == Init => IInv
  <1> SUFFICES ASSUME Init PROVE IInv
    OBVIOUS
  <1>1. Dates
    BY DEF Init, Dates
  <1>2. CopyOK(snap) /\ SnapshotCurrent
    BY DEF Init, CopyOK, SnapshotCurrent, Current
  <1>3. \A l \in Loaders : LoaderOK(l)
    BY DEF Init, LoaderOK, Idle, HasRead, CopyOK, EmptyCopy
  <1>4. QED BY <1>1, <1>2, <1>3 DEF IInv, Init

LEMMA Inductive == IInv /\ [Next]_vars => IInv'
  <1> SUFFICES ASSUME IInv, [Next]_vars PROVE IInv'
    OBVIOUS
  <1>1. CASE OtherProcessWrite
    BY <1>1, OtherProcessStep
  <1>2. ASSUME NEW a \in AdminThreads, AdminHandler(a) \/ extendTenantActivate(a) PROVE IInv'
    BY <1>2, AdminStep
  <1>3. CASE Tick
    BY <1>3, TickStep
  <1>4. ASSUME NEW l \in Loaders, Reload(l) PROVE IInv'
    BY <1>4, ReadStep, StoreStep, ErrorStep DEF Reload
  <1>5. CASE Restart
    BY <1>5, RestartStep
  <1>6. CASE UNCHANGED vars
    BY <1>6, StutterStep
  <1>7. QED BY <1>1, <1>2, <1>3, <1>4, <1>5, <1>6 DEF Next

\* The served snapshot (store.go:234) never holds a row that is older than its
\* own read of the row's table, whatever overlaps, fails or restarts.
THEOREM SnapshotIsCurrent == Spec => []SnapshotCurrent
  <1>1. IInv => SnapshotCurrent
    BY DEF IInv
  <1>2. QED BY <1>1, InitIInv, Inductive, PTL DEF Spec

------------------------------------------------------------------------------
(* No step brings an old row back.                                         *)

\* Row k stays settled if no copy that predates its last write gets into the
\* snapshot or into a loader.
LEMMA SettledKept ==
  ASSUME NEW k \in Keys, stamp'[k] = stamp[k],
         snap'.ver[Table(k)] >= stamp[k],
         \A l \in Loaders : HasRead(l, Table(k))'
           => loader'[l].copy.ver[Table(k)] >= stamp[k]
  PROVE  Settled(k)'
  BY DEF Settled

\* A loader that stands still, moves without reading or starts afresh has read
\* nothing that it had not read.
LEMMA QuietReads ==
  ASSUME NEW l \in Loaders, NEW t, HasRead(l, t)', Quiet(l) \/ Fresh(l)
  PROVE  HasRead(l, t) /\ loader'[l].copy = loader[l].copy
  <1>1. CASE loader'[l] = loader[l]
    BY <1>1 DEF HasRead
  <1>2. CASE loader'[l].n = 0
    BY <1>2 DEF HasRead
  <1>3. ASSUME NEW pc, NEW target, NEW copy,
               loader'[l] = [pc |-> pc, n |-> 0, target |-> target, copy |-> copy]
        PROVE  loader'[l].n = 0
    BY <1>3
  <1>4. CASE Fresh(l)
    BY <1>2, <1>3, <1>4 DEF Fresh
  <1>5. CASE Quiet(l)
    BY <1>1, <1>2, <1>3, <1>5 DEF Quiet
  <1>6. QED BY <1>4, <1>5

LEMMA QuietKeeps ==
  ASSUME NEW k \in Keys, Settled(k), stamp'[k] = stamp[k], UNCHANGED snap,
         \A l \in Loaders : Quiet(l) \/ Fresh(l)
  PROVE  Settled(k)'
  <1>1. ASSUME NEW l \in Loaders, HasRead(l, Table(k))'
        PROVE  loader'[l].copy.ver[Table(k)] >= stamp[k]
    BY <1>1, QuietReads DEF Settled
  <1>2. QED BY <1>1, SettledKept DEF Settled

LEMMA ReadKeeps ==
  ASSUME IInv, NEW l \in Loaders, ReadTable(l), NEW k \in Keys, Settled(k)
  PROVE  Settled(k)'
  <1>1. LoaderOK(l) /\ Dates /\ UNCHANGED <<stamp, snap>>
    BY DEF IInv, ReadTable
  <1>2. loader'[l].n = loader[l].n + 1 /\ loader'[l].copy = NextCopy(l)
    BY ReadEffect
  <1>3. ASSUME NEW x \in Loaders, HasRead(x, Table(k))'
        PROVE  loader'[x].copy.ver[Table(k)] >= stamp[k]
    <2>1. CASE x # l
      <3>1. loader'[x] = loader[x]
        BY <2>1, ReadEffect
      <3>2. QED BY <1>3, <3>1 DEF HasRead, Settled
    <2>2. CASE x = l /\ Table(k) = NextTable(l)
      BY <1>1, <1>2, <2>2, NextCopyOK DEF Dates
    <2>3. CASE x = l /\ Table(k) # NextTable(l)
      <3>1. HasRead(l, Table(k))
        BY <1>1, <1>2, <1>3, <2>3 DEF HasRead, ReadTable, LoaderOK, NextTable
      <3>2. QED BY <1>2, <2>3, <3>1, NextCopyOK DEF Settled
    <2>4. QED BY <2>1, <2>2, <2>3
  <1>4. QED BY <1>1, <1>3, SettledKept DEF Settled

LEMMA StoreKeeps ==
  ASSUME IInv, NEW l \in Loaders, StoreSnapshot(l), NEW k \in Keys, Settled(k)
  PROVE  Settled(k)'
  <1>1. loader = [x \in Loaders |-> loader[x]]
    BY DEF IInv
  <1>2. HasRead(l, Table(k))
    BY KeyTable, OrderTable DEF HasRead, StoreSnapshot
  <1>3. snap'.ver[Table(k)] >= stamp[k] /\ stamp' = stamp
    BY <1>2 DEF Settled, StoreSnapshot
  <1>4. \A x \in Loaders : Quiet(x) \/ Fresh(x)
    BY <1>1 DEF StoreSnapshot, Quiet, Fresh, Idle
  <1>5. ASSUME NEW x \in Loaders, HasRead(x, Table(k))'
        PROVE  loader'[x].copy.ver[Table(k)] >= stamp[k]
    BY <1>4, <1>5, QuietReads DEF Settled
  <1>6. QED BY <1>3, <1>5, SettledKept

\* A row that is served, and that no unfinished reload holds in an older
\* version, is served until it is written again (store.go:144-236).
THEOREM RowsNeverResurrect == Spec => NoResurrection
  <1> DEFINE Kept == \A k \in Keys : Settled(k) /\ stamp'[k] = stamp[k]
                                       => Settled(k)' /\ snap'.row[k] = db'[k]
  <1>1. ASSUME IInv, IInv', [Next]_vars PROVE Kept
    <2> SUFFICES ASSUME NEW k \in Keys, Settled(k), stamp'[k] = stamp[k]
                 PROVE  Settled(k)'
      BY <1>1 DEF IInv, SnapshotCurrent, Current, Settled, Dates, CopyOK
    <2>1. CASE OtherProcessWrite \/ UNCHANGED vars
      BY <1>1, <2>1, QuietKeeps, StillQuiet DEF OtherProcessWrite, vars
    <2>2. ASSUME NEW a \in AdminThreads, AdminHandler(a) \/ extendTenantActivate(a)
          PROVE  Settled(k)'
      BY <1>1, <2>2, AdminStep, MoveQuiet, QuietKeeps DEF Loaders
    <2>3. CASE Tick
      BY <1>1, <2>3, TickStep, MoveQuiet, QuietKeeps DEF Loaders, Tick
    <2>4. ASSUME NEW l \in Loaders, Reload(l) PROVE Settled(k)'
      <3>1. CASE ReadTable(l)
        BY <1>1, <3>1, ReadKeeps
      <3>2. CASE StoreSnapshot(l)
        BY <1>1, <3>2, StoreKeeps
      <3>3. CASE ReloadError(l)
        <4>1. \A x \in Loaders : Quiet(x) \/ Fresh(x)
          BY <1>1, <3>3 DEF IInv, ReloadError, Quiet, Fresh, Idle
        <4>2. QED BY <3>3, <4>1, QuietKeeps DEF ReloadError
      <3>4. QED BY <2>4, <3>1, <3>2, <3>3 DEF Reload
    <2>5. CASE Restart
      <3>1. \A x \in Loaders : Quiet(x) \/ Fresh(x)
        BY <2>5 DEF Restart, Fresh, Idle
      <3>2. QED BY <2>5, <3>1, QuietKeeps DEF Restart
    <2>6. QED BY <1>1, <2>1, <2>2, <2>3, <2>4, <2>5 DEF Next
  <1>2. Spec => []IInv
    BY InitIInv, Inductive, PTL DEF Spec
  <1>3. QED BY <1>1, <1>2, PTL DEF Spec, NoResurrection

------------------------------------------------------------------------------
(* The ticker beside the admin API: how late a row may be.                 *)

\* What an admin Reload that is not early has read is no older than the last
\* completed tick.
AfterTick(a) == \A k \in Keys : HasRead(a, Table(k)) => passVer <= loader[a].copy.ver[Table(k)]

\* The tenants are read first, so their date bounds the watcher's whole copy
\* from below; and every copy that may be stored without overtaking the tick,
\* like the served one unless it did, is no older than the tick.
WatcherOrdered ==
  \A k \in Keys : HasRead(Watcher, Table(k))
     => loader[Watcher].copy.ver["tenants"] <= loader[Watcher].copy.ver[Table(k)]
NotOvertaken == ~overtaken => \A k \in Keys : passVer <= snap.ver[Table(k)]
TickInv ==
  /\ IInv /\ WatcherOrdered /\ NotOvertaken
  /\ passVer \in Nat /\ passVer <= commits
  /\ \A a \in AdminThreads : a \in early \/ AfterTick(a)

\* A goroutine whose copy does not grow keeps what is known of it.
LEMMA AfterTickKept ==
  ASSUME NEW a \in Loaders, Quiet(a) \/ Fresh(a), IInv', UNCHANGED passVer, AfterTick(a)
  PROVE  AfterTick(a)'
  BY QuietReads, KeyTable DEF AfterTick

LEMMA WatcherKept ==
  ASSUME Quiet(Watcher) \/ Fresh(Watcher), IInv', WatcherOrdered
  PROVE  WatcherOrdered'
  <1>1. Watcher \in Loaders
    BY DEF Loaders
  <1>2. QED BY <1>1, QuietReads, KeyTable DEF WatcherOrdered

\* A step that serves nothing new and in which no copy grows.
LEMMA TickQuiet ==
  ASSUME TickInv, IInv', commits' >= commits, UNCHANGED <<snap, passVer, overtaken>>,
         \A l \in Loaders : Quiet(l) \/ Fresh(l),
         \A a \in early \ early' : Fresh(a)
  PROVE  TickInv'
  <1>1. WatcherOrdered'
    BY WatcherKept DEF TickInv, Loaders
  <1>2. ASSUME NEW a \in AdminThreads, a \notin early' PROVE AfterTick(a)'
    <2>1. a \in Loaders
      BY DEF Loaders
    <2>2. CASE a \in early
      <3>1. Fresh(a)
        BY <1>2, <2>2
      <3>2. \A t : ~HasRead(a, t)'
        BY <2>1, <3>1, FreshOK DEF TickInv, IInv, Dates
      <3>3. QED BY <3>2 DEF AfterTick
    <2>3. CASE a \notin early
      BY <2>1, <2>3, AfterTickKept DEF TickInv
    <2>4. QED BY <2>2, <2>3
  <1>3. passVer' \in Nat /\ passVer' <= commits' /\ NotOvertaken'
    BY DEF TickInv, IInv, Dates, NotOvertaken
  <1>4. QED BY <1>1, <1>2, <1>3 DEF TickInv

\* Reading a table dates it now: no tick is later.
LEMMA TickRead ==
  ASSUME TickInv, NEW l \in Loaders, ReadTable(l)
  PROVE  TickInv'
  <1>1. /\ IInv /\ IInv' /\ Dates /\ CopyOK(loader[l].copy)
        /\ UNCHANGED <<commits, snap, passVer, early, overtaken>>
    BY ReadStep DEF TickInv, IInv, LoaderOK, ReadTable
  <1>2. /\ loader'[l].copy = NextCopy(l) /\ loader'[l].n = loader[l].n + 1
        /\ loader[l].n \in 0..3 /\ loader[l].pc = "reload"
    BY <1>1, ReadEffect
  <1>3. \A x \in Loaders \ {l} : loader'[x] = loader[x]
    BY <1>1, ReadEffect
  <1>4. ASSUME NEW k \in Keys, HasRead(l, Table(k))', Table(k) # NextTable(l)
        PROVE  HasRead(l, Table(k))
    BY <1>2, <1>4 DEF HasRead, NextTable
  <1>5. ASSUME NEW a \in AdminThreads, a \notin early' PROVE AfterTick(a)'
    <2>1. a \in Loaders /\ AfterTick(a)
      BY <1>1, <1>5 DEF Loaders, TickInv
    <2>2. CASE a # l
      <3>1. loader'[a] = loader[a]
        BY <1>3, <2>1, <2>2
      <3>2. QED BY <1>1, <2>1, <3>1 DEF AfterTick, HasRead
    <2>3. CASE a = l
      <3>1. ASSUME NEW k \in Keys, HasRead(l, Table(k))'
            PROVE  passVer <= NextCopy(l).ver[Table(k)]
        <4>1. CASE Table(k) = NextTable(l)
          BY <1>1, <4>1, NextCopyOK DEF TickInv
        <4>2. CASE Table(k) # NextTable(l)
          BY <1>1, <1>4, <2>1, <2>3, <3>1, <4>2, NextCopyOK DEF AfterTick
        <4>3. QED BY <4>1, <4>2
      <3>2. QED BY <1>1, <1>2, <2>3, <3>1 DEF AfterTick
    <2>4. QED BY <2>2, <2>3
  <1>6. WatcherOrdered'
    <2>1. CASE l # Watcher
      <3>1. loader'[Watcher] = loader[Watcher]
        BY <1>3, <2>1 DEF Loaders
      <3>2. QED BY <3>1 DEF TickInv, WatcherOrdered, HasRead
    <2>2. CASE l = Watcher
      <3> DEFINE w == loader[l].copy
      <3>1. \A t \in Tables : NextCopy(l).ver[t] = IF t = NextTable(l) THEN commits ELSE w.ver[t]
        BY <1>1 DEF NextCopy, CopyOK
      <3>2. ASSUME NEW k \in Keys, HasRead(l, Table(k))'
            PROVE  NextCopy(l).ver["tenants"] <= NextCopy(l).ver[Table(k)]
        <4>1. "tenants" \in Tables /\ Table(k) \in Tables
          BY KeyTable DEF Tables
        <4>2. CASE Table(k) = NextTable(l)
          <5>1. w.ver["tenants"] <= commits /\ commits \in Nat
            BY <1>1, <4>1 DEF CopyOK, Dates
          <5>2. QED BY <3>1, <4>1, <4>2, <5>1
        <4>3. CASE Table(k) # NextTable(l)
          <5>1. HasRead(l, Table(k))
            BY <1>4, <3>2, <4>3
          <5>2. NextTable(l) # "tenants"
            BY <1>2, <5>1 DEF HasRead, NextTable, ReadOrder
          <5>3. QED BY <2>2, <3>1, <4>1, <4>3, <5>1, <5>2 DEF TickInv, WatcherOrdered
        <4>4. QED BY <4>2, <4>3
      <3>3. QED BY <1>2, <2>2, <3>2 DEF WatcherOrdered
    <2>3. QED BY <2>1, <2>2
  <1>7. NotOvertaken' /\ passVer' \in Nat /\ passVer' <= commits'
    BY <1>1 DEF TickInv, NotOvertaken
  <1>8. QED BY <1>1, <1>5, <1>6, <1>7 DEF TickInv

\* What is stored has been read in full.
LEMMA StoreEffect ==
  ASSUME IInv, NEW l \in Loaders, StoreSnapshot(l)
  PROVE  /\ IInv' /\ \A x \in Loaders : Quiet(x) \/ Fresh(x)
         /\ Fresh(l) /\ CopyOK(loader[l].copy)
         /\ \A k \in Keys : HasRead(l, Table(k))
         /\ snap' = loader[l].copy /\ UNCHANGED commits
  <1>1. loader = [x \in Loaders |-> loader[x]] /\ LoaderOK(l)
    BY DEF IInv
  <1>2. IInv' /\ CopyOK(loader[l].copy)
    BY <1>1, StoreStep DEF LoaderOK
  <1>3. \A k \in Keys : HasRead(l, Table(k))
    BY KeyTable, OrderTable DEF HasRead, StoreSnapshot
  <1>4. Fresh(l) /\ \A x \in Loaders : Quiet(x) \/ Fresh(x)
    BY <1>1 DEF StoreSnapshot, Quiet, Fresh, Idle
  <1>5. QED BY <1>2, <1>3, <1>4 DEF StoreSnapshot

\* A tick ends: it serves a copy whose every table was read after the tick began.
LEMMA TickStore ==
  ASSUME TickInv, StoreSnapshot(Watcher)
  PROVE  TickInv'
  <1>1. Watcher \in Loaders /\ IInv
    BY DEF Loaders, TickInv
  <1>2. /\ IInv' /\ \A x \in Loaders : Quiet(x) \/ Fresh(x)
        /\ CopyOK(loader[Watcher].copy) /\ \A k \in Keys : HasRead(Watcher, Table(k))
        /\ snap' = loader[Watcher].copy /\ UNCHANGED commits
    BY <1>1, StoreEffect
  <1>3. /\ passVer' = loader[Watcher].copy.ver["tenants"]
        /\ early' = {a \in AdminThreads : HasRead(a, "tenants")}
    BY DEF StoreSnapshot
  <1>4. passVer' \in Nat /\ passVer' <= commits' /\ NotOvertaken'
    BY <1>2, <1>3 DEF CopyOK, Tables, TickInv, WatcherOrdered, NotOvertaken
  <1>5. WatcherOrdered'
    BY <1>2, WatcherKept DEF TickInv, Loaders
  <1>6. ASSUME NEW a \in AdminThreads, a \notin early' PROVE AfterTick(a)'
    <2>1. a \in Loaders /\ ~HasRead(a, "tenants")
      BY <1>3, <1>6 DEF Loaders
    <2>2. LoaderOK(a)
      BY <1>1, <2>1 DEF IInv
    <2>3. \A k \in Keys : ~HasRead(a, Table(k))
      BY <2>1, <2>2 DEF LoaderOK, HasRead, ReadOrder
    <2>4. \A k \in Keys : ~HasRead(a, Table(k))'
      BY <1>2, <2>1, <2>3, QuietReads
    <2>5. QED BY <2>4 DEF AfterTick
  <1>7. QED BY <1>2, <1>4, <1>5, <1>6 DEF TickInv

\* An admin Reload ends: it overtakes the tick, or its copy is no older.
LEMMA AdminStore ==
  ASSUME TickInv, NEW a \in AdminThreads, StoreSnapshot(a)
  PROVE  TickInv'
  <1>1. a \in Loaders /\ a # Watcher /\ IInv
    BY ConstantsAssumption DEF Loaders, TickInv
  <1>2. /\ IInv' /\ \A x \in Loaders : Quiet(x) \/ Fresh(x)
        /\ Fresh(a) /\ \A k \in Keys : HasRead(a, Table(k))
        /\ snap' = loader[a].copy /\ UNCHANGED commits
    BY <1>1, StoreEffect
  <1>3. /\ early' = early \ {a} /\ overtaken' = (overtaken \/ a \in early)
        /\ UNCHANGED passVer
    BY <1>1 DEF StoreSnapshot
  <1>4. NotOvertaken'
    BY <1>2, <1>3 DEF TickInv, NotOvertaken, AfterTick
  <1>5. WatcherOrdered'
    BY <1>2, WatcherKept DEF TickInv, Loaders
  <1>6. ASSUME NEW x \in AdminThreads, x \notin early' PROVE AfterTick(x)'
    <2>1. x \in Loaders
      BY DEF Loaders
    <2>2. CASE x = a
      <3>1. \A t : ~HasRead(x, t)'
        BY <1>2, <2>2, FreshOK DEF IInv, Dates
      <3>2. QED BY <3>1 DEF AfterTick
    <2>3. CASE x # a
      <3>1. AfterTick(x)
        BY <1>3, <1>6, <2>3 DEF TickInv
      <3>2. QED BY <1>2, <1>3, <2>1, <3>1, AfterTickKept
    <2>4. QED BY <2>2, <2>3
  <1>7. QED BY <1>2, <1>3, <1>4, <1>5, <1>6 DEF TickInv

LEMMA TickInductive == TickInv /\ [Next]_vars => TickInv'
  <1> SUFFICES ASSUME TickInv, [Next]_vars PROVE TickInv'
    OBVIOUS
  <1>1. IInv' /\ IInv /\ Dates /\ loader = [x \in Loaders |-> loader[x]]
    BY Inductive DEF TickInv, IInv
  <1>2. CASE OtherProcessWrite
    <2>1. WriteStep
      BY <1>1, <1>2, TenantWriteStep, IPWriteStep, RuleWriteStep DEF OtherProcessWrite
    <2>2. QED BY <1>1, <1>2, <2>1, StillQuiet, TickQuiet DEF OtherProcessWrite, WriteStep
  <1>3. ASSUME NEW a \in AdminThreads, AdminHandler(a) \/ extendTenantActivate(a)
        PROVE  TickInv'
    <2>1. a \in Loaders /\ WriteStep /\ Moves(a) /\ UNCHANGED snap
      BY <1>1, <1>3, AdminStep DEF Loaders
    <2>2. UNCHANGED <<passVer, early, overtaken>>
      BY <1>3 DEF AdminHandler, extendTenantActivate, createTenant, revokeTenant, extendTenant,
                  pauseTenant, registerIP, releaseIP, setOverride, addAllow, Handling
    <2>3. QED BY <1>1, <2>1, <2>2, MoveQuiet, TickQuiet DEF WriteStep
  <1>4. CASE Tick
    <2>1. \A l \in Loaders : Quiet(l)
      BY <1>1, <1>4, TickStep, MoveQuiet DEF Loaders
    <2>2. QED BY <1>1, <1>4, <2>1, TickQuiet DEF Tick, Dates
  <1>5. ASSUME NEW l \in Loaders, ReadTable(l) PROVE TickInv'
    BY <1>5, TickRead
  <1>6. ASSUME NEW l \in Loaders, StoreSnapshot(l) PROVE TickInv'
    BY <1>6, TickStore, AdminStore DEF Loaders
  <1>7. ASSUME NEW l \in Loaders, ReloadError(l) PROVE TickInv'
    <2>1. Fresh(l) /\ \A x \in Loaders : Quiet(x) \/ Fresh(x)
      BY <1>1, <1>7 DEF ReloadError, Quiet, Fresh, Idle
    <2>2. UNCHANGED <<commits, snap, passVer, overtaken>> /\ early \ early' \subseteq {l}
      BY <1>7 DEF ReloadError
    <2>3. QED BY <1>1, <2>1, <2>2, TickQuiet DEF Dates
  <1>8. CASE Restart
    <2>1. \A x \in Loaders : Fresh(x)
      BY <1>1, <1>8 DEF Restart, Fresh, Idle
    <2>2. \A x \in AdminThreads : AfterTick(x)'
      BY <1>1, <2>1, FreshOK DEF AfterTick, Dates, Loaders, IInv
    <2>3. UNCHANGED <<commits, snap, passVer, overtaken>>
      BY <1>8 DEF Restart
    <2>4. WatcherOrdered'
      BY <1>1, <2>1, WatcherKept DEF TickInv, Loaders
    <2>5. QED BY <1>1, <2>2, <2>3, <2>4 DEF TickInv, NotOvertaken
  <1>9. CASE UNCHANGED vars
    BY <1>1, <1>9, StillQuiet, TickQuiet DEF vars, Dates
  <1>10. QED BY <1>2, <1>3, <1>4, <1>5, <1>6, <1>7, <1>8, <1>9 DEF Next, Reload

\* However many admin handlers reload over the ticker of WatchReload
\* (store.go:238), a row written before a tick began is served from the end of
\* that tick on, unless an admin Reload the tick overlapped stored after it.
THEOREM TickerBoundsStaleness == Spec => []WithinOneTick
  <1>1. Init => TickInv
    <2> SUFFICES ASSUME Init PROVE TickInv
      OBVIOUS
    <2>1. \A l \in Loaders : \A t : ~HasRead(l, t)
      BY DEF Init, HasRead, Idle
    <2>2. IInv /\ WatcherOrdered /\ \A a \in AdminThreads : AfterTick(a)
      BY <2>1, InitIInv DEF WatcherOrdered, AfterTick, Loaders
    <2>3. NotOvertaken /\ passVer \in Nat /\ passVer <= commits
      BY KeyTable DEF Init, NotOvertaken
    <2>4. QED BY <2>2, <2>3 DEF TickInv
  <1>2. TickInv => WithinOneTick
    BY KeyTable DEF TickInv, NotOvertaken, IInv, Dates, CopyOK, SnapshotCurrent, Current,
                    WithinOneTick
  <1>3. QED BY <1>1, <1>2, TickInductive, PTL DEF Spec

------------------------------------------------------------------------------
(* Type correctness.                                                       *)

\* The database part of TypeOK, and a write that keeps it.
TypeDB ==
  /\ db \in [Keys -> Rows]
  /\ \A r \in Routes : db[TenantKey(r)] \in Tenant \cup {None}
  /\ commits \in 0..MaxCommits
  /\ stamp \in [Keys -> 0..commits]
TypedWrite == TypeDB' /\ commits' >= commits

LEMMA PutTyped ==
  ASSUME TypeDB, NEW k0 \in Keys, NEW row \in Rows, Put(k0, row),
         Table(k0) = "tenants" => row \in Tenant
  PROVE  TypedWrite
  <1>1. CASE db[k0] = row
    BY <1>1 DEF Put, TypeDB, TypedWrite
  <1>2. CASE db[k0] # row
    <2>1. /\ db' = [db EXCEPT ![k0] = row] /\ commits < MaxCommits
          /\ commits' = commits + 1 /\ stamp' = [stamp EXCEPT ![k0] = commits + 1]
      BY <1>2 DEF Put
    <2>2. commits' \in 0..MaxCommits /\ commits' >= commits
      BY <2>1, ConstantsAssumption DEF TypeDB
    <2>3. db' \in [Keys -> Rows] /\ stamp' \in [Keys -> 0..commits']
      BY <2>1, <2>2 DEF TypeDB
    <2>4. ASSUME NEW r \in Routes PROVE db'[TenantKey(r)] \in Tenant \cup {None}
      <3>1. TenantKey(r) \in Keys /\ Table(TenantKey(r)) = "tenants"
        BY KeysTyped DEF TenantKey, Table
      <3>2. QED BY <2>1, <3>1 DEF TypeDB
    <2>5. QED BY <2>2, <2>3, <2>4 DEF TypedWrite, TypeDB
  <1>3. QED BY <1>1, <1>2

LEMMA TenantTyped ==
  ASSUME TypeDB, NEW r \in Routes
  PROVE  /\ \A e \in Times : CreateTenant(r, e) => TypedWrite
         /\ \A s \in {"active", "suspended"} : SetStatus(r, s) => TypedWrite
         /\ \A e \in Times : Extend(r, e) \/ PauseFiltering(r, e) => TypedWrite
  <1> DEFINE k == TenantKey(r)
  <1>1. k \in Keys /\ Tenant \subseteq Rows /\ db[k] \in Tenant \cup {None}
    BY KeysTyped DEF Rows, TypeDB
  <1>2. ASSUME NEW row \in Tenant, Put(k, row) PROVE TypedWrite
    BY <1>1, <1>2, PutTyped
  <1>3. UNCHANGED <<db, commits, stamp>> => TypedWrite
    BY DEF TypeDB, TypedWrite
  <1>4. ASSUME db[k] \in Tenant
        PROVE  /\ \A e \in Times : [db[k] EXCEPT !.expires = e] \in Tenant
               /\ \A e \in Times : [db[k] EXCEPT !.paused = e] \in Tenant
               /\ \A s \in {"active", "suspended"} : [db[k] EXCEPT !.status = s] \in Tenant
               /\ \A e \in Times : [db[k] EXCEPT !.expires = e, !.status = "active"] \in Tenant
    BY <1>4 DEF Tenant
  <1>5. ASSUME NEW e \in Times, CreateTenant(r, e) PROVE TypedWrite
    <2>1. NewTenant(e) \in Tenant
      BY ConstantsAssumption DEF NewTenant, Tenant
    <2>2. QED BY <1>1, <1>2, <1>4, <1>5, <2>1 DEF CreateTenant
  <1>6. ASSUME NEW s \in {"active", "suspended"}, SetStatus(r, s) PROVE TypedWrite
    BY <1>1, <1>2, <1>3, <1>4, <1>6 DEF SetStatus, UpdateTenant
  <1>7. ASSUME NEW e \in Times, Extend(r, e) \/ PauseFiltering(r, e) PROVE TypedWrite
    BY <1>1, <1>2, <1>3, <1>4, <1>7 DEF Extend, PauseFiltering, UpdateTenant
  <1>8. QED BY <1>5, <1>6, <1>7

LEMMA RowTyped ==
  ASSUME TypeDB
  PROVE  /\ \A i \in IPs : ReleaseIP(i) => TypedWrite
         /\ \A r \in Routes, i \in IPs : RegisterIP(r, i) => TypedWrite
         /\ \A s \in Scopes, d \in Domains :
              AddAllow(s, d) \/ RemoveAllow(s, d) \/ RemoveOverride(s, d) => TypedWrite
         /\ \A s \in Scopes, d \in Domains, a \in Answers : SetOverride(s, d, a) => TypedWrite
  <1>1. /\ \A i \in IPs : Table(IPKey(i)) # "tenants"
        /\ \A s, d : Table(AllowKey(s, d)) # "tenants" /\ Table(OverrideKey(s, d)) # "tenants"
    BY DEF Table, IPKey, AllowKey, OverrideKey
  <1>2. Routes \subseteq Rows /\ Answers \subseteq Rows /\ {None, Listed} \subseteq Rows
    BY DEF Rows
  <1>3. /\ \A i \in IPs : ReleaseIP(i) => TypedWrite
        /\ \A r \in Routes, i \in IPs : RegisterIP(r, i) => TypedWrite
    BY <1>1, <1>2, KeysTyped, PutTyped DEF RegisterIP, ReleaseIP
  <1>4. ASSUME NEW s \in Scopes, NEW d \in Domains,
               AddAllow(s, d) \/ RemoveAllow(s, d) \/ RemoveOverride(s, d)
        PROVE  TypedWrite
    BY <1>1, <1>2, <1>4, KeysTyped, PutTyped DEF AddAllow, RemoveAllow, RemoveOverride
  <1>5. ASSUME NEW s \in Scopes, NEW d \in Domains, NEW a \in Answers, SetOverride(s, d, a)
        PROVE  TypedWrite
    BY <1>1, <1>2, <1>5, KeysTyped, PutTyped DEF SetOverride
  <1>6. QED BY <1>3, <1>4, <1>5

\* The type of one loader, and what it takes to keep it.
LoaderType == [pc: {"idle", "activate", "reload"}, n: 0..4,
               target: Routes \cup {None}, copy: Copies]

LEMMA CopiesGrow ==
  ASSUME TypeDB, TypedWrite
  PROVE  /\ \A c \in Copies : c \in Copies'
         /\ \A x \in LoaderType : x \in LoaderType'
         /\ \A n \in 0..commits : n \in 0..commits'
  <1>1. 0..commits \subseteq 0..commits'
    BY DEF TypeDB, TypedWrite
  <1>2. \A c \in Copies : c \in Copies'
    BY <1>1 DEF Copies
  <1>3. QED BY <1>1, <1>2 DEF LoaderType

\* A write of whatever process leaves the types of everything else alone.
LEMMA WriteKeepsType ==
  ASSUME TypeOK, TypedWrite, UNCHANGED <<snap, serving, passVer, early, overtaken, errors, restarts>>,
         loader' \in [Loaders -> LoaderType]
  PROVE  TypeOK'
  <1>1. TypeDB
    BY DEF TypeOK, TypeDB
  <1>2. loader' \in [Loaders -> LoaderType']
    BY <1>1, CopiesGrow
  <1>3. snap' \in Copies' /\ passVer' \in 0..commits'
        /\ early' \subseteq AdminThreads /\ overtaken' \in BOOLEAN
    BY <1>1, CopiesGrow DEF TypeOK
  <1>4. QED BY <1>2, <1>3 DEF TypeOK, TypedWrite, TypeDB, LoaderType

LEMMA AdminTyped ==
  ASSUME TypeOK, NEW a \in Loaders, AdminHandler(a) \/ extendTenantActivate(a),
         loader[a].pc = "activate" => loader[a].target \in Routes
  PROVE  TypeOK'
  <1>1. TypeDB /\ loader \in [Loaders -> LoaderType] /\ loader[a] \in LoaderType
    BY DEF TypeOK, TypeDB, LoaderType
  <1>2. \A pc \in {"idle", "activate", "reload"}, t \in Routes \cup {None} :
          /\ [loader EXCEPT ![a].pc = pc] \in [Loaders -> LoaderType]
          /\ [loader EXCEPT ![a].pc = pc, ![a].target = t] \in [Loaders -> LoaderType]
    BY <1>1 DEF LoaderType
  <1>3. CASE createTenant(a) \/ revokeTenant(a) \/ pauseTenant(a)
    <2>1. TypedWrite
      BY <1>1, <1>3, TenantTyped DEF createTenant, revokeTenant, pauseTenant
    <2>2. QED BY <1>2, <1>3, <2>1, WriteKeepsType
            DEF createTenant, revokeTenant, pauseTenant, Handling, ThenReload
  <1>4. CASE registerIP(a) \/ releaseIP(a) \/ setOverride(a) \/ addAllow(a)
    <2>1. TypedWrite
      BY <1>1, <1>4, RowTyped DEF registerIP, releaseIP, setOverride, addAllow
    <2>2. QED BY <1>2, <1>4, <2>1, WriteKeepsType
            DEF registerIP, releaseIP, setOverride, addAllow, Handling, ThenReload
  <1>5. CASE extendTenant(a)
    <2>1. PICK r \in Routes, e \in Times :
            /\ Extend(r, e)
            /\ loader' = [loader EXCEPT ![a].pc = "activate", ![a].target = r]
      BY <1>5 DEF extendTenant
    <2>2. loader' \in [Loaders -> LoaderType] /\ TypedWrite
      BY <1>1, <1>2, <2>1, TenantTyped
    <2>3. QED BY <1>5, <2>2, WriteKeepsType DEF extendTenant, Handling
  <1>6. CASE extendTenantActivate(a)
    <2>1. TypedWrite
      BY <1>1, <1>6, TenantTyped DEF extendTenantActivate
    <2>2. loader' \in [Loaders -> LoaderType]
      BY <1>2, <1>6 DEF extendTenantActivate
    <2>3. QED BY <1>6, <2>1, <2>2, WriteKeepsType DEF extendTenantActivate
  <1>7. QED BY <1>3, <1>4, <1>5, <1>6 DEF AdminHandler

\* The steps of Reload and a restart put well-typed copies into loaders.
LEMMA ReloadTyped ==
  ASSUME TypeOK, IInv, [Next]_vars, UNCHANGED <<db, commits, stamp>>,
         snap' \in Copies, serving' \in BOOLEAN, passVer' \in 0..commits,
         early' \subseteq AdminThreads, overtaken' \in BOOLEAN,
         errors' \in 0..MaxErrors, restarts' \in 0..MaxRestarts,
         loader' = [l \in Loaders |-> loader'[l]],
         \A l \in Loaders : loader'[l] \in LoaderType
  PROVE  TypeOK'
  <1>1. Copies' = Copies
    BY DEF Copies
  <1>2. loader' \in [Loaders -> LoaderType]
    OBVIOUS
  <1>3. QED BY <1>1, <1>2 DEF TypeOK, LoaderType

LEMMA FreshTyped ==
  ASSUME TypeOK, NEW l \in Loaders, loader'[l] = loader[l] \/ Fresh(l)
  PROVE  loader'[l] \in LoaderType
  <1>1. EmptyCopy \in Copies
    BY DEF EmptyCopy, Copies, TypeOK, Rows
  <1>2. CASE loader'[l] = loader[l]
    BY <1>2 DEF TypeOK, LoaderType
  <1>3. ASSUME NEW pc \in {"idle", "reload"},
               loader'[l] = [pc |-> pc, n |-> 0, target |-> None, copy |-> EmptyCopy]
        PROVE  loader'[l] \in LoaderType
    BY <1>1, <1>3 DEF LoaderType
  <1>4. QED BY <1>2, <1>3 DEF Fresh

LEMMA ReadTyped ==
  ASSUME TypeOK, IInv, NEW l \in Loaders, ReadTable(l)
  PROVE  loader'[l] \in LoaderType
  <1>1. loader[l] \in LoaderType
    BY DEF TypeOK, LoaderType
  <1>2. NextCopy(l) \in Copies
    <2>1. loader[l].copy \in Copies /\ db \in [Keys -> Rows] /\ commits \in 0..commits
      BY <1>1 DEF LoaderType, TypeOK
    <2>2. QED BY <2>1 DEF NextCopy, Copies
  <1>3. loader'[l].target = loader[l].target
    <2>1. loader = [x \in Loaders |-> loader[x]]
      BY DEF IInv
    <2>2. QED BY <1>1, <2>1 DEF ReadTable, LoaderType
  <1>4. loader'[l].n \in 0..4 /\ loader'[l].pc = "reload" /\ loader'[l].copy \in Copies
    <2>1. loader[l].n \in 0..3 /\ loader'[l].n = loader[l].n + 1
      BY ReadEffect
    <2>2. loader'[l].pc = "reload" /\ loader'[l].copy = NextCopy(l)
      BY ReadEffect
    <2>3. QED BY <1>2, <2>1, <2>2
  <1>5. loader'[l].target \in Routes \cup {None}
    BY <1>1, <1>3 DEF LoaderType
  <1>6. loader'[l] = [pc |-> loader'[l].pc, n |-> loader'[l].n,
                      target |-> loader'[l].target, copy |-> loader'[l].copy]
    BY ReadEffect
  <1>7. QED BY <1>4, <1>5, <1>6 DEF LoaderType

\* Every variable keeps its type through every step, whatever the constants.
THEOREM TypeCorrect == Spec => []TypeOK
  <1>1. Init => TypeOK
    <2> SUFFICES ASSUME Init PROVE TypeOK
      OBVIOUS
    <2>1. PICK t \in [Routes -> {None} \cup {NewTenant(e) : e \in Times}] :
            db = [k \in Keys |-> IF Table(k) = "tenants" THEN t[k[2]] ELSE None]
      BY DEF Init
    <2>2. \A r \in Routes : t[r] \in Tenant \cup {None}
      BY ConstantsAssumption DEF NewTenant, Tenant
    <2>3. \A k \in Keys : Table(k) = "tenants" => k[2] \in Routes
      BY DEF Keys, Table
    <2>4. db \in [Keys -> Rows]
      BY <2>1, <2>2, <2>3 DEF Rows
    <2>5. \A r \in Routes : db[TenantKey(r)] \in Tenant \cup {None}
      BY <2>1, <2>2, KeysTyped DEF TenantKey, Table
    <2>6. snap \in Copies /\ EmptyCopy \in Copies
      BY <2>4 DEF Init, Copies, EmptyCopy, Rows
    <2>7. /\ serving \in BOOLEAN /\ overtaken \in BOOLEAN /\ early \subseteq AdminThreads
      BY DEF Init
    <2>8. loader \in [Loaders -> [pc: {"idle", "activate", "reload"}, n: 0..4,
                                  target: Routes \cup {None}, copy: Copies]]
      BY <2>6 DEF Init, Idle
    <2>9. /\ commits \in 0..MaxCommits /\ stamp \in [Keys -> 0..commits] /\ passVer \in 0..commits
          /\ errors \in 0..MaxErrors /\ restarts \in 0..MaxRestarts
      BY ConstantsAssumption DEF Init
    <2>10. QED BY <2>4, <2>5, <2>6, <2>7, <2>8, <2>9 DEF TypeOK
  <1>2. ASSUME TypeOK, IInv, [Next]_vars PROVE TypeOK'
    <2>1. /\ TypeDB /\ loader = [l \in Loaders |-> loader[l]]
          /\ \A l \in Loaders : loader[l] \in LoaderType
      BY <1>2 DEF TypeOK, TypeDB, IInv, LoaderType
    <2>2. CASE OtherProcessWrite
      <3>1. TypedWrite
        BY <2>1, <2>2, TenantTyped, RowTyped DEF OtherProcessWrite
      <3>2. loader' \in [Loaders -> LoaderType]
        BY <1>2, <2>2 DEF OtherProcessWrite, TypeOK, LoaderType
      <3>3. QED BY <1>2, <2>2, <3>1, <3>2, WriteKeepsType DEF OtherProcessWrite
    <2>3. ASSUME NEW a \in AdminThreads, AdminHandler(a) \/ extendTenantActivate(a)
          PROVE  TypeOK'
      BY <1>2, <2>3, AdminTyped DEF IInv, LoaderOK, Loaders
    <2>4. CASE Tick
      <3>1. Watcher \in Loaders /\ loader' = [l \in Loaders |-> loader'[l]]
        BY <2>1, <2>4 DEF Tick, Loaders
      <3>2. \A l \in Loaders : loader'[l] \in LoaderType
        BY <2>1, <2>4, <3>1 DEF Tick, LoaderType
      <3>3. QED BY <1>2, <2>4, <3>1, <3>2, ReloadTyped DEF Tick, TypeOK
    <2>5. ASSUME NEW l \in Loaders, ReadTable(l) PROVE TypeOK'
      BY <1>2, <2>1, <2>5, ReadEffect, ReadTyped, ReloadTyped DEF ReadTable, TypeOK
    <2>6. ASSUME NEW l \in Loaders, StoreSnapshot(l) PROVE TypeOK'
      <3>1. loader[l].copy \in Copies /\ loader[l].copy.ver["tenants"] \in 0..commits
        BY <2>1 DEF LoaderType, Copies, Tables
      <3>2. loader' = [x \in Loaders |-> loader'[x]]
            /\ \A x \in Loaders : loader'[x] = loader[x] \/ Fresh(x)
        BY <2>1, <2>6 DEF StoreSnapshot, Fresh, Idle
      <3>3. QED BY <1>2, <2>6, <3>1, <3>2, FreshTyped, ReloadTyped DEF StoreSnapshot, TypeOK
    <2>7. ASSUME NEW l \in Loaders, ReloadError(l) PROVE TypeOK'
      <3>1. loader' = [x \in Loaders |-> loader'[x]]
            /\ \A x \in Loaders : loader'[x] = loader[x] \/ Fresh(x)
        BY <2>1, <2>7 DEF ReloadError, Fresh, Idle
      <3>2. errors' \in 0..MaxErrors
        BY <1>2, <2>7, ConstantsAssumption DEF ReloadError, TypeOK
      <3>3. QED BY <1>2, <2>7, <3>1, <3>2, FreshTyped, ReloadTyped DEF ReloadError, TypeOK
    <2>8. CASE Restart
      <3>1. loader' = [x \in Loaders |-> loader'[x]] /\ \A x \in Loaders : Fresh(x)
        BY <2>8 DEF Restart, Fresh, Idle
      <3>2. restarts' \in 0..MaxRestarts
        BY <1>2, <2>8, ConstantsAssumption DEF Restart, TypeOK
      <3>3. QED BY <1>2, <2>8, <3>1, <3>2, FreshTyped, ReloadTyped DEF Restart, TypeOK
    <2>9. CASE UNCHANGED vars
      BY <1>2, <2>9 DEF vars, TypeOK, Copies
    <2>10. QED BY <1>2, <2>2, <2>3, <2>4, <2>5, <2>6, <2>7, <2>8, <2>9 DEF Next, Reload
  <1>3. Spec => []IInv
    BY InitIInv, Inductive, PTL DEF Spec
  <1>4. QED BY <1>1, <1>2, <1>3, PTL DEF Spec

==============================================================================
