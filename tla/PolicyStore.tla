----------------------------- MODULE PolicyStore -----------------------------
(***************************************************************************)
(* The policy database of PrivateDNS and the resolver's in-memory copy of  *)
(* it (resolver/store.go, the handlers of resolver/admin.go).              *)
(*                                                                         *)
(* Four processes write the same SQLite file.  The resolver answers every  *)
(* query from a snapshot behind an atomic pointer; Reload rebuilds the     *)
(* snapshot with four SELECTs that share no transaction and then swaps the *)
(* pointer.  Reload runs on a one-second ticker (WatchReload) and at the   *)
(* end of every admin handler, so several reloads overlap each other and   *)
(* the commits of the other processes.                                     *)
(*                                                                         *)
(* A row of any table is a key of one function: <<table, id>>.  commits,   *)
(* stamp and the ver fields are history: they date the rows and the        *)
(* copies, and no guard of the code's own steps reads them but the bound.  *)
(***************************************************************************)
EXTENDS Integers, FiniteSets

CONSTANTS
  Routes,        \* route identifiers of the tenants
  Scopes,        \* scopes of allowlist entries and overrides: routes and "*"
  IPs,           \* source addresses
  Domains,       \* names a rule can be written for
  Answers,       \* override answers
  Times,         \* values of expires_at and paused_until
  Watcher,       \* the WatchReload goroutine
  AdminThreads,  \* goroutines serving the resolver's admin API
  None,          \* an absent row
  Listed,        \* the row of an allowlist entry, which has no value
  MaxCommits,    \* bound: commits that change a row
  MaxErrors,     \* bound: reloads that fail
  MaxRestarts    \* bound: restarts of the resolver

ASSUME ConstantsAssumption ==
  /\ MaxCommits \in Nat /\ MaxErrors \in Nat /\ MaxRestarts \in Nat
  /\ Times \subseteq Nat /\ 0 \in Times
  /\ Watcher \notin AdminThreads

Loaders == {Watcher} \cup AdminThreads

TenantKey(r)      == <<"tenants", r>>
IPKey(i)          == <<"tenant_ips", i>>
AllowKey(s, d)    == <<"allowlist", <<s, d>>>>
OverrideKey(s, d) == <<"overrides", <<s, d>>>>

\* The order in which Reload selects the tables.
ReadOrder == <<"tenants", "tenant_ips", "allowlist", "overrides">>
Tables    == {"tenants", "tenant_ips", "allowlist", "overrides"}

Keys == ({"tenants"} \X Routes) \cup ({"tenant_ips"} \X IPs)
          \cup ({"allowlist", "overrides"} \X (Scopes \X Domains))

Table(k) == k[1]

Tenant == [status: {"active", "suspended"}, expires: Times, paused: Times]
Rows   == Tenant \cup Routes \cup Answers \cup {Listed, None}

\* A fresh row of CreateTenant.
NewTenant(expires) == [status |-> "active", expires |-> expires, paused |-> 0]

VARIABLES
  db,       \* db[k]: the committed row, None when there is none
  commits,  \* history: how many commits have changed a row
  stamp,    \* stamp[k], history: the commit that last wrote row k
  snap,     \* the served snapshot: rows, and when each table was read
  serving,  \* FALSE from a restart until OpenStore's own Reload is done
  loader,   \* loader[l]: a goroutine inside Reload or an admin handler
  passVer,  \* history: commits at the start of the last completed tick
  early,    \* history: admin Reloads that had begun to read when that tick
            \* ended and are still under way
  overtaken,\* history: one of them has stored its copy over the tick's
  errors, restarts

vars == <<db, commits, stamp, snap, serving, loader, passVer, early, overtaken, errors, restarts>>

\* snapshot{} before any row is scanned.
EmptyCopy == [row |-> [k \in Keys |-> None], ver |-> [t \in Tables |-> 0]]

\* pc: "idle", "activate" (extendTenant between its two writes) or "reload";
\* n counts the tables this Reload has read.
Idle == [pc |-> "idle", n |-> 0, target |-> None, copy |-> EmptyCopy]

HasRead(l, t) ==
  loader[l].pc = "reload" /\ \E i \in 1..loader[l].n : ReadOrder[i] = t

Init ==
  /\ \E t \in [Routes -> {None} \cup {NewTenant(e) : e \in Times}] :
       db = [k \in Keys |-> IF Table(k) = "tenants" THEN t[k[2]] ELSE None]
  /\ commits = 0
  /\ stamp = [k \in Keys |-> 0]
  /\ snap = [row |-> db, ver |-> [t \in Tables |-> 0]]
  /\ serving = TRUE
  /\ loader = [l \in Loaders |-> Idle]
  /\ passVer = 0 /\ early = {} /\ overtaken = FALSE
  /\ errors = 0 /\ restarts = 0

------------------------------------------------------------------------------
(* The write paths: one statement, one commit, of any process.             *)

Put(k, row) ==
  IF db[k] = row
  THEN UNCHANGED <<db, commits, stamp>>
  ELSE /\ commits < MaxCommits
       /\ db' = [db EXCEPT ![k] = row]
       /\ commits' = commits + 1
       /\ stamp' = [stamp EXCEPT ![k] = commits + 1]

\* UPDATE tenants SET ...: touches nothing when the route has no row.
UpdateTenant(r, row) ==
  IF db[TenantKey(r)] = None THEN UNCHANGED <<db, commits, stamp>>
                             ELSE Put(TenantKey(r), row)

CreateTenant(r, e) ==
  LET k == TenantKey(r)
  IN  Put(k, IF db[k] = None THEN NewTenant(e)
             ELSE [db[k] EXCEPT !.expires = e, !.status = "active"])

SetStatus(r, s)      == UpdateTenant(r, [db[TenantKey(r)] EXCEPT !.status = s])
Extend(r, e)         == UpdateTenant(r, [db[TenantKey(r)] EXCEPT !.expires = e])
PauseFiltering(r, u) == UpdateTenant(r, [db[TenantKey(r)] EXCEPT !.paused = u])
RegisterIP(r, i)     == Put(IPKey(i), r)
ReleaseIP(i)         == Put(IPKey(i), None)
AddAllow(s, d)       == Put(AllowKey(s, d), Listed)
RemoveAllow(s, d)    == Put(AllowKey(s, d), None)
SetOverride(s, d, a) == Put(OverrideKey(s, d), a)
RemoveOverride(s, d) == Put(OverrideKey(s, d), None)

\* A commit of the backend, the portal, the dashboard or the address binder:
\* none of them touches this process's snapshot.
OtherProcessWrite ==
  /\ \/ \E r \in Routes, t \in Times :
          CreateTenant(r, t) \/ Extend(r, t) \/ PauseFiltering(r, t)
     \/ \E r \in Routes, s \in {"active", "suspended"} : SetStatus(r, s)
     \/ \E r \in Routes, i \in IPs : RegisterIP(r, i) \/ ReleaseIP(i)
     \/ \E s \in Scopes, d \in Domains : AddAllow(s, d) \/ RemoveAllow(s, d)
     \/ \E s \in Scopes, d \in Domains :
          RemoveOverride(s, d) \/ \E a \in Answers : SetOverride(s, d, a)
  /\ UNCHANGED <<snap, serving, loader, passVer, early, overtaken, errors, restarts>>

------------------------------------------------------------------------------
(* The resolver's admin handlers: write, then Reload.                      *)

\* The handler's write is done; it goes on to Reload.
ThenReload(a) == loader' = [loader EXCEPT ![a].pc = "reload"]

Handling(a) ==
  /\ serving /\ loader[a].pc = "idle"
  /\ UNCHANGED <<snap, serving, passVer, early, overtaken, errors, restarts>>

createTenant(a) == Handling(a) /\ ThenReload(a)
                     /\ \E r \in Routes, e \in Times : CreateTenant(r, e)
revokeTenant(a) == Handling(a) /\ ThenReload(a)
                     /\ \E r \in Routes : SetStatus(r, "suspended")
pauseTenant(a)  == Handling(a) /\ ThenReload(a)
                     /\ \E r \in Routes, u \in Times : PauseFiltering(r, u)
releaseIP(a)    == Handling(a) /\ ThenReload(a) /\ \E i \in IPs : ReleaseIP(i)
addAllow(a)     == Handling(a) /\ ThenReload(a)
                     /\ \E s \in Scopes, d \in Domains : AddAllow(s, d)
setOverride(a)  == Handling(a) /\ ThenReload(a)
                     /\ \E s \in Scopes, d \in Domains, x \in Answers : SetOverride(s, d, x)

\* Refused unless the snapshot knows the route.
registerIP(a) ==
  /\ Handling(a) /\ ThenReload(a)
  /\ \E r \in Routes, i \in IPs :
       snap.row[TenantKey(r)] # None /\ RegisterIP(r, i)

\* Extend, then SetStatus as a second commit.  The new expiry comes from the
\* request or from the snapshot's; any value of Times stands for both.
extendTenant(a) ==
  /\ Handling(a)
  /\ \E r \in Routes, e \in Times :
       /\ Extend(r, e)
       /\ loader' = [loader EXCEPT ![a].pc = "activate", ![a].target = r]

extendTenantActivate(a) ==
  /\ loader[a].pc = "activate"
  /\ SetStatus(loader[a].target, "active")
  /\ loader' = [loader EXCEPT ![a].pc = "reload", ![a].target = None]
  /\ UNCHANGED <<snap, serving, passVer, early, overtaken, errors, restarts>>

AdminHandler(a) ==
  \/ createTenant(a) \/ revokeTenant(a) \/ extendTenant(a) \/ pauseTenant(a)
  \/ registerIP(a) \/ releaseIP(a) \/ setOverride(a) \/ addAllow(a)

------------------------------------------------------------------------------
(* Reload.                                                                 *)

\* A tick of WatchReload.  The ticker goroutine runs one Reload at a time.
Tick ==
  /\ serving /\ loader[Watcher].pc = "idle"
  /\ loader' = [loader EXCEPT ![Watcher].pc = "reload"]
  /\ UNCHANGED <<db, commits, stamp, snap, serving, passVer, early, overtaken, errors, restarts>>

\* Mutant: the snapshot is swapped in although a SELECT failed.
ReloadError_Publishes(l) ==
  /\ loader[l].pc = "reload" /\ loader[l].n < 4
  /\ errors < MaxErrors
  /\ errors' = errors + 1
  /\ snap' = loader[l].copy
  /\ loader' = [loader EXCEPT ![l] = IF serving THEN Idle ELSE [Idle EXCEPT !.pc = "reload"]]
  /\ UNCHANGED <<db, commits, stamp, serving, passVer, early, overtaken, restarts>>

\* Mutant: WatchReload returns on the first error instead of logging it.
ReloadError_StopsTicker(l) ==
  /\ loader[l].pc = "reload" /\ loader[l].n < 4
  /\ errors < MaxErrors
  /\ errors' = errors + 1
  /\ loader' = [loader EXCEPT ![l] =
                  IF l = Watcher THEN [Idle EXCEPT !.pc = "stopped"] ELSE Idle]
  /\ UNCHANGED <<db, commits, stamp, snap, serving, passVer, early, overtaken, restarts>>

\* The next SELECT: one statement sees one committed state.
ReadTable(l) ==
  /\ loader[l].pc = "reload" /\ loader[l].n < 4
  /\ LET t == ReadOrder[loader[l].n + 1]
         c == loader[l].copy
     IN  loader' = [loader EXCEPT
           ![l].n = @ + 1,
           ![l].copy = [row |-> [k \in Keys |-> IF Table(k) = t THEN db[k] ELSE c.row[k]],
                        ver |-> [c.ver EXCEPT ![t] = commits]]]
  /\ UNCHANGED <<db, commits, stamp, snap, serving, passVer, early, overtaken, errors, restarts>>

\* s.snap.Store(snap), and Reload returns.
StoreSnapshot(l) ==
  /\ loader[l].pc = "reload" /\ loader[l].n = 4
  /\ snap' = loader[l].copy
  /\ serving' = TRUE
  /\ IF l = Watcher
     THEN /\ passVer' = loader[l].copy.ver["tenants"]
          /\ early' = {a \in AdminThreads : HasRead(a, "tenants")}
          /\ overtaken' = FALSE
     ELSE /\ early' = early \ {l}
          /\ overtaken' = (overtaken \/ l \in early)
          /\ UNCHANGED passVer
  /\ loader' = [loader EXCEPT ![l] = Idle]
  /\ UNCHANGED <<db, commits, stamp, errors, restarts>>

\* A SELECT or a Scan fails: Reload returns the error and keeps the snapshot.
\* WatchReload logs it, an admin handler ignores it, and OpenStore fails: the
\* supervisor starts the process, and its Reload, again.
ReloadError(l) ==
  /\ loader[l].pc = "reload" /\ loader[l].n < 4
  /\ errors < MaxErrors
  /\ errors' = errors + 1
  /\ loader' = [loader EXCEPT ![l] = IF serving THEN Idle ELSE [Idle EXCEPT !.pc = "reload"]]
  /\ early' = early \ {l}
  /\ UNCHANGED <<db, commits, stamp, snap, serving, passVer, overtaken, restarts>>

\* The resolver is stopped anywhere and started again: handlers and reloads
\* are gone, and OpenStore runs Reload before anything is served.
Restart ==
  /\ restarts < MaxRestarts
  /\ restarts' = restarts + 1
  /\ serving' = FALSE
  /\ loader' = [[l \in Loaders |-> Idle] EXCEPT ![Watcher].pc = "reload"]
  /\ early' = {}
  /\ UNCHANGED <<db, commits, stamp, snap, passVer, overtaken, errors>>

Reload(l) == ReadTable(l) \/ StoreSnapshot(l) \/ ReloadError(l)

Next ==
  \/ OtherProcessWrite
  \/ \E a \in AdminThreads : AdminHandler(a) \/ extendTenantActivate(a)
  \/ Tick
  \/ \E l \in Loaders : Reload(l)
  \/ Restart

Spec == Init /\ [][Next]_vars

\* The ticker keeps ticking and every Reload and handler runs to its end;
\* nobody has to write, to restart the resolver or to fail.
Fairness ==
  /\ WF_vars(Tick)
  /\ \A l \in Loaders : WF_vars(ReadTable(l) \/ StoreSnapshot(l))
  /\ \A a \in AdminThreads : WF_vars(extendTenantActivate(a))

FairSpec == Spec /\ Fairness

------------------------------------------------------------------------------
(* Properties.                                                             *)

\* The type invariant of the database, the snapshot and the reloads.
Copies == [row: [Keys -> Rows], ver: [Tables -> 0..commits]]
TypeOK ==
  /\ db \in [Keys -> Rows]
  /\ \A r \in Routes : db[TenantKey(r)] \in Tenant \cup {None}
  /\ commits \in 0..MaxCommits
  /\ stamp \in [Keys -> 0..commits]
  /\ snap \in Copies
  /\ serving \in BOOLEAN
  /\ loader \in [Loaders -> [pc: {"idle", "activate", "reload"}, n: 0..4,
                             target: Routes \cup {None}, copy: Copies]]
  /\ passVer \in 0..commits /\ early \subseteq AdminThreads /\ overtaken \in BOOLEAN
  /\ errors \in 0..MaxErrors /\ restarts \in 0..MaxRestarts

\* A copy c of table Table(k) taken after the last write of row k holds that
\* row as committed.
Current(c, k) == stamp[k] <= c.ver[Table(k)] => c.row[k] = db[k]

\* Whatever overlaps, fails or restarts, a row of the served snapshot is the
\* committed one unless the row was written after the snapshot's own read of
\* the table: Reload never publishes a half-read, merged or invented row.
SnapshotCurrent == \A k \in Keys : Current(snap, k)

\* No reload under way, and not the snapshot, holds a copy of the row's table
\* from before its last write.
Settled(k) ==
  /\ snap.ver[Table(k)] >= stamp[k]
  /\ \A l \in Loaders :
       HasRead(l, Table(k)) => loader[l].copy.ver[Table(k)] >= stamp[k]

\* Once a write (a revocation, say) is served and no reload that read before
\* it is still running, no step brings the old row back: it is served until
\* the row is written again, through restarts and failed reloads.
NoResurrection ==
  [][\A k \in Keys : Settled(k) /\ stamp'[k] = stamp[k]
                        => Settled(k)' /\ snap'.row[k] = db'[k]]_vars

\* How late a revocation may be: a row written before a tick began is served
\* once that tick's Reload is done, and on, whatever else is written, fails or
\* restarts, unless an admin handler's Reload that had begun to read before
\* the tick ended stores its older copy on top (store.go:234 swaps without
\* comparing).  The next tick puts that right.  README.md:322 states the bound
\* of one second without this exception.
WithinOneTick ==
  \A k \in Keys : serving /\ ~overtaken /\ stamp[k] <= passVer => snap.row[k] = db[k]

\* When the writes stop, the resolver ends up serving exactly the database.
Convergence == <>[](serving /\ snap.row = db)
==============================================================================
