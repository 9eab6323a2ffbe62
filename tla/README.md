# PrivateDNS: specifications and proofs

TLA+ models of PrivateDNS (Go, under `src/`), the TLC configurations that check
them, and theorems about them checked by TLAPS. PrivateDNS is a multi-tenant
encrypted DNS resolver with a REST backend, a customer portal and an operator
dashboard. The four programs are separate processes that share one SQLite file.
The resolver answers every query from memory, so most of what can go wrong is a
race between that memory, the database and the clock.

Contents: [system](#the-system), [hard behaviours](#what-is-hard),
[modules](#the-modules), [runs](#the-runs), [proofs](#the-proofs),
[disagreements](#where-the-code-and-its-comments-disagree),
[not modelled](#what-is-not-modelled), [plan](#what-is-left).

## The system

| Component | State | Operations | Interacts with | Correct when |
|---|---|---|---|---|
| Policy database (`resolver/store.go`) | tables `tenants`, `tenant_ips`, `allowlist`, `overrides`, `tenant_usage`; the snapshot behind an atomic pointer | write statements, `Reload`, `WatchReload`, lookups | written by all four processes, read by every query | nothing half-read, merged or invented is served; a write is served soon and for good |
| Resolver admin API (`resolver/admin.go`) | none of its own | write, then `Reload` | policy database | as above, with several handlers at once |
| Query pipeline (`resolver/resolve.go`) | metrics | `Resolve`: tenant, limiter, probe, allowlist, override, blocklist, cache, upstream | all of the resolver | answered only for an active tenant, by the rules in their order, counted once |
| Blocklist (`resolver/blocklist.go`) | a set behind an atomic pointer | `Load`, `WatchReload`, `Blocked` | pipeline | a lookup sees one set |
| Limiter (`resolver/ratelimit.go`) | a bucket per tenant | `Allow`, `AcquireConn`, release, sweeper | pipeline, listeners | no window grants more than its burst and refill; paced tenants are served; connections are counted |
| Usage collector (`resolver/usage.go`) | pending counters | `Record`, `Flush`, `StartFlusher` | pipeline, database, shutdown | nothing lost or counted twice while the process lives; the last flush is complete |
| Answer cache (`resolver/cache.go`) | entries | `Get`, `Put`, sweeper | pipeline, upstreams | a reply fits the question, is fresh and carries no private address; an idle cache empties |
| Probe recorder (`resolver/probe.go`, `portal/check.go`) | nonces | `Record`, `Lookup` | pipeline, portal | an arrival is reported to one poll, and only if it happened |
| Address binder (`resolver/bind.go`) | last sightings | `observe`, writes in goroutines | listeners, database | an address is bound only to a tenant seen or entered there, and returns to devices that go on asking |
| Migrations, readiness (`resolver/migrate.go`, `resolver/health.go`, `backend/migrations.go`) | `schema_migrations`, cached upstream check | `Migrate`, `/ready` | all processes | each migration is applied once; ready means usable |
| Certificates (`resolver/tls.go`) | the cached pair | `GetCertificate` | listeners | a half-written renewal never replaces a good pair |
| Listeners, life cycle (`resolver/listeners.go`, `resolver/server.go`) | listeners, stop channel | `Run`, `Shutdown` | everything in the resolver | every listener is closed, also one that starts late |
| EDNS, rebinding, domains (`resolver/edns.go`, `rebind.go`, `domain.go`) | none | pure functions | pipeline | private addresses are dropped; suffixes are whole labels |
| Authentication, roles (`backend/auth.go`, `handlers_auth.go`, `middleware.go`, `rbac.go`, `store.go`) | accounts, sessions, tokens, login failures | login, logout, password change, disable, purge | database | no session survives what revokes it; failures are throttled; an administrator is left |
| Tenant handlers (`backend/handlers_tenants.go`, `handlers_misc.go`, `customers.go`) | none | create, renew, rules, addresses | policy database, audit | nobody writes to another's tenant; a tenant expires when its renewals say |
| Audit log (`backend/audit.go`) | rows | `Record`, list | handlers | a change has its entry |
| Portal (`portal/`) | sessions in the database | login, register and release an address | database, probe | a customer touches its own tenants only |
| Dashboard (`admin/`) | sessions, the token stash | pages, forms | backend, database | a token is shown once, to its creator |
| Backup and updater (`resolver/backup.go`, `scripts/update.sh`) | files | back up, swap, verify, roll back | all | a failed update leaves a system that works |
| Installer, packaging, configuration, logging, translations, API document | files | sequential or formatting | operator | outside the models |

## What is hard

`PROJECT.json` lists each hazard at its line. In short:

- **Unsynchronised reads of a moving snapshot.** `Reload` reads four tables in
  four transactions; reloads overlap and finish in any order; every lookup of one
  query loads the pointer again.
- **A clock read outside the lock.** The limiter and the cache compare times that
  were taken before their mutex.
- **Write-behind counters.** A flush takes a batch, may fail in the middle, and
  merges back into counters that have grown; shutdown races it.
- **Check, then act.** Expired cache entries, login failures, probe nonces, the
  binder's sightings.
- **Several processes, one file.** Only the resolver refreshes its snapshot by a
  ticker; the other programs reload after their own writes and at no other time. All
  of them migrate the file when they start.
- **Handlers of several statements.** A tenant is created and then given its owner, a
  renewal sets the expiry and then the status, an account is disabled and then signed out:
  the second may fail, never run, or be overtaken.
- **Starting and stopping at once.** A listener registers while `Shutdown` runs.
- **Liveness.** A write must be served, a count stored and an idle entry dropped
  although operations fail on the way.

## The modules

Every module has one action per step of the code that other goroutines or
processes can see (an atomic load or store, a critical section, one SQL statement
or commit). History variables, named as such in the modules, date things for the
properties; no guard of the code's own steps reads them, apart from bounds.
Constants called `Max...` are bounds of the model (`MaxConns` and the two
lifetimes `MaxTTL` and `IdleTTL` are settings of the code).
Operators with an underscore (`Refill_Lost`) are mutants: the plausible
mistakes the properties are known to catch.

### PolicyStore

The four policy tables, all their writers, `Reload` and its callers.

- A row of any table is a key `<<table, id>>` of one function `db`; the snapshot
  is a copy of that function with the commit count at which each table was read.
- `ReadTable` is one SELECT (one statement sees one committed state),
  `StoreSnapshot` the pointer swap, `ReloadError` any failing SELECT or Scan,
  `Restart` a stop anywhere followed by `OpenStore`.
- Every handler of the resolver's admin API is an action: its write, then the
  `Reload` steps. `extendTenant` has two commits. The writes of the other three
  processes and of the address binder are `OtherProcessWrite`.
- A commit is atomic because SQLite makes it so, and two handlers' statements
  interleave because no handler holds a lock.

### RateLimiter

Token buckets and connection counters, with `time.Now` and the critical section
as separate steps.

- One tick of the model refills one unit and a query costs `Cost` units, so that
  the floating-point refill of the code becomes exact integer arithmetic.
  Rounding of `float64` is not modelled.
- `gen` tells bucket objects apart: a release function holds the bucket it was
  made for, which the sweeper may have evicted.
- `MaxStall` bounds how long a goroutine waits between reading the clock and
  taking the mutex. It is an assumption on the scheduler and part of what is
  proved: the bounds are in terms of it.
- `winStart` is chosen once and never changes, so the window bound is checked for
  an arbitrary window.

### Usage

`Record`, the flush and the process around it. `TakeBatch` is the swap under the
lock, `ExecRow` and `Commit` the transaction, `WriteFails` any error of it,
`Restore` the merge back. `UsageLedger` is the abstract specification: accounts that
grow, and a database that steps from the accounts of one moment to those of a later one.
`Usage` implements it (`KeepsLedger`); the refinement maps `total` to what has been recorded,
`stored` to the table and `cut` to table and batch together. `CloseStop`, `Exit`, `Crash` and `Start` are the life of
the process as `Server.Run` orders it: stop is closed, listeners are closed
without waiting for their connections, and two seconds later the process ends.

### Resolve

The pipeline of one query as a program counter, one step per lookup of shared
state, with `SwapSnapshot` and `SwapLists` between any two. `seen` and `lists` are
history: the snapshots and lists that were served while the query ran, the snapshots in their order. The limiter's verdict and the
upstream's answer are free here; `RateLimiter` and `AnswerCache` say what they are.
Which snapshots exist is a constant of the module (`PolicyStore` says how they come
about), so the theorems hold for every family of snapshots.

### AnswerCache

`Get`, `Put`, the sweeper and the code of `Resolve` that calls them. There is no
absolute clock: an entry carries its age, and a tick ages every copy of it, in the
map or in a goroutine's hands. That keeps the state space finite without a bound on
time, so liveness is checked on all of it. An entry exactly as old as its life may
be found fresh or expired, since whole seconds do not tell. The rebinding filter
runs between the fetch and `Put`. The 64 shards are one map here; the only
operation that spans shards, the sweep, takes one key at a time.

### Auth

Accounts, sessions and login attempts, three tables used by the backend, the portal and the
dashboard alike. One action is one SQL statement of a handler with the decisions that follow.

- A sign-in is `CheckEmail`, `CheckIP` (the two counts), `VerifyPassword` (one read of the
  account and the hash), then `RecordFailure` or `CreateSession`. A request with a session is
  `FindSession`, `FindAccount`, and then what it was sent for: `CheckCurrent`, `SetPassword`, `Evict`;
  `CreateUser`; `Enable`; `Disable`, `Evict`. `Logout` is one DELETE.
- `Abort` is any failing statement or a crash of the process, at any place.
- The e-mail is what was typed: `Spellings` are the throttle's keys (lower-cased, not trimmed), `AccountOf` is the trimmed
  address the account is looked up by. Several spellings may mean one account.
- Passwords are not values: a password is right or not. Marks on sessions and sign-ins (history)
  say which of them a later change of password or status should have ended.
- The three programs differ in whom they admit (`Admits`); their handlers are otherwise the same.
- The CSRF check and the rate limit of the HTTP API are not in the module; API tokens are in `Tokens`.

### TenantAdmin

The handlers of the four programs that write tenants, customers' ownership, rules and address bindings. A request is
checked and begun in one step (`Begin`: nothing is written before), and its `pc` then names the next
statement; `Following` is the order of the statements in the source. Each statement is a commit of its own
and may fail (`StatementFails`), or its program may die (`Crash`).

- Every program has its own `snap`; a renewal reads it (`ReadBase`), adds, and writes.
- Who may do what is `CanAccessCustomer` and `CanAccessTenant`, read at the check and not again.
- Dates are days of an integer clock. A plan is its duration. Labels, contact data and prices are left out.
- The backend, the portal and the resolver's API each register and release addresses. The check is of the tenant in the path;
  `WriteBinding` then replaces or deletes the row of the address, whosever it was.
- The resolver's API asks less of a date than the others: `Dates` and `Adjustments` are its explicit `expires_at` and its
  number of days, zero and negative ones included. The other programs grant `Durations`.
- `paid`, `missed` and `raced` are history: the expiry with every renewal added in full (an explicit date is taken as it is);
  the tenants whose expiry was set elsewhere, or was not reloaded, since a program's last load; and the tenants renewed where that
  was so, or by two requests at once. A program's own commit followed by its reload is neither.

### Tokens

Authentication by session or API token as the two reads it is (row, then owner), and what a request
does later on what it read: issue, list, revoke, disable, enable. The dashboard puts a new token's value
into its memory under the session (`put`) and the listing takes it out (`take`). `live` is history: whether
the account was active at some moment of the request.

### Identity: ClientBinding and Probe

How a query is attributed. `ClientBinding` has the binder's marks, its write goroutines (a count for each pair,
so they land in any order), the table, the snapshot and the bindings made by hand. `Probe` has the recorder, the page
and the portal's request, which may be given up before or after `Lookup` and may still arrive later. `Identity` composes them:
a query is a step of both, and a probe over plain DNS is counted as the tenant the address is bound to.
Time is relative: an entry holds its age, up to the first one at which the code treats it as old.

### ServerLife: Migrations and Listeners

`Migrations` is `OpenStore` by several processes with different knowledge of the schema: one read of the recorded
versions, then a transaction for each of the rest, refused by the primary key when another was faster.
`Listeners` is `Run`, the four listeners at each stage of starting, `track` and `Shutdown`; `dns.Server` and `http.Server`
differ in whether a shutdown before listening is remembered. `ServerLife` composes them: the resolver's listeners
start when its store is open, and a supervisor starts what has ended.

### How the modules fit together

| In | stands for what is detailed in |
|---|---|
| `Resolve.SwapSnapshot` | `PolicyStore.StoreSnapshot` |
| `Resolve.Throttle`, `Resolve.Admit` | `RateLimiter.Allow` |
| `Resolve.AnswerUpstream` | `AnswerCache.Look` to `AnswerCache.Put` |
| `Resolve.Recorded` | `Usage.Record` |

Each stand-in allows at least what the detailed module does, so what holds of
`Resolve` holds of the composition. `TenantAdmin.Reload`, `ClientBinding.Reload` and `Resolve.SwapSnapshot` are one
step where `PolicyStore` reads table by table. `Identity` and `ServerLife` are compositions whose components share steps;
`Usage` is an implementation of `UsageLedger` by `INSTANCE ... WITH`.

## The runs

Each run is one question; its bounds are in its `.cfg`, and every passing one ends with
the whole state space explored.

| Run | Checks | Shows |
|---|---|---|
| `PolicyStore` | `SnapshotCurrent`, `WithinOneTick`, `NoResurrection`, `Convergence` | whatever reloads overlap, fail or are cut off by a restart, each served row is the committed one or was written after the snapshot read its table; what was written before a tick is served at its end, unless an older reload it overlapped stored on top; a write once served, with no older reload running, stays served; when the writes stop, the database is what is served |
| `RateLimiter` | `TypeOK`, `WindowBound`, `PacedNeverRefused`, `ConnCap`, `ConnsCounted` | the limit holds in every window, never hits a tenant that keeps to the rate, and connections are counted exactly, across evictions |
| `Usage` | `TypeOK`, `Conserved`, `FinalFlushComplete`, `EventuallyStored`, `KeepsLedger` | database, batch and counters add up to what was recorded; the last flush stores all from before the stop; every count is stored in the end; the ledger is implemented |
| `Resolve` | `CountedOnce`, `AnsweredOnlyIfActive`, `AnswersAsDecided` | with a swap anywhere inside two queries, each is counted once, answered only for an active tenant, and by checks in the code's order, each of a snapshot served meanwhile and none older than the one before |
| `AnswerCache` | `AnswerFitsQuestion`, `ServedFresh`, `NoPrivateServed`, `IdleCacheEmpties` | replies fit, are fresh and filtered, whoever raced for the entry; the cache empties when queries stop |
| `Auth` | `TypeOK`, `EvictionComplete`, `DisabledSignedOut`, `SignInsLimited`, `SessionsEndForAReason`, `ExpiredLeave`, `LockoutEnds` | a change of password or status leaves no session it could have removed; the limit on failures of an e-mail as typed, and of an address, is exceeded by less than the number of requests; live sessions end for a reason and expired ones go; no lockout lasts |
| `TenantAdmin` | `PaidTimeKept`, `AuditTruthful`, `Isolation` | half-way failures and interleavings of the four programs never let anyone write the row, owner or rules of a tenant that is not theirs at that moment, or bind an address to it, record what did not happen, or leave an expiry that is not what the renewals say, but for those computed from what another program or an overlapping request had replaced |
| `TenantRenewal` | `RenewalNeverShortens` | violated: two renewals at two programs |
| `Identity` | `BoundForAReason`, `ToldOncePerArrival`, `ReboundEventually` | an address is bound and served only for a tenant seen there or entered by hand; an arrival of a probe is reported truly and at most once; an address whose devices keep asking is theirs in the end |
| `Tokens` | `ShownOnce`, `AdmittedWasLive`, `LockoutNeedsRace` | a token is shown once, to its maker, in time; nobody acts for an account disabled before the request; the last administrator goes only by a race |
| `ServerLife` | `MigratedOnceInOrder`, `TLSListenersClosed`, `AllComeUp` | concurrent starts run each migration once and in order and all come up; no TLS listener survives `Shutdown` |
| `ServerReady` | `ReadyWhenServing` | violated: readiness after another program's migrations |

Why the bounds are enough to reach the interesting cases:

- `PolicyStore`: two reloaders, the ticker and a handler, suffice for one
  to overtake the other; one commit, by any of the writers to any of the tables, gives an old and a new state for
  an older reload to bring back; one failure and one restart hit any point of either. One row of
  each table: rows do not interact except through the order in which tables are read. The theorems have no such limits.
- `RateLimiter`: a burst of 3 units and a cost of 2 leave a remainder and let the
  bucket both saturate and run dry; `IdleTTL = 5` is the least value `SweepSafe`
  accepts for a stall of 1, and six ticks let a bucket be drained, evicted and made
  again; a limit of one connection and two connections race for the last slot.
- `Usage`: two tenants make a transaction of two rows that can fail between them;
  two errors let a retry fail again; one restart separates two lives.
- `Resolve`: one swap, of the snapshot or of the lists, lands between any two lookups, which is all it takes
  to mix two snapshots; the initial ones combine a tenant row (absent, active,
  paused, about to expire, suspended), an address mapping, and rules and lists on a name and its parent
  (`MCResolve` picks them). The theorem `PolicyDecides` has no such limit.
- `AnswerCache`: lifetimes 1, 2 and 2 for 5 s, 30 s and 6 h; TTLs of 0, 2 and 5
  are below the floor, between and above the cap; two clients race, one can hold an
  entry while the other replaces or deletes it.
- `Auth`: an administrator and a customer, whose e-mail is typed in two ways, and two requests are the least for one to change
  what the other is in the middle of; one session row, which the accounts hold in turn; one failure allowed and `IPFactor` 2 for
  the code's 10 and 3 let both limits refuse, each where the other does not; attempts and sessions live one tick, so that both can
  expire between any two statements. The theorems have no such limits.
- `TenantAdmin`: one tenant, one customer, two resellers and an administrator; two requests meet between any two
  statements at the same or at different programs; one fault, which is a failing statement or a dead program; a plan of two days, and days of -1, 0 and 1 or
  the date 1 at the resolver's API, so that two renewals, their order and an expiry set back all show; one address, bound or free; a customer that exists, with either owner, or that does not.
- `Tokens`: two administrators, who may disable each other, and an operator of fewer scopes; two tokens, so that the second
  may replace the first in the stash; a clock of three ticks against a stash of one; four requests, two at a time.
- `Identity`: two tenants, one of which lives at the address; a window of two ticks, so that a mark is fresh, about to age
  and old; one visit, one move by hand and one failure, in any order; two polls of one nonce, recorded by either tenant. One entry is above
  `SeenLimit` or `ProbeLimit`, so that the sweeps run.
- `ServerLife`: a shorter history of migrations (two of the resolver's, one more of the backend's) has every case: known to both,
  known to one, pending in both. One fault, besides conflicts, which the model does not bound.

CHECK_DEADLOCK is off wherever a bound ends the behaviour (queries asked once,
the last second of the clock, requests used up); `AnswerCache` and `Auth` run for ever and have it on.

### Fairness

- `PolicyStore`: the ticker goroutine loops for ever, and a reload or a handler that has
  begun runs on (`WF` on `Tick`, on each reload's steps and on
  `extendTenantActivate`). No fairness for writes, errors or restarts. Errors are
  finite through `MaxErrors`: with a database that fails for ever nothing converges.
- `Usage`: the flusher's ticker fires and its transaction goes on. The property
  is conditional on the process running; a stop, a crash or an error is never forced.
- `AnswerCache`: time passes and the sweeper's ticker fires. Clients have no fairness.
- `Auth`: time passes, and one of the three purge tickers fires and its DELETE succeeds.
  Requests have no fairness: a sign-in may be stuck for ever before it records its failure.
- `Identity`: time passes, the resolver's ticker reloads, each write goroutine runs, and the devices that live at an
  address go on asking: the property is about such an address only. Failures and moves are never forced.
- `ServerLife`: supervisors start what has ended (`Restart=` in the service units) and what has been started goes on; a failed listener is noticed.
  Nobody is forced to stop or to fail.

The Go scheduler runs every runnable goroutine eventually and tickers fire, which
is all these conditions ask.

## The proofs

| Theorem | Module | Says, for every value of the constants |
|---|---|---|
| `TypeCorrect` | those of `PolicyStore`, `Resolve`, `Auth`, `RateLimiter`, `Usage` | the type invariant |
| `SnapshotIsCurrent` | `PolicyStore_proofs` | `SnapshotCurrent` |
| `RowsNeverResurrect` | `PolicyStore_proofs` | `NoResurrection`, an action property |
| `TickerBoundsStaleness` | `PolicyStore_proofs` | `WithinOneTick`, with any number of admin handlers reloading |
| `SustainedRate` | `RateLimiter_proofs` | `WindowBound`, if `SweepSafe` |
| `PacedTenantsServed` | `RateLimiter_proofs` | `PacedNeverRefused` |
| `ConnectionsCapped`, `ConnectionsCounted` | `RateLimiter_proofs` | `ConnCap`, `ConnsCounted` |
| `CountsConserved` | `Usage_proofs` | `Conserved` |
| `LastFlushIsComplete` | `Usage_proofs` | `FinalFlushComplete` |
| `LedgerImplemented` | `Usage_proofs` | `KeepsLedger`: every behaviour of `Usage` is one of `UsageLedger` |
| `OnlyActiveTenantsServed` | `Resolve_proofs` | `AnsweredOnlyIfActive` |
| `PolicyDecides` | `Resolve_proofs` | `AnswersAsDecided` |
| `EveryQueryCounted` | `Resolve_proofs` | `CountedOnce` |
| `OwnAnswers`, `TTLsHonest`, `NoRebinding` | `Resolve_proofs` | `AnswerFitsQuestion`, `ServedFresh`, `NoPrivateServed` of `AnswerCache` |
| `EvictionReachesAll` | `Auth_proofs` | `EvictionComplete` |
| `DisabledIsSignedOut` | `Auth_proofs` | `DisabledSignedOut` |
| `LimitHolds` | `Auth_proofs` | `SignInsLimited` |
| `SessionsEnd` | `Auth_proofs` | `SessionsEndForAReason`, an action property |
| `TenantsIsolated` | `TenantAdmin_proofs` | `Isolation`, an action property |
| `AuditIsTruthful` | `TenantAdmin_proofs` | `AuditTruthful` |
| `RenewalsAddUp` | `TenantAdmin_proofs` | `PaidTimeKept` |
| `ValueShownOnce` | `Tokens_proofs` | `ShownOnce` |
| `ActorsWereActive` | `Tokens_proofs` | `AdmittedWasLive` |
| `AdministratorsRemain` | `Tokens_proofs` | `LockoutNeedsRace` |
| `MigrationsRunOnce` | `ServerLife_proofs` | `MigratedOnceInOrder` |
| `ShutdownCloses` | `ServerLife_proofs` | `TLSListenersClosed` |
| `BindingsHaveReasons`, `VerdictsSound` | `ServerLife_proofs` | `BoundForAReason`, `ToldOncePerArrival` of `Identity` |

Every invariant a run checks is a theorem. The specifications of `AnswerCache` and `Identity` are called `CacheSpec` and
`IdentitySpec`, because their proofs are in one module with those of `Resolve` and of `ServerLife`.

Assumptions: those named `...Assumption` in the modules, which TLC evaluates in the
runs. They ask for types, for `None` or `Nothing` to be no value of the data (`NoSession` says it of sessions), and for what
`Config.Validate` enforces (a burst of at least one query). Sets that something is counted or summed over are finite: the queries of
`Resolve`, the requests, e-mail addresses and source addresses of `Auth`, the records of a message in `AnswerCache`. There
is no bound on how many. `SweepSafe` is an explicit
hypothesis of `SustainedRate` only. `KnownFromTheFirst` is what makes migrations run in order: every
program is linked with the resolver's migrations and numbers its own from 100. `TokensAssumption` wants
an administrator to begin with. `CacheAssumption` wants a type's name not to be empty, which `cacheKey` relies on, and its
lifetimes in order; `IdentityAssumption` that whoever queries may send a probe.

Along which arguments:

- **PolicyStore.** `SnapshotCurrent` is not inductive: the next snapshot is the copy a
  reload is filling. `IInv` dates every copy, in the pointer or under way: a copy that
  read a table at or after a row's last commit holds the row as committed. A commit keeps
  that because it gets a date after every existing copy; a SELECT keeps it because it
  copies the committed rows. `RowsNeverResurrect` follows, since a swap can bring back an
  old row only from a copy older than the row's commit, which `Settled` excludes.
  `TickerBoundsStaleness` (`TickInv`) adds that the ticker reads the tenants first, so
  that the date of that SELECT bounds its whole copy from below, and that a goroutine which began to read after the tick's
  end holds nothing older; only a copy begun before may be, and storing that one is `overtaken`.
- **RateLimiter.** `TimeInv` bounds how far the bucket's times run apart through the
  clock read outside the lock. `WindowBound` rests on an account per tenant: units spent in
  the window plus units in the bucket never exceed the burst plus the time since
  the window began, whether the window is before, inside or after the last refill; an
  eviction keeps the account only if the bucket would be full again, which is
  `SweepSafe`. `PacedNeverRefused` rests on a lower bound of the tokens from the
  time of the last grant, which evictions only improve. `ConnCap` rests on
  `ConnsCounted` and on a connection's bucket being the one in the map as long as it
  is open, since the sweeper skips buckets with connections; `ConnsCounted` is part of that invariant.
- **Usage.** `Conserved` is inductive with `Dated` (no sighting is newer than the
  clock): counts are a sum and `lastSeen` a maximum, both kept by swapping, merging back
  and committing. `LastFlush` adds what the flush asked by stop is holding. `LedgerImplemented` maps each action to one of
  the ledger or to none; the step that needs an invariant is the taking of a batch, where `Conserved` says that table and
  batch together are all that has been recorded.
- **Resolve.** The properties speak of finished queries; `IInv` says for each place of the
  pipeline what the steps behind it have established of the snapshots seen so far: three places in their sequence,
  in order, for the tenant, the allowlist and the overrides, which stay witnesses when a reload appends another. The
  lemmas `AllowedListed`, `BlockedAbove`, `NoOverrideRule` and `OverrideIsRight` relate the
  code's loops over suffixes to the sets the properties use. For `CountedOnce`, `Counts` equates every counter with the
  number of queries at the places it counts. Every action is then one fact, `CountsStep`: it brings its own query to such a place or
  leaves it, and moves no other, so each counter moves with its set (`OneJoins`).
- **AnswerCache.** `CacheInv` says of an entry, in the table or in a query's hands, that it is stored under the key of the question
  it answers, was filtered for that question's name, and lives as long as `Life` gives it. A copy taken before a
  replacement is still one, so it does not matter who overtakes whom. That one key means one name and type is `KeyTellsName`
  and `KeyTellsType`; that the minimum of a nonempty set of TTLs exists comes from the well-foundedness of the naturals.
- **Auth.** `EvictionComplete` is inductive: every step that makes a session stale leaves its request in
  front of the DELETE for that account, and only the DELETE, or its failure, moves the request on.
  `DisabledSignedOut` needs `VerifiedIsActive`, what is known of a sign-in between its check and its INSERT.
  `SignInsLimited` needs `LimitInv`: the failures recorded of a spelling or an address, plus the sign-ins that have passed the limit and may still record one,
  stay below the limit plus the number of requests. A request that passes found the limit unmet; a record moves one from the second
  term to the first. What `RecentFailures` returns is a sum over a part of the table, of which `SumOneMore` and `SumAging` are
  proved from the definition of the fold. `SessionsEnd` looks at each action that removes a row.
- **TenantAdmin.** `Isolation` is about the moment of a write, long after its check. What was checked stays true because
  a tenant's customer and a customer's owner are given once (`Frame`), and because no two requests create one tenant or one
  customer (`Alone`): between INSERT and attachment the tenant belongs to nobody, so that only administrators may begin anything
  on it. `AuditTruthful` adds that an entry is written by a request whose change was committed, and that an attached tenant
  is not attached again. `PaidTimeKept` needs that a tenant no program has
  missed is in that program's snapshot with the expiry that is committed (`SnapshotsTrue`), and that a base read from such a
  snapshot still is the expiry when it is written, unless somebody overlapped (`BasesTrue`).
- **Tokens.** A value is in one place at most (`InOnePlace`): with the request about to stash it, in one cell, or shown.
  `AdmittedWasLive` needs what a request between its two reads knows; `LockoutNeedsRace` is inductive.
- **ServerLife.** `MigratedOnceInOrder` needs that what a process has read as recorded still is. `TLSListenersClosed` needs
  that a listener which is open, or about to be, is among the closers before `Shutdown`, and afterwards among those
  still to be run or a server that remembers being shut down.
- **Identity.** `BindInv`: every pair in the table, in the snapshot or with a goroutine that is to write it, has been credited, and credit
  is never withdrawn. `ProbeInv` relates the recorder's entry for a nonce to the last arrival: they agree in route and age until
  it is read, replaced or too old, and what a page has been told was true of the arrival at that time. The composition's steps are
  steps of both (`IdentityStepKeeps`).

Some of these need induction. Where the library's theorems want an operator, the proofs use sets: a set of naturals that is
closed under successor, or of subsets of a finite set that has each set whose one-smaller subsets it has, is everything (`Induction` and
`SubsetInduction` in `Auth_proofs`, `LeastExists` in `Resolve_proofs`). They rest on the library's well-foundedness of the naturals.

Model-checked only: the liveness properties (`Convergence`, `EventuallyStored`,
`IdleCacheEmpties`, `ExpiredLeave`, `LockoutEnds`, `ReboundEventually`, `AllComeUp`), because the prover does not handle fairness and
ENABLED. No recursive operators are used.

## Where the code and its comments disagree

Two have a run that TLC finds violated.

1. **Renewing early** (`handlers_tenants.go:196-197`: "renewing early does not cost the customer the remaining time"). The base
   of a renewal is the expiry in the program's own snapshot. Only the resolver refreshes its snapshot: a renewal at the
   dashboard is not seen by the backend, and one made there next starts from the older expiry and sets the later one back
   (`TenantRenewal`). `PaidTimeKept` is what does hold, and when it does.
2. **Readiness** (`health.go:77-78`: "reports whether the resolver can actually serve traffic"). `checkSchema` wants the highest recorded
   version to be the resolver's own last one. The resolver's binary knows 1 to 3, the shared file has 100 to 103 as soon as
   another program has started, and `/ready` answers 503 from then on (`ServerReady`).

Observations without a run of their own, each visible in the module named:

- Revocation within one second (`README.md:322`): a reload an admin handler began before a revocation may finish after the
  ticker's newer one, and the revoked tenant is served until the next tick (`PolicyStore.StoreSnapshot`). The bound
  holds but for that: `WithinOneTick`.
- Counters of the last interval (`server.go:191`, `usage.go:96`): the last flush starts before the listeners are closed, and open
  connections are not waited for; what they ask after the batch is taken is counted and never written (`Usage`).
  `FinalFlushComplete` is what does hold.
- "Allowlist beats both blocklist and override" (`store.go:264`): the two lookups load the snapshot separately; one reload between them
  combines the old allowlist with the new override, and a name that reload added to both is overridden (`Resolve`; also against
  `resolve.go:166`). `AnswersAsDecided` is what holds: never an older snapshot after a newer one.
- Unasked DNSSEC records (`edns.go:33`): the cache key leaves the DO bit out, so an answer fetched with signatures is served to a client
  that did not ask for them, and the other way round (`AnswerCache`).
- "the binding does not change between them" (`bind.go:23`): another tenant's query from the address, or a release, does change it, and
  the first tenant's queries do not write it back for five minutes (`ClientBinding`). `ReboundEventually` is what holds.
- "Every tenant route goes through here" (`handlers_tenants.go:18`): for an address the check is of the tenant named, and
  `RegisterIP` (`store.go:323`) takes the address over from any tenant, `ReleaseIP` (`store.go:331`) deletes any tenant's binding
  (`TenantAdmin.WriteBinding`, `ClientBinding.ReleaseIP`). `Isolation` says what is left: an address is only given to a tenant
  of the caller's, and rows, customers and rules are touched by nobody else.
- Throttling "against a single account" (`store.go:367-371`, `handlers_auth.go:22`): the account is looked up trimmed
  (`store.go:86`), its failures are counted and recorded as typed but for case (`store.go:362`, `store.go:375`), so each way to type an
  e-mail has a limit of its own (`Auth.Spellings`). `SignInsLimited` is stated per spelling and per address.
- The resolver's API takes an explicit date and days of zero or less (`admin.go:247-253`): such a request sets an expiry
  back, and what was paid counts from there (`TenantAdmin.extendTenant`, `PaidTimeKept`).
- The plain listener told to shut down before it listens goes on, and so does the admin API whose server is not set yet, until the
  process exits two seconds later (`Listeners`; `listeners.go:55-58` speaks of every listener).
- "The nonce is one-use" (`check.go:23-24`, `probe.go:105-106`): reading consumes the entry, not the nonce. A lookup
  that arrives after it (AAAA after A, a retransmission, another device) is recorded and told again, and a lost answer has consumed
  its arrival (`Probe`). `ToldOncePerArrival` is what holds.
- Two tokens created before one listing: the value of the first is never shown (`Tokens.put`).
- "The error is surfaced through the logger instead" (`audit.go:58-59`): `Record` discards it (`TenantAdmin.StatementFails`).
- A renewal is answered, and recorded, although setting the status failed (`admin.go:258`, ignored likewise by the backend and the
  dashboard): the tenant stays suspended (`TenantAdmin.StatementFails`).
- The resolver's API writes no audit entry, attaches no customer and has no limit of 240 minutes on a pause (`TenantAdmin`).
- The portal's status page reads a snapshot nothing refreshes (`TenantAdmin.snap`).
- The cached upstream check is three atomics; a report may pair one check's verdict with another's note (`health.go:193`).
- "Tenant-specific rules beat global ones" (`store.go:277`) holds for one and the same suffix. The suffix decides
  first: a global rule for the full name beats the tenant's for its parent. `AnswersAsDecided` states the code's order.
- "you cannot disable your own account" (`handlers_misc.go:83`) keeps an administrator from disabling itself. Two
  that disable each other at the same time both succeed, and none is left.
- A sign-in that verified the password before a change inserts its session after the eviction and keeps it (the mark
  "late" of `Auth`), although `handlers_auth.go:184` speaks of every other session.
- `SweepSafe` is not guaranteed: `config.go:195` puts no lower bound on the rate, so with a burst
  that takes longer than ten minutes to refill, the sweeper hands a drained tenant a full bucket.
- "so downstream caches do not extend its life" (`cache.go:78`) holds up to a floor: a record
  with a TTL under five seconds is handed out for up to five, and one counted down to nothing is
  handed out with a TTL of 1. `ServedFresh` states the exact allowance.
- `adjustTTL` is also applied to the additional section (`cache.go:83`), where the TTL field of an OPT
  record holds flags. The additional section is not modelled.
- Types without a name share one cache key per name and class (`cache.go:45`), so an answer for one may be
  served for another. `AnswerFitsQuestion` states what holds.
- `Get` deletes whatever is under the key of the expired entry it saw, which may be a newer one: an upstream
  query more and nothing else (`Expire`).

## What is not modelled

- Wire formats, TLS, HTTP routing, HTML and translations: no state of interest.
- Password hashing and token generation: unguessable values are model values.
- SQLite itself: a statement is atomic and a transaction commits or not.
- The installer and packaging scripts: sequential, run by an operator.
- The upstream exchange (`forward`): a reply or a failure, whichever server it came from.
- The Go memory model beyond atomics and mutexes, but for the one unsynchronised variable found: the admin server's
  (`Listeners.ShutdownAdmin` lets the reader see either value).
- In PolicyStore, label and creation-time columns, the block-ads flag and listing endpoints: no property
  reads them. Queries see the flag in Resolve.
- Contact data of customers, plans' names and prices, notes: columns no operation decides on.
- Certificate reload (`tls.go`): the renewal happens outside the repository, and a failed load changes nothing.
- Loading and parsing of blocklists: text handling and HTTP; a failed load swaps nothing in.
- The framing of DNS messages on streams and in HTTP, SNI and option parsing: text handling without state.
- `update.sh`, the backup it takes and the other scripts: sequential, over files and service units.
- The other checks of `/ready`: they read what the operating system or an upstream says.

## What is left

An abstract specification of the served policy, a view that moves only
forward in each table, is what `PolicyStore` with the ticker alone implements; it is not written yet. The scripts and the
blocklist loader could be modelled with their files as state.

## Running

    tlc -workers 2 -config AnswerCache.cfg MCAnswerCache.tla
    tlapm PolicyStore_proofs.tla

Every `.cfg` belongs to the module `MC` plus the component's name; `TenantRenewal.cfg` belongs to `MCTenantAdmin`,
`ServerReady.cfg` to `MCServerLife`.
