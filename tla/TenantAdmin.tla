----------------------------- MODULE TenantAdmin -----------------------------
(* The four programs that administer tenants in one database: the          *)
(* resolver's own API (resolver/admin.go), the backend API                 *)
(* (backend/handlers_tenants.go, handlers_misc.go), the operator dashboard *)
(* (admin/handlers_ops.go) and the customer portal (portal/handlers.go).   *)
(*                                                                         *)
(* A handler checks who may do what, then runs several statements, each    *)
(* its own commit: a tenant is created in one and given its customer in    *)
(* another, a renewal writes the expiry and then the status, the program's *)
(* own snapshot is reloaded, the audit entry comes last.  Every statement  *)
(* here is a step, so requests interleave, fail half-way and die with      *)
(* their program between any two.  A request's "pc" names the statement it *)
(* runs next.  A renewal starts from the expiry in the program's own       *)
(* snapshot, and only the resolver's is reloaded by a ticker.              *)
(* Reload is one step here: PolicyStore takes it apart.  A customer's      *)
(* login stands for the customer it is linked to (migration 103).  What    *)
(* binds an address besides these doors, a query, is in ClientBinding.     *)
EXTENDS Integers, FiniteSets

CONSTANTS
  Routes, Customers, Resellers, Admins,
  Resolver, Backend, Dashboard, Portal,   \* the programs
  Requests,                               \* concurrent requests
  IPs,
  Durations,                              \* what plans and day counts grant
  Adjustments, Dates,                     \* days, expires_at: the resolver's API
  PauseCap,                               \* 240 minutes; the portal grants less
  Global,                                 \* the scope "*"
  None,
  MaxClock, MaxRequests, MaxFaults

Programs   == {Resolver, Backend, Dashboard, Portal}
Operators  == Admins \cup Resellers
Principals == Operators \cup Customers
Scopes     == Routes \cup {Global}
RuleKinds  == {"allow", "override"}
Rows       == [expires: Int, active: BOOLEAN, paused: Int]
ExpiryOps  == {"create", "base", "date"}   \* what changes an expiry

ASSUME TenantAdminAssumption ==
  /\ Durations \subseteq Nat \ {0} /\ Adjustments \cup Dates \subseteq Int
  /\ PauseCap \in Nat \ {0}
  /\ {MaxClock, MaxRequests, MaxFaults} \subseteq Nat
  /\ None \notin Routes \cup Principals \cup Scopes \cup Rows
  /\ Global \notin Routes
  /\ Admins \cap Resellers = {} /\ Customers \cap Operators = {}

VARIABLES
  tenant,    \* tenants: None or [expires, active, paused]
  attached,  \* customer_tenants: a tenant's customer
  owner,     \* customers.owner_id; None when there is no such customer
  rules,     \* allowlist and overrides: <<kind, scope>>
  log,       \* audit_log
  binding,   \* tenant_ips: an address's tenant; no foreign key
  snap,      \* each program's snapshot of the tenants
  req,       \* the requests in flight
  clock,
  started, faults,
  applied,   \* history: every change that was committed
  paid,      \* history: the expiry with every renewal added in full
  missed,    \* history: expiries set elsewhere, or not reloaded, since a program's last load
  raced      \* history: tenants renewed where that was missed, or twice at once

db    == <<tenant, attached, owner, rules, binding, log>>
money == <<paid, missed, raced>>
hist  == <<applied, money>>
bound == <<started, faults>>
vars  == <<db, snap, req, clock, bound, hist>>

NoReq == [pc |-> "idle", srv |-> None, by |-> None, op |-> "idle",
          route |-> None, to |-> None, amount |-> 0, base |-> 0, at |-> 0]
Entry(q) == [op |-> req[q].op, route |-> req[q].route, to |-> req[q].to]

\* Some tenants have been issued, to customers there are.
Init ==
  /\ owner \in [Customers -> Resellers \cup {None}]
  /\ attached \in [Routes -> {c \in Customers : owner[c] # None} \cup {None}]
  /\ tenant = [r \in Routes |-> IF attached[r] = None THEN None
                               ELSE [expires |-> 1, active |-> TRUE, paused |-> 0]]
  /\ binding \in [IPs -> {r \in Routes : tenant[r] # None} \cup {None}]
  /\ rules = {} /\ log = {}
  /\ snap = [s \in Programs |-> tenant]
  /\ req = [q \in Requests |-> NoReq]
  /\ clock = 0
  /\ started = 0 /\ faults = 0
  /\ applied = {} /\ raced = {} /\ missed = [s \in Programs |-> {}]
  /\ paid = [r \in Routes |-> IF tenant[r] = None THEN 0 ELSE tenant[r].expires]

------------------------------------------------------------------------------
(* Who may do what.                                                        *)

CanAccessCustomer(p, c) ==
  \/ p \in Admins
  \/ p \in Customers /\ p = c
  \/ p \in Resellers /\ owner[c] = p

\* Mutant: a tenant nobody owns yet is everybody's.
CanAccessTenant_Unowned(p, r) ==
  IF attached[r] = None THEN TRUE ELSE CanAccessCustomer(p, attached[r])

\* A tenant without a customer is for administrators only.
CanAccessTenant(p, r) ==
  \/ p \in Admins
  \/ attached[r] # None /\ CanAccessCustomer(p, attached[r])

\* The request of principal p has passed its checks; "op" is the first
\* statement it will run.
Begin(q, srv, p, op, route, to, amount) ==
  /\ req[q].pc = "idle" /\ started < MaxRequests
  /\ started' = started + 1
  /\ req' = [req EXCEPT ![q] = [pc |-> op, srv |-> srv, by |-> p, op |-> op,
               route |-> route, to |-> to, amount |-> amount, base |-> 0, at |-> 0]]
  /\ UNCHANGED <<db, snap, clock, faults, hist>>

\* NewRouteID is random: it returns an id nobody has had.
Fresh == {r \in Routes : /\ tenant[r] = None
                         /\ \A q \in Requests : req[q].route # r}

IssueTo(q, srv) ==
  \E p \in Operators, c \in Customers, r \in Fresh, d \in Durations :
    CanAccessCustomer(p, c) /\ Begin(q, srv, p, "create", r, c, clock + d)
handleCreateTenant(q) == IssueTo(q, Backend)
handleTenantIssue(q)  == IssueTo(q, Dashboard)
\* The resolver's API knows no customers, and may be given the id and the
\* date; of the days and minutes it only asks that they do not come to zero.
createTenant(q) ==
  \E p \in Admins, r \in Routes, t \in Dates \cup {clock + d : d \in Adjustments \ {0}} :
    Begin(q, Resolver, p, "create", r, None, t)

\* p is anyone the route's scope lets in who may access the tenant.
OnTenant(q, srv, who, op, amounts) ==
  \E p \in who, r \in Routes, n \in amounts :
    CanAccessTenant(p, r) /\ Begin(q, srv, p, op, r, None, n)

handleExtendTenant(q) == OnTenant(q, Backend, Operators, "base", Durations)
handleTenantExtend(q) == OnTenant(q, Dashboard, Operators, "base", Durations)
\* Here any number of days will do, or the date itself.
extendTenant(q) == \/ OnTenant(q, Resolver, Admins, "base", Adjustments)
                   \/ OnTenant(q, Resolver, Admins, "date", Dates)

handleRevokeTenant(q) == OnTenant(q, Backend, Operators, "suspend", {0})
handleTenantRevoke(q) == OnTenant(q, Dashboard, Operators, "suspend", {0})
revokeTenant(q)       == OnTenant(q, Resolver, Admins, "suspend", {0})

Capped(n) == IF n > PauseCap THEN PauseCap ELSE n
handlePauseTenant(q) == OnTenant(q, Backend, Principals, "pause",
                                 {clock + Capped(n) : n \in Durations})
handlePause(q)       == OnTenant(q, Portal, Customers, "pause", {clock + 1})
pauseTenant(q)       == OnTenant(q, Resolver, Admins, "pause", {clock + n : n \in Durations})

handleAddAllow(q)    == OnTenant(q, Backend, Principals, "allow", {0})
handleRemoveAllow(q) == OnTenant(q, Backend, Principals, "disallow", {0})
handleAllowAdd(q)    == OnTenant(q, Dashboard, Operators, "allow", {0})
handleAllowRemove(q) == OnTenant(q, Dashboard, Operators, "disallow", {0})

\* The addresses of a tenant.  An operator names any; a customer registers the
\* one it calls from, and releases any.  Nobody asks whose the address is.
OnAddress(q, srv, who, op) ==
  \E p \in who, r \in Routes, ip \in IPs :
    CanAccessTenant(p, r) /\ Begin(q, srv, p, op, r, ip, 0)
handleRegisterIP(q) == OnAddress(q, Backend, Principals, "bind")
handleReleaseIP(q)  == OnAddress(q, Backend, Principals, "release")
handleUpdateIP(q)   == OnAddress(q, Portal, Customers, "bind")
\* The resolver's API binds to a tenant its snapshot has, and releases for none.
registerIP(q) == \E p \in Admins, r \in Routes, ip \in IPs :
                   snap[Resolver][r] # None /\ Begin(q, Resolver, p, "bind", r, ip, 0)
releaseIP(q)  == \E p \in Admins, ip \in IPs : Begin(q, Resolver, p, "release", None, ip, 0)

\* Administrators write rules of any scope: overrides, the triage queue's
\* global allow entries, and whatever the resolver's API is asked for.
OnScope(q, srv, op) ==
  \E p \in Admins, s \in Scopes : Begin(q, srv, p, op, s, None, 0)
handleSetOverride(q)    == OnScope(q, Backend, "override")
handleRemoveOverride(q) == OnScope(q, Backend, "restore")
handleOverrideSet(q)    == OnScope(q, Dashboard, "override")
handleOverrideRemove(q) == OnScope(q, Dashboard, "restore")
setOverride(q)          == OnScope(q, Resolver, "override")
addAllow(q)             == OnScope(q, Resolver, "allow")
handleTriageAllow(q) ==
  \E p \in Operators, r \in Routes, s \in Scopes :
    /\ CanAccessTenant(p, r)
    /\ s \in {r} \cup (IF p \in Admins THEN {Global} ELSE {})
    /\ Begin(q, Dashboard, p, "allow", s, None, 0)

\* A reseller always owns the customer it creates.
NewCustomer(q, srv) ==
  \E p \in Operators, c \in Customers :
    /\ owner[c] = None /\ \A x \in Requests : req[x].to # c
    /\ \E o \in IF p \in Admins THEN Operators ELSE {p} :
         Begin(q, srv, p, "customer", o, c, 0)
handleCreateCustomer(q)          == NewCustomer(q, Backend)
handleDashboardCustomerCreate(q) == NewCustomer(q, Dashboard)

------------------------------------------------------------------------------
(* The statements.                                                         *)

\* Mutant: a renewal leaves the program's own snapshot as it was.
Following_Unreloaded(srv, pc) ==
  IF pc = "create" /\ srv # Resolver THEN "attach"
  ELSE IF pc = "base" THEN "extend"
  ELSE IF pc \in {"extend", "date"} THEN "activate"
  ELSE IF pc \in {"activate", "reload", "customer"} THEN IF srv = Resolver THEN "idle" ELSE "audit"
  ELSE IF pc = "audit" THEN "idle"
  ELSE "reload"

\* What follows a statement: the resolver's API attaches nothing and keeps
\* no audit log, and a customer is no part of the snapshot.
Following(srv, pc) ==
  IF pc = "create" /\ srv # Resolver THEN "attach"
  ELSE IF pc = "base" THEN "extend"
  ELSE IF pc \in {"extend", "date"} THEN "activate"
  ELSE IF pc \in {"reload", "customer"} THEN IF srv = Resolver THEN "idle" ELSE "audit"
  ELSE IF pc = "audit" THEN "idle"
  ELSE "reload"

Advance(q) == LET n == Following(req[q].srv, req[q].pc)
              IN  IF n = "idle" THEN NoReq ELSE [req[q] EXCEPT !.pc = n]
Proceed(q)  == req' = [req EXCEPT ![q] = Advance(q)]
Execute(q, pc) ==
  /\ req[q].pc = pc /\ Proceed(q)
  /\ applied' = applied \cup {Entry(q)}
  /\ UNCHANGED <<clock, snap, log, bound>>

\* Another request is between reading or writing this tenant's expiry and its
\* own reload.
Overlaps(q) ==
  \E x \in Requests \ {q} : /\ req[x].route = req[q].route /\ req[x].op \in ExpiryOps
                            /\ req[x].pc \in {"extend", "attach", "activate", "reload"}
Race(q, more) == raced' = IF Overlaps(q) \/ more THEN raced \cup {req[q].route} ELSE raced

\* Every other program misses the expiry this request commits; its own will
\* too if the request ends without loading it.
Miss(q, programs) ==
  missed' = [s \in Programs |-> IF s \in programs THEN missed[s] \cup {req[q].route} ELSE missed[s]]
Load(s) == snap' = [snap EXCEPT ![s] = tenant] /\ missed' = [missed EXCEPT ![s] = {}]

\* A request's expiry is committed; "full" is what it comes to with nothing lost.
Grant(q, full) ==
  /\ paid' = [paid EXCEPT ![req[q].route] = full]
  /\ Miss(q, Programs \ {req[q].srv}) /\ Race(q, FALSE)

\* The row of an existing tenant changes; an UPDATE of no row does nothing.
SetRow(r, row) == tenant' = IF tenant[r] = None THEN tenant ELSE [tenant EXCEPT ![r] = row]

CreateTenant(q) ==
  LET r == req[q].route
      p == IF tenant[r] = None THEN 0 ELSE tenant[r].paused
  IN  /\ Execute(q, "create")
      /\ tenant' = [tenant EXCEPT ![r] = [expires |-> req[q].amount, active |-> TRUE, paused |-> p]]
      /\ Grant(q, req[q].amount)
      /\ UNCHANGED <<attached, owner, rules, binding>>

\* The customer's row is a foreign key.
AttachTenant(q) ==
  /\ Execute(q, "attach") /\ owner[req[q].to] # None
  /\ attached' = [attached EXCEPT ![req[q].route] = req[q].to]
  /\ UNCHANGED <<tenant, owner, rules, binding, money>>

\* Mutant: the error of the attachment is ignored.
AttachRefused_Ignored(q) ==
  /\ req[q].pc = "attach" /\ owner[req[q].to] = None /\ Proceed(q)
  /\ UNCHANGED <<db, snap, clock, bound, hist>>

\* No such customer: the handler answers 500 and the tenant stays as it is.
AttachRefused(q) ==
  /\ req[q].pc = "attach" /\ owner[req[q].to] = None
  /\ req' = [req EXCEPT ![q] = NoReq] /\ Miss(q, {req[q].srv})
  /\ UNCHANGED <<db, snap, clock, bound, applied, paid, raced>>

\* now, or the expiry this program's snapshot has if that is still ahead.
SnapshotExpiry(q) == LET t == snap[req[q].srv][req[q].route] IN IF t = None THEN 0 ELSE t.expires
RenewalBase(q) == IF SnapshotExpiry(q) > clock THEN SnapshotExpiry(q) ELSE clock

ReadBase(q) ==
  /\ req[q].pc = "base"
  /\ req' = [req EXCEPT ![q].pc = "extend", ![q].base = RenewalBase(q), ![q].at = clock]
  /\ Race(q, req[q].route \in missed[req[q].srv])
  /\ UNCHANGED <<db, snap, clock, bound, applied, paid, missed>>

Later(a, b) == IF a > b THEN a ELSE b

\* The expiry is written: counted from the base, or the date asked for.
Extend(q) ==
  LET r == req[q].route
      n == req[q].amount
  IN  /\ \/ /\ Execute(q, "extend")
            /\ SetRow(r, [tenant[r] EXCEPT !.expires = req[q].base + n])
            /\ IF tenant[r] = None THEN UNCHANGED money
               ELSE Grant(q, Later(paid[r], req[q].at) + n)
         \/ /\ Execute(q, "date")
            /\ SetRow(r, [tenant[r] EXCEPT !.expires = n])
            /\ IF tenant[r] = None THEN UNCHANGED money ELSE Grant(q, n)
      /\ UNCHANGED <<attached, owner, rules, binding>>

SetStatus(q) ==
  /\ \/ Execute(q, "activate") /\ SetRow(req[q].route, [tenant[req[q].route] EXCEPT !.active = TRUE])
     \/ Execute(q, "suspend") /\ SetRow(req[q].route, [tenant[req[q].route] EXCEPT !.active = FALSE])
  /\ UNCHANGED <<attached, owner, rules, binding, money>>

PauseFiltering(q) ==
  /\ Execute(q, "pause")
  /\ SetRow(req[q].route, [tenant[req[q].route] EXCEPT !.paused = req[q].amount])
  /\ UNCHANGED <<attached, owner, rules, binding, money>>

WriteRule(q) ==
  LET s == req[q].route
  IN  /\ \/ Execute(q, "allow")    /\ rules' = rules \cup {<<"allow", s>>}
         \/ Execute(q, "disallow") /\ rules' = rules \ {<<"allow", s>>}
         \/ Execute(q, "override") /\ rules' = rules \cup {<<"override", s>>}
         \/ Execute(q, "restore")  /\ rules' = rules \ {<<"override", s>>}
      /\ UNCHANGED <<tenant, attached, owner, binding, money>>

\* An address is taken over from whatever tenant has it, and released for it:
\* the DELETE names the address alone.
WriteBinding(q) ==
  /\ \/ Execute(q, "bind")    /\ binding' = [binding EXCEPT ![req[q].to] = req[q].route]
     \/ Execute(q, "release") /\ binding' = [binding EXCEPT ![req[q].to] = None]
  /\ UNCHANGED <<tenant, attached, owner, rules, money>>

CreateCustomer(q) ==
  /\ Execute(q, "customer")
  /\ owner' = [owner EXCEPT ![req[q].to] = req[q].route]
  /\ UNCHANGED <<tenant, attached, rules, binding, money>>

Reload(q) ==
  /\ req[q].pc = "reload" /\ Proceed(q) /\ Load(req[q].srv)
  /\ UNCHANGED <<db, clock, bound, applied, paid, raced>>

Record(q) ==
  /\ req[q].pc = "audit" /\ Proceed(q)
  /\ log' = log \cup {Entry(q)}
  /\ UNCHANGED <<tenant, attached, owner, rules, binding, snap, clock, bound, hist>>

\* A statement fails.  The second write of a renewal, the reload and the audit
\* entry are ignored when they fail; after any other the handler answers 500.
StatementFails(q) ==
  /\ req[q].pc \notin {"idle", "base"} /\ faults < MaxFaults
  /\ faults' = faults + 1
  /\ IF req[q].pc \in {"activate", "reload", "audit"} THEN Proceed(q)
     ELSE req' = [req EXCEPT ![q] = NoReq]
  /\ IF req[q].pc \in {"attach", "reload"} /\ req[q].op \in ExpiryOps THEN Miss(q, {req[q].srv})
     ELSE UNCHANGED missed
  /\ UNCHANGED <<db, snap, clock, started, applied, paid, raced>>

\* The resolver's ticker.
WatchReload ==
  /\ Load(Resolver)
  /\ UNCHANGED <<db, req, clock, bound, applied, paid, raced>>

\* A program dies and starts again: it loads a snapshot, its requests are gone.
Crash(s) ==
  /\ faults < MaxFaults
  /\ faults' = faults + 1
  /\ req' = [q \in Requests |-> IF req[q].srv = s THEN NoReq ELSE req[q]]
  /\ Load(s)
  /\ UNCHANGED <<db, clock, started, applied, paid, raced>>

Tick ==
  /\ clock < MaxClock
  /\ clock' = clock + 1
  /\ UNCHANGED <<db, snap, req, bound, hist>>

Handle(q) ==
  \/ handleCreateTenant(q) \/ handleTenantIssue(q) \/ createTenant(q)
  \/ handleExtendTenant(q) \/ handleTenantExtend(q) \/ extendTenant(q)
  \/ handleRevokeTenant(q) \/ handleTenantRevoke(q) \/ revokeTenant(q)
  \/ handlePauseTenant(q) \/ handlePause(q) \/ pauseTenant(q)
  \/ handleRegisterIP(q) \/ handleReleaseIP(q) \/ handleUpdateIP(q) \/ registerIP(q) \/ releaseIP(q)
  \/ handleAddAllow(q) \/ handleRemoveAllow(q) \/ handleAllowAdd(q) \/ handleAllowRemove(q)
  \/ handleSetOverride(q) \/ handleRemoveOverride(q) \/ setOverride(q) \/ addAllow(q)
  \/ handleOverrideSet(q) \/ handleOverrideRemove(q) \/ handleTriageAllow(q)
  \/ handleCreateCustomer(q) \/ handleDashboardCustomerCreate(q)

Statement(q) ==
  \/ CreateTenant(q) \/ AttachTenant(q) \/ AttachRefused(q) \/ ReadBase(q) \/ Extend(q)
  \/ SetStatus(q) \/ PauseFiltering(q) \/ WriteRule(q) \/ WriteBinding(q) \/ CreateCustomer(q)
  \/ Reload(q) \/ Record(q) \/ StatementFails(q)

Next ==
  \/ \E q \in Requests : Handle(q) \/ Statement(q)
  \/ WatchReload \/ Tick
  \/ \E s \in Programs : Crash(s)

Spec == Init /\ [][Next]_vars

------------------------------------------------------------------------------
(* What a reader of the code relies on.                                    *)

RulesOf(s) == {k \in RuleKinds : <<k, s>> \in rules}

\* requireTenantAccess (backend/handlers_tenants.go:22), tenantAccess
\* (admin/handlers_ops.go:20), the portal's session: the row, the customer and
\* the rules a request writes, however long after its check, are those of a
\* tenant its principal may access at that moment or of the one it is creating;
\* rules for everyone are an administrator's; and an address is only ever
\* bound to such a tenant.  In particular nobody else touches a tenant between
\* the statement that creates it and the one that attaches it.  "Every tenant
\* route goes through here" (handlers_tenants.go:18) does not extend to the
\* addresses: the check is of {id}, and RegisterIP (store.go:323) takes an
\* address from any tenant, ReleaseIP (store.go:331) deletes any tenant's.
Isolation ==
  [][\A q \in Requests : req'[q] # req[q] =>
       /\ \A r \in Routes :
            \/ tenant'[r] = tenant[r] /\ attached'[r] = attached[r] /\ RulesOf(r)' = RulesOf(r)
            \/ CanAccessTenant(req[q].by, r)
            \/ req[q].op = "create" /\ req[q].route = r
       /\ \A ip \in IPs : \/ binding'[ip] \in {binding[ip], None}
                           \/ CanAccessTenant(req[q].by, binding'[ip])
       /\ RulesOf(Global)' # RulesOf(Global) => req[q].by \in Admins]_vars

\* "renewing early does not cost the customer the remaining time"
\* (handlers_tenants.go:196): a tenant expires exactly when its renewals, each
\* added to what was left, say it does, unless one was computed at a program
\* that had missed another program's commit or whose own reload had failed, or
\* while another change of its expiry was between its read and its reload.  So
\* a program may answer from its own copy only as long as it never lags behind
\* what that program has itself committed; RenewalNeverShortens is what
\* becomes of the rest.  An administrator's explicit date, or days below one,
\* at the resolver's API count as what they say.
PaidTimeKept ==
  \A r \in Routes : tenant[r] # None /\ r \notin raced => tenant[r].expires = paid[r]

\* Record (backend/audit.go:60): an entry never names a change that did not
\* happen, and a tenant whose creation is recorded has its row and belongs to
\* the customer the entry names, for good.
AuditTruthful ==
  \A e \in log :
    /\ e \in applied
    /\ e.op = "create" => tenant[e.route] # None /\ attached[e.route] = e.to

\* The same promise without the proviso: no renewal shortens a subscription
\* that its program knows of.
RenewalNeverShortens ==
  [][\A q \in Requests, r \in Routes :
       \/ req[q].pc # "extend" \/ req'[q] = req[q] \/ tenant[r] = None
       \/ snap[req[q].srv][r] = None
       \/ tenant'[r].expires >= tenant[r].expires]_vars
==============================================================================
