-------------------------- MODULE TenantAdmin_proofs ---------------------------
(***************************************************************************)
(* Proofs about TenantAdmin, for any principals, tenants and requests, any *)
(* plans and any number of failures.                                       *)
(*                                                                         *)
(* Isolation speaks of the moment a request writes, long after its check.  *)
(* What was checked stays true because a tenant's customer and a           *)
(* customer's owner are given once and never changed, and because nobody   *)
(* but administrators can name a tenant that is still being created.       *)
(***************************************************************************)
EXTENDS TenantAdmin, TLAPS

RowOps == {"create", "base", "date", "suspend", "pause"}
RuleOps == {"allow", "disallow", "override", "restore"}
AddressOps == {"bind", "release"}
Ops == RowOps \cup RuleOps \cup AddressOps \cup {"customer"}
Pcs == Ops \cup {"idle", "attach", "extend", "activate", "reload", "audit"}

ReqStates ==
  [pc: Pcs, srv: Programs \cup {None}, by: Principals \cup {None}, op: Ops \cup {"idle"},
   route: Scopes \cup Operators \cup {None}, to: Customers \cup IPs \cup {None},
   amount: Int, base: Int, at: Nat]

TablesOK ==
  /\ tenant \in [Routes -> Rows \cup {None}]
  /\ attached \in [Routes -> Customers \cup {None}]
  /\ owner \in [Customers -> Operators \cup {None}]
  /\ rules \subseteq RuleKinds \X Scopes
  /\ snap \in [Programs -> [Routes -> Rows \cup {None}]]
  /\ clock \in Nat
  /\ binding \in [IPs -> Routes \cup {None}]
  /\ paid \in [Routes -> Int]
  /\ missed \in [Programs -> SUBSET Routes]
  /\ raced \subseteq Routes

TypeOK == TablesOK /\ req \in [Requests -> ReqStates]

------------------------------------------------------------------------------
(* What is known of a request under way.                                   *)

\* The statements it runs, and on what.
Shape(q) ==
  req[q].pc # "idle" =>
    /\ req[q].by \in Principals /\ req[q].srv \in Programs /\ req[q].op \in Ops
    /\ \/ req[q].pc \in {req[q].op, "reload", "audit"}
       \/ req[q].op = "create" /\ req[q].pc = "attach" /\ req[q].srv # Resolver
       \/ req[q].op = "base" /\ req[q].pc \in {"extend", "activate"}
       \/ req[q].op = "date" /\ req[q].pc = "activate"
    /\ req[q].pc = "audit" => req[q].srv # Resolver
    /\ req[q].op \in RowOps => req[q].route \in Routes
    /\ req[q].op \in RuleOps => req[q].route \in Scopes
    /\ req[q].op = "bind" => req[q].route \in Routes
    /\ req[q].op \in AddressOps => req[q].to \in IPs
    /\ req[q].op = "customer" => req[q].route \in Operators /\ req[q].to \in Customers
    /\ req[q].op = "create" /\ req[q].srv # Resolver => req[q].to \in Customers

\* What was checked when it began still holds.
Allowed(q) ==
  req[q].pc # "idle" /\ req[q].op \notin {"create", "customer"} =>
    req[q].by \in Admins \/ (req[q].route \in Routes /\ CanAccessTenant(req[q].by, req[q].route))

\* A tenant being created for a customer is nobody's until it is attached.
Creating(q) == req[q].op = "create" /\ req[q].srv # Resolver /\ req[q].pc \in {"create", "attach"}
Founding(q) == req[q].pc = "customer"

Progress(q) ==
  /\ Creating(q) => attached[req[q].route] = None
  /\ req[q].pc = "attach" => tenant[req[q].route] # None
  /\ req[q].op = "create" /\ req[q].srv # Resolver /\ req[q].pc \in {"reload", "audit"} =>
       tenant[req[q].route] # None /\ attached[req[q].route] = req[q].to
  /\ Founding(q) => owner[req[q].to] = None
  /\ req[q].pc \in {"attach", "activate", "reload", "audit"} => Entry(q) \in applied

RequestOK(q) == Shape(q) /\ Allowed(q) /\ Progress(q)

\* No two requests create one tenant or one customer.
Alone ==
  \A q, x \in Requests : q # x =>
    /\ ~(Creating(q) /\ Creating(x) /\ req[q].route = req[x].route)
    /\ ~(Founding(q) /\ Founding(x) /\ req[q].to = req[x].to)

AttachedExist == \A r \in Routes : attached[r] # None => tenant[r] # None

\* What the audit log says of creations stays true, as they name a customer.
LogOK ==
  \A e \in log :
    /\ e \in applied
    /\ e.op = "create" => /\ e.route \in Routes /\ e.to \in Customers
                          /\ tenant[e.route] # None /\ attached[e.route] = e.to

IInv ==
  /\ TypeOK /\ (\A q \in Requests : RequestOK(q)) /\ Alone
  /\ AttachedExist /\ LogOK

------------------------------------------------------------------------------
(* What no step takes back.                                                *)

Frame ==
  /\ \A r \in Routes : tenant[r] # None => tenant'[r] # None
  /\ \A r \in Routes : attached[r] # None => attached'[r] = attached[r]
  /\ \A c \in Customers : owner[c] # None => owner'[c] = owner[c]
  /\ applied \subseteq applied'

\* Who may access a tenant still may.
LEMMA AccessStays ==
  ASSUME TypeOK, Frame, NEW p \in Principals, NEW r \in Routes, CanAccessTenant(p, r)
  PROVE  CanAccessTenant(p, r)'
<1>1. CASE p \in Admins
  BY <1>1 DEF CanAccessTenant
<1>2. CASE attached[r] # None /\ CanAccessCustomer(p, attached[r])
  <2>1. attached'[r] = attached[r] /\ attached[r] \in Customers
    BY <1>2 DEF Frame, TypeOK, TablesOK
  <2>2. p \in Resellers => p # None
    BY TenantAdminAssumption DEF Principals, Operators
  <2>3. CanAccessCustomer(p, attached[r])'
    BY <1>2, <2>1, <2>2 DEF CanAccessCustomer, Frame
  <2> QED
    BY <1>2, <2>1, <2>3 DEF CanAccessTenant
<1> QED
  BY <1>1, <1>2 DEF CanAccessTenant

\* A request that does not move stays as it should be, if it is not creating
\* what the step has created.
LEMMA OthersStay ==
  ASSUME TypeOK, Frame, NEW x \in Requests, RequestOK(x), req'[x] = req[x],
         Creating(x) => attached'[req[x].route] = None,
         Founding(x) => owner'[req[x].to] = None
  PROVE  RequestOK(x)'
<1>1. Shape(x)'
  BY DEF RequestOK, Shape
<1>2. Allowed(x)'
  BY AccessStays DEF RequestOK, Shape, Allowed
<1>3. Progress(x)'
  <2>1. Shape(x) /\ Progress(x)
    BY DEF RequestOK
  <2>2. req[x].op = "create" /\ req[x].pc # "idle" => req[x].route \in Routes
    BY <2>1 DEF Shape, RowOps
  <2>3. req[x].pc = "attach" => req[x].op = "create"
    BY <2>1 DEF Shape, Ops, RowOps, RuleOps, AddressOps
  <2>4. req[x].op = "create" /\ req[x].srv # Resolver /\ req[x].pc \in {"reload", "audit"} => req[x].to # None
    BY <2>1, TenantAdminAssumption DEF Shape, Principals
  <2>5. Entry(x)' = Entry(x)
    BY DEF Entry
  <2> QED
    BY <2>1, <2>2, <2>3, <2>4, <2>5 DEF Progress, Frame, Creating, Founding
<1> QED
  BY <1>1, <1>2, <1>3 DEF RequestOK

\* A step of one request keeps the invariant, if it keeps the tables and that
\* request right and creates nothing another request is creating.
LEMMA StepKeeps ==
  ASSUME IInv, Frame, NEW q \in Requests,
         TypeOK', AttachedExist', LogOK',
         \A x \in Requests \ {q} : req'[x] = req[x],
         RequestOK(q)',
         Creating(q)' => \A x \in Requests \ {q} : ~(Creating(x) /\ req[x].route = req'[q].route),
         Founding(q)' => \A x \in Requests \ {q} : ~(Founding(x) /\ req[x].to = req'[q].to),
         \A x \in Requests \ {q} : /\ Creating(x) => attached'[req[x].route] = None
                                   /\ Founding(x) => owner'[req[x].to] = None
  PROVE  IInv'
<1>1. ASSUME NEW x \in Requests
      PROVE  RequestOK(x)'
  <2>1. CASE x = q
    BY <2>1
  <2>2. CASE x # q
    BY <2>2, OthersStay DEF IInv
  <2> QED
    BY <2>1, <2>2
<1>2. \A x \in Requests \ {q} : (Creating(x)' <=> Creating(x)) /\ (Founding(x)' <=> Founding(x))
  BY DEF Creating, Founding
<1>3. Alone'
  BY <1>2 DEF IInv, Alone
<1> QED
  BY <1>1, <1>3 DEF IInv

------------------------------------------------------------------------------
(* Beginnings.                                                             *)

\* The initial state satisfies the invariant.
LEMMA InitIInv == Init => IInv
<1> SUFFICES ASSUME Init PROVE IInv
  OBVIOUS
<1>1. attached \in [Routes -> Customers \cup {None}] /\ owner \in [Customers -> Operators \cup {None}]
  BY DEF Init, Operators
<1>2. \A r \in Routes : /\ tenant[r] = None \/ tenant[r] = [expires |-> 1, active |-> TRUE, paused |-> 0]
                        /\ attached[r] # None => tenant[r] # None
  <2>1. [expires |-> 1, active |-> TRUE, paused |-> 0] # None
    <3>1. [expires |-> 1, active |-> TRUE, paused |-> 0] \in Rows
      BY DEF Rows
    <3> QED
      BY <3>1, TenantAdminAssumption
  <2> QED
    BY <2>1 DEF Init
<1>3. tenant \in [Routes -> Rows \cup {None}] /\ paid \in [Routes -> Int]
  <2>1. [expires |-> 1, active |-> TRUE, paused |-> 0] \in Rows
    BY DEF Rows
  <2>2. DOMAIN tenant = Routes /\ tenant = [r \in Routes |-> tenant[r]]
    BY DEF Init
  <2>3. tenant \in [Routes -> Rows \cup {None}]
    BY <1>2, <2>1, <2>2
  <2>4. \A r \in Routes : (IF tenant[r] = None THEN 0 ELSE tenant[r].expires) \in Int
    BY <1>2
  <2> QED
    BY <2>3, <2>4 DEF Init
<1>4. NoReq \in ReqStates /\ NoReq.pc = "idle"
  BY DEF NoReq, ReqStates, Pcs, Ops
<1>5. TypeOK
  BY <1>1, <1>3, <1>4 DEF Init, TypeOK, TablesOK
<1>6. \A q \in Requests : req[q].pc = "idle"
  BY <1>4 DEF Init
<1>7. (\A q \in Requests : RequestOK(q)) /\ Alone
  BY <1>6 DEF RequestOK, Shape, Allowed, Progress, Creating, Founding, Alone
<1>8. AttachedExist /\ LogOK
  BY <1>2 DEF Init, AttachedExist, LogOK
<1> QED
  BY <1>5, <1>7, <1>8 DEF IInv

\* The tables stay as they are ...
LEMMA TablesStay ==
  ASSUME IInv, UNCHANGED <<db, applied, paid>>, clock' \in Nat,
         missed' \in [Programs -> SUBSET Routes], raced' \subseteq Routes,
         snap' \in [Programs -> [Routes -> Rows \cup {None}]]
  PROVE  TablesOK' /\ Frame /\ AttachedExist' /\ LogOK'
  BY DEF IInv, TypeOK, TablesOK, Frame, AttachedExist, LogOK, db

\* What the programs have missed, and the tenants of which they have.
LEMMA HistoryTypes ==
  ASSUME IInv, NEW q \in Requests
  PROVE  /\ UNCHANGED missed => missed' \in [Programs -> SUBSET Routes]
         /\ UNCHANGED raced => raced' \subseteq Routes
         /\ \A s \in Programs : missed' = [missed EXCEPT ![s] = {}] => missed' \in [Programs -> SUBSET Routes]
         /\ req[q].route \in Routes =>
              /\ \A programs : Miss(q, programs) => missed' \in [Programs -> SUBSET Routes]
              /\ \A more : Race(q, more) => raced' \subseteq Routes
<1>1. missed \in [Programs -> SUBSET Routes] /\ raced \subseteq Routes
  BY DEF IInv, TypeOK, TablesOK
<1>2. ASSUME req[q].route \in Routes
      PROVE  \A programs : Miss(q, programs) => missed' \in [Programs -> SUBSET Routes]
  BY <1>1, <1>2 DEF Miss
<1>3. ASSUME req[q].route \in Routes
      PROVE  \A more : Race(q, more) => raced' \subseteq Routes
  BY <1>1, <1>3 DEF Race
<1> QED
  BY <1>1, <1>2, <1>3

\* ... when a request has passed its checks.
LEMMA BeginKeeps ==
  ASSUME IInv, NEW q \in Requests, NEW srv \in Programs, NEW p \in Principals, NEW op \in Ops,
         NEW route \in Scopes \cup Operators \cup {None}, NEW to \in Customers \cup IPs \cup {None},
         NEW amount \in Int,
         Begin(q, srv, p, op, route, to, amount),
         op \in RowOps => route \in Routes,
         op \in RuleOps => route \in Scopes,
         op = "bind" => route \in Routes,
         op \in AddressOps => to \in IPs,
         op = "customer" => /\ route \in Operators /\ to \in Customers
                            /\ owner[to] = None /\ \A x \in Requests : req[x].to # to,
         op = "create" /\ srv # Resolver => /\ to \in Customers /\ attached[route] = None
                                            /\ \A x \in Requests : req[x].route # route,
         op \notin {"create", "customer"} =>
           p \in Admins \/ (route \in Routes /\ CanAccessTenant(p, route))
  PROVE  IInv'
<1> DEFINE s == [pc |-> op, srv |-> srv, by |-> p, op |-> op, route |-> route, to |-> to,
                 amount |-> amount, base |-> 0, at |-> 0]
<1>1. req' = [req EXCEPT ![q] = s] /\ UNCHANGED <<db, snap, clock, hist>>
  BY DEF Begin
<1>2. s \in ReqStates
  BY DEF ReqStates, Pcs
<1>3. /\ s.pc = op /\ s.srv = srv /\ s.by = p /\ s.op = op /\ s.route = route /\ s.to = to
  OBVIOUS
<1> HIDE DEF s
<1>4. req \in [Requests -> ReqStates] /\ req'[q] = s
  BY <1>1 DEF IInv, TypeOK
<1>5. TypeOK' /\ Frame /\ AttachedExist' /\ LogOK'
  BY <1>1, <1>2, <1>4, TablesStay DEF TypeOK, IInv, TablesOK, hist, money
<1>6. \A x \in Requests \ {q} : req'[x] = req[x]
  BY <1>1, <1>4
<1>7. RequestOK(q)'
  <2>1. Shape(q)'
    BY <1>3, <1>4 DEF Shape, Ops, RowOps, RuleOps, AddressOps
  <2>2. Allowed(q)'
    BY <1>1, <1>3, <1>4 DEF Allowed, CanAccessTenant, CanAccessCustomer, db
  <2>3. Progress(q)'
    BY <1>1, <1>3, <1>4 DEF Progress, Creating, Founding, Ops, RowOps, RuleOps, AddressOps, db
  <2> QED
    BY <2>1, <2>2, <2>3 DEF RequestOK
<1>8. Creating(q)' => \A x \in Requests \ {q} : ~(Creating(x) /\ req[x].route = req'[q].route)
  BY <1>3, <1>4 DEF Creating
<1>9. Founding(q)' => \A x \in Requests \ {q} : ~(Founding(x) /\ req[x].to = req'[q].to)
  BY <1>3, <1>4 DEF Founding
<1>10. \A x \in Requests \ {q} : /\ Creating(x) => attached'[req[x].route] = None
                                 /\ Founding(x) => owner'[req[x].to] = None
  BY <1>1 DEF IInv, RequestOK, Progress, db
<1> QED
  BY <1>5, <1>6, <1>7, <1>8, <1>9, <1>10, StepKeeps

\* A tenant for a customer: nobody has its id.
LEMMA IssueKeeps ==
  ASSUME IInv, NEW q \in Requests, NEW srv \in Programs, IssueTo(q, srv)
  PROVE  IInv'
<1>1. PICK p \in Operators, c \in Customers, r \in Fresh, d \in Durations :
        Begin(q, srv, p, "create", r, c, clock + d)
  BY DEF IssueTo
<1>2. r \in Routes /\ attached[r] = None /\ \A x \in Requests : req[x].route # r
  BY DEF Fresh, IInv, AttachedExist
<1>3. clock + d \in Nat
  BY TenantAdminAssumption DEF IInv, TypeOK, TablesOK
<1>4. p \in Principals /\ r \in Scopes \cup Operators /\ "create" \in Ops /\ "create" \in RowOps
      /\ "create" \notin RuleOps \cup AddressOps
  BY <1>2 DEF Principals, Scopes, Ops, RowOps, RuleOps, AddressOps
<1> QED
  BY <1>1, <1>2, <1>3, <1>4, BeginKeeps

\* A tenant for nobody: the resolver's API is its administrators'.
LEMMA CreateKeeps ==
  ASSUME IInv, NEW q \in Requests, createTenant(q)
  PROVE  IInv'
<1>1. PICK p \in Admins, r \in Routes, t \in Dates \cup {clock + d : d \in Adjustments \ {0}} :
        Begin(q, Resolver, p, "create", r, None, t)
  BY DEF createTenant
<1>2. t \in Int
  BY TenantAdminAssumption DEF IInv, TypeOK, TablesOK
<1>3. p \in Principals /\ r \in Scopes \cup Operators /\ "create" \in Ops /\ "create" \in RowOps
      /\ "create" \notin RuleOps \cup AddressOps /\ Resolver \in Programs
  BY DEF Principals, Operators, Scopes, Ops, RowOps, RuleOps, AddressOps, Programs
<1> QED
  BY <1>1, <1>2, <1>3, BeginKeeps

\* A request for a tenant its principal may access.
LEMMA OnTenantKeeps ==
  ASSUME IInv, NEW q \in Requests, NEW srv \in Programs, NEW who \in SUBSET Principals,
         NEW op \in (RowOps \cup RuleOps) \ {"create"}, NEW amounts \in SUBSET Int,
         OnTenant(q, srv, who, op, amounts)
  PROVE  IInv'
<1>1. PICK p \in who, r \in Routes, n \in amounts :
        CanAccessTenant(p, r) /\ Begin(q, srv, p, op, r, None, n)
  BY DEF OnTenant
<1>2. p \in Principals /\ r \in Scopes /\ n \in Int /\ op \in Ops /\ op \notin AddressOps \cup {"customer"}
  BY DEF Scopes, Ops, RowOps, RuleOps, AddressOps
<1> QED
  BY <1>1, <1>2, BeginKeeps

\* An administrator's rule.
LEMMA OnScopeKeeps ==
  ASSUME IInv, NEW q \in Requests, NEW srv \in Programs, NEW op \in RuleOps, OnScope(q, srv, op)
  PROVE  IInv'
<1>1. PICK p \in Admins, s \in Scopes : Begin(q, srv, p, op, s, None, 0)
  BY DEF OnScope
<1>2. p \in Principals /\ op \in Ops /\ op \notin RowOps \cup AddressOps \cup {"customer"} /\ 0 \in Int
  BY DEF Principals, Operators, Ops, RowOps, RuleOps, AddressOps
<1>3. op # "create" /\ op # "bind" /\ None \in Customers \cup IPs \cup {None} /\ s \in Scopes \cup Operators \cup {None}
  BY DEF RuleOps
<1> QED
  BY <1>1, <1>2, <1>3, BeginKeeps

\* A rule out of the triage queue, for a tenant or for all.
LEMMA TriageKeeps ==
  ASSUME IInv, NEW q \in Requests, handleTriageAllow(q)
  PROVE  IInv'
<1>1. PICK p \in Operators, r \in Routes, s \in Scopes :
        /\ CanAccessTenant(p, r)
        /\ s \in {r} \cup (IF p \in Admins THEN {Global} ELSE {})
        /\ Begin(q, Dashboard, p, "allow", s, None, 0)
  BY DEF handleTriageAllow
<1>2. /\ p \in Principals /\ "allow" \in Ops /\ "allow" \notin RowOps \cup AddressOps
      /\ "allow" \in RuleOps /\ 0 \in Int /\ Dashboard \in Programs
  BY DEF Principals, Ops, RowOps, RuleOps, AddressOps, Programs
<1>3. p \in Admins \/ (s \in Routes /\ CanAccessTenant(p, s))
  BY <1>1
<1> QED
  BY <1>1, <1>2, <1>3, BeginKeeps

\* A new customer.
LEMMA NewCustomerKeeps ==
  ASSUME IInv, NEW q \in Requests, NEW srv \in Programs, NewCustomer(q, srv)
  PROVE  IInv'
<1>1. PICK p \in Operators, c \in Customers, o \in Operators :
        /\ owner[c] = None /\ \A x \in Requests : req[x].to # c
        /\ Begin(q, srv, p, "customer", o, c, 0)
  BY DEF NewCustomer
<1>2. /\ p \in Principals /\ "customer" \in Ops /\ "customer" \notin RowOps \cup RuleOps \cup AddressOps
      /\ 0 \in Int
  BY DEF Principals, Ops, RowOps, RuleOps, AddressOps
<1> QED
  BY <1>1, <1>2, BeginKeeps

\* An address, for a tenant its principal may access ...
LEMMA OnAddressKeeps ==
  ASSUME IInv, NEW q \in Requests, NEW srv \in Programs, NEW who \in SUBSET Principals,
         NEW op \in AddressOps, OnAddress(q, srv, who, op)
  PROVE  IInv'
<1>1. PICK p \in who, r \in Routes, ip \in IPs :
        CanAccessTenant(p, r) /\ Begin(q, srv, p, op, r, ip, 0)
  BY DEF OnAddress
<1>2. /\ p \in Principals /\ r \in Scopes /\ op \in Ops /\ 0 \in Int
      /\ op \notin RowOps \cup RuleOps \cup {"customer", "create"}
  BY DEF Scopes, Ops, RowOps, RuleOps, AddressOps
<1> QED
  BY <1>1, <1>2, BeginKeeps

\* ... or at the resolver's API, for any or for none.
LEMMA ResolverAddressKeeps ==
  ASSUME IInv, NEW q \in Requests, registerIP(q) \/ releaseIP(q)
  PROVE  IInv'
<1>1. PICK op \in AddressOps, p \in Admins, r \in Routes \cup {None}, ip \in IPs :
        Begin(q, Resolver, p, op, r, ip, 0) /\ (op = "bind" => r \in Routes)
  BY DEF registerIP, releaseIP, AddressOps
<1>2. /\ p \in Principals /\ r \in Scopes \cup {None} /\ op \in Ops /\ 0 \in Int /\ Resolver \in Programs
      /\ op \notin RowOps \cup RuleOps \cup {"customer", "create"}
  BY DEF Principals, Operators, Scopes, Ops, RowOps, RuleOps, AddressOps, Programs
<1> QED
  BY <1>1, <1>2, BeginKeeps

\* Every request begins well.
LEMMA HandleKeeps ==
  ASSUME IInv, NEW q \in Requests, Handle(q)
  PROVE  IInv'
<1>1. /\ {Resolver, Backend, Dashboard, Portal} = Programs
      /\ Operators \in SUBSET Principals /\ Admins \in SUBSET Principals
      /\ Customers \in SUBSET Principals /\ Principals \in SUBSET Principals
      /\ Durations \in SUBSET Int /\ Adjustments \in SUBSET Int /\ Dates \in SUBSET Int
      /\ {0} \in SUBSET Int /\ clock \in Int
  BY TenantAdminAssumption DEF Programs, Principals, Operators, IInv, TypeOK, TablesOK
<1>2. /\ {clock + Capped(n) : n \in Durations} \in SUBSET Int
      /\ {clock + n : n \in Durations} \in SUBSET Int
      /\ {clock + 1} \in SUBSET Int
  BY <1>1, TenantAdminAssumption DEF Capped
<1>3. /\ {"base", "date", "suspend", "pause", "allow", "disallow"} \subseteq (RowOps \cup RuleOps) \ {"create"}
      /\ {"allow", "override", "restore"} \subseteq RuleOps
  BY DEF RowOps, RuleOps
<1>4. CASE handleCreateTenant(q) \/ handleTenantIssue(q)
  BY <1>1, <1>4, IssueKeeps DEF handleCreateTenant, handleTenantIssue
<1>5. CASE handleExtendTenant(q) \/ handleTenantExtend(q) \/ extendTenant(q)
  BY <1>1, <1>3, <1>5, OnTenantKeeps DEF handleExtendTenant, handleTenantExtend, extendTenant
<1>6. CASE handleRevokeTenant(q) \/ handleTenantRevoke(q) \/ revokeTenant(q)
  BY <1>1, <1>3, <1>6, OnTenantKeeps DEF handleRevokeTenant, handleTenantRevoke, revokeTenant
<1>7. CASE handlePauseTenant(q) \/ handlePause(q) \/ pauseTenant(q)
  BY <1>1, <1>2, <1>3, <1>7, OnTenantKeeps DEF handlePauseTenant, handlePause, pauseTenant
<1>8. CASE handleAddAllow(q) \/ handleRemoveAllow(q) \/ handleAllowAdd(q) \/ handleAllowRemove(q)
  BY <1>1, <1>3, <1>8, OnTenantKeeps
     DEF handleAddAllow, handleRemoveAllow, handleAllowAdd, handleAllowRemove
<1>9. CASE handleSetOverride(q) \/ handleRemoveOverride(q) \/ setOverride(q) \/ addAllow(q)
  BY <1>1, <1>3, <1>9, OnScopeKeeps DEF handleSetOverride, handleRemoveOverride, setOverride, addAllow
<1>10. CASE handleOverrideSet(q) \/ handleOverrideRemove(q)
  BY <1>1, <1>3, <1>10, OnScopeKeeps DEF handleOverrideSet, handleOverrideRemove
<1>12. CASE handleRegisterIP(q) \/ handleReleaseIP(q) \/ handleUpdateIP(q)
  BY <1>1, <1>12, OnAddressKeeps DEF handleRegisterIP, handleReleaseIP, handleUpdateIP, AddressOps
<1>11. CASE handleCreateCustomer(q) \/ handleDashboardCustomerCreate(q)
  BY <1>1, <1>11, NewCustomerKeeps DEF handleCreateCustomer, handleDashboardCustomerCreate
<1> QED
  BY <1>4, <1>5, <1>6, <1>7, <1>8, <1>9, <1>10, <1>11, <1>12, CreateKeeps, TriageKeeps,
     ResolverAddressKeeps DEF Handle

------------------------------------------------------------------------------
(* Statements.                                                             *)

MovesOn(q, k) == req' = [req EXCEPT ![q] = IF k = "idle" THEN NoReq ELSE [req[q] EXCEPT !.pc = k]]

\* A request that has run a statement is as it should be before the next.
LEMMA MoveOK ==
  ASSUME IInv, Frame, NEW q \in Requests, req[q].pc # "idle",
         NEW k \in {"idle", "attach", "activate", "reload", "audit"}, MovesOn(q, k),
         \/ k \in {"idle", "reload", "audit"}
         \/ req[q].op = "create" /\ req[q].srv # Resolver /\ k = "attach"
         \/ req[q].op \in {"base", "date"} /\ k = "activate",
         k = "audit" => req[q].srv # Resolver,
         k # "idle" => Entry(q) \in applied',
         k = "attach" => tenant'[req[q].route] # None /\ attached'[req[q].route] = None,
         req[q].op = "create" /\ req[q].srv # Resolver /\ k \in {"reload", "audit"} =>
           tenant'[req[q].route] # None /\ attached'[req[q].route] = req[q].to
  PROVE  /\ req' \in [Requests -> ReqStates]
         /\ RequestOK(q)'
         /\ \A x \in Requests \ {q} : req'[x] = req[x]
         /\ Creating(q)' => k = "attach" /\ req'[q].route = req[q].route
         /\ ~Founding(q)'
<1>1. req \in [Requests -> ReqStates] /\ req[q] \in ReqStates /\ RequestOK(q)
  BY DEF IInv, TypeOK
<1>2. \A x \in Requests \ {q} : req'[x] = req[x]
  BY <1>1 DEF MovesOn
<1>3. CASE k = "idle"
  <2>1. req'[q] = NoReq /\ NoReq \in ReqStates /\ NoReq.pc = "idle"
    BY <1>1, <1>3 DEF MovesOn, NoReq, ReqStates, Pcs, Ops
  <2>2. req' \in [Requests -> ReqStates]
    BY <1>1, <1>3, <2>1 DEF MovesOn
  <2> QED
    BY <1>2, <2>1, <2>2 DEF RequestOK, Shape, Allowed, Progress, Creating, Founding
<1>4. CASE k # "idle"
  <2> DEFINE s == [req[q] EXCEPT !.pc = k]
  <2>1. k \in Pcs
    BY DEF Pcs
  <2>2. /\ s \in ReqStates /\ s.pc = k /\ s.by = req[q].by /\ s.srv = req[q].srv /\ s.op = req[q].op
        /\ s.route = req[q].route /\ s.to = req[q].to
    BY <1>1, <2>1 DEF ReqStates
  <2>3. req' = [req EXCEPT ![q] = s]
    BY <1>4 DEF MovesOn
  <2> HIDE DEF s
  <2>4. req'[q] = s /\ req' \in [Requests -> ReqStates]
    BY <1>1, <2>2, <2>3
  <2>5. Shape(q) /\ Allowed(q) /\ Progress(q)
    BY <1>1 DEF RequestOK
  <2>6. Shape(q)'
    BY <2>2, <2>4, <2>5 DEF Shape
  <2>7. Allowed(q)'
    BY <1>4, <2>2, <2>4, <2>5, AccessStays DEF Allowed, Shape, IInv
  <2>8. Entry(q)' = Entry(q)
    BY <2>2, <2>4 DEF Entry
  <2>9. Progress(q)'
    BY <1>4, <2>2, <2>4, <2>8 DEF Progress, Creating, Founding
  <2>10. (Creating(q)' => k = "attach" /\ req'[q].route = req[q].route) /\ ~Founding(q)'
    BY <2>2, <2>4 DEF Creating, Founding, Ops, RowOps, RuleOps, AddressOps
  <2> QED
    BY <1>2, <2>4, <2>6, <2>7, <2>9, <2>10 DEF RequestOK
<1> QED
  BY <1>3, <1>4

\* A step that moves a request on and keeps the tables right keeps the
\* invariant, if it gives nothing to a tenant or customer another is creating.
LEMMA MoveKeeps ==
  ASSUME IInv, Frame, NEW q \in Requests,
         TablesOK', AttachedExist', LogOK',
         req' \in [Requests -> ReqStates], RequestOK(q)', ~Founding(q)',
         \A x \in Requests \ {q} : req'[x] = req[x],
         Creating(q)' => Creating(q) /\ req'[q].route = req[q].route,
         \A r \in Routes : attached'[r] = attached[r] \/ (Creating(q) /\ r = req[q].route),
         \A c \in Customers : owner'[c] = owner[c] \/ (Founding(q) /\ c = req[q].to)
  PROVE  IInv'
<1>1. Creating(q)' => \A x \in Requests \ {q} : ~(Creating(x) /\ req[x].route = req'[q].route)
  BY DEF IInv, Alone
<1>2. ASSUME NEW x \in Requests \ {q}
      PROVE  /\ Creating(x) => attached'[req[x].route] = None
             /\ Founding(x) => owner'[req[x].to] = None
  <2>1. Shape(x) /\ Progress(x)
    BY DEF IInv, RequestOK
  <2>2. Creating(x) => req[x].route \in Routes
    BY <2>1 DEF Creating, Shape, RowOps
  <2>3. Founding(x) => req[x].to \in Customers
    BY <2>1 DEF Founding, Shape, Ops, RowOps, RuleOps, AddressOps
  <2> QED
    BY <2>1, <2>2, <2>3 DEF Progress, IInv, Alone
<1>3. TypeOK'
  BY DEF TypeOK
<1> QED
  BY <1>1, <1>2, <1>3, StepKeeps

\* Where a statement leads.
LEMMA Leads ==
  ASSUME NEW q, Proceed(q)
  PROVE  MovesOn(q, Following(req[q].srv, req[q].pc))
  BY DEF Proceed, Advance, MovesOn

\* The tables after a statement on one tenant's row.
LEMMA SetRowKeeps ==
  ASSUME IInv, NEW r \in Routes, NEW row, SetRow(r, row), tenant[r] # None => row \in Rows,
         UNCHANGED <<attached, owner, rules, log, snap, clock>>, applied \subseteq applied',
         binding' = binding, paid' \in [Routes -> Int],
         missed' \in [Programs -> SUBSET Routes], raced' \subseteq Routes
  PROVE  TablesOK' /\ Frame /\ AttachedExist' /\ LogOK'
<1>1. /\ tenant' \in [Routes -> Rows \cup {None}]
      /\ \A x \in Routes : tenant[x] # None => tenant'[x] # None
  <2>1. tenant \in [Routes -> Rows \cup {None}]
    BY DEF IInv, TypeOK, TablesOK
  <2>2. tenant[r] # None => row # None
    BY TenantAdminAssumption
  <2> QED
    BY <2>1, <2>2 DEF SetRow
<1>2. TablesOK'
  BY <1>1 DEF IInv, TypeOK, TablesOK
<1>3. Frame
  BY <1>1 DEF Frame
<1>4. AttachedExist'
  BY <1>1 DEF IInv, AttachedExist
<1>5. LogOK'
  BY <1>1 DEF IInv, LogOK
<1> QED
  BY <1>2, <1>3, <1>4, <1>5

\* INSERT INTO tenants.
LEMMA CreateTenantKeeps ==
  ASSUME IInv, NEW q \in Requests, CreateTenant(q)
  PROVE  IInv'
<1> DEFINE r == req[q].route
           p == IF tenant[r] = None THEN 0 ELSE tenant[r].paused
           row == [expires |-> req[q].amount, active |-> TRUE, paused |-> p]
           k == IF req[q].srv = Resolver THEN "reload" ELSE "attach"
<1>1. /\ req[q].pc = "create" /\ Proceed(q) /\ applied' = applied \cup {Entry(q)}
      /\ UNCHANGED <<clock, snap, log, bound>> /\ UNCHANGED <<attached, owner, rules, binding>>
      /\ tenant' = [tenant EXCEPT ![r] = row] /\ Grant(q, req[q].amount)
  BY DEF CreateTenant, Execute
<1>2. req[q] \in ReqStates /\ RequestOK(q) /\ tenant \in [Routes -> Rows \cup {None}]
      /\ paid \in [Routes -> Int]
  BY DEF IInv, TypeOK, TablesOK
<1>3. req[q].op = "create" /\ r \in Routes /\ req[q].amount \in Int
  BY <1>1, <1>2 DEF RequestOK, Shape, ReqStates, Ops, RowOps, RuleOps, AddressOps
<1>4. MovesOn(q, k)
  BY <1>1, Leads DEF Following
<1>5. row \in Rows /\ row # None
  <2>1. p \in Int
    BY <1>2, <1>3 DEF Rows
  <2>2. row \in Rows
    BY <1>3, <2>1 DEF Rows
  <2> QED
    BY <2>2, TenantAdminAssumption
<1> HIDE DEF row, k
<1>7. /\ tenant' \in [Routes -> Rows \cup {None}] /\ paid' \in [Routes -> Int]
      /\ missed' \in [Programs -> SUBSET Routes] /\ raced' \subseteq Routes
  BY <1>1, <1>2, <1>3, <1>5, HistoryTypes DEF Grant
<1>8. TablesOK' /\ Frame /\ AttachedExist' /\ LogOK'
  BY <1>1, <1>2, <1>3, <1>5, <1>7 DEF IInv, TypeOK, TablesOK, Frame, AttachedExist, LogOK
<1>10. tenant'[r] # None /\ Entry(q) \in applied' /\ (k = "attach" => attached'[r] = None)
  BY <1>1, <1>2, <1>3, <1>5 DEF k, RequestOK, Progress, Creating
<1>11. /\ req' \in [Requests -> ReqStates] /\ RequestOK(q)' /\ ~Founding(q)'
       /\ \A x \in Requests \ {q} : req'[x] = req[x]
       /\ Creating(q)' => k = "attach" /\ req'[q].route = r
  BY <1>1, <1>3, <1>4, <1>8, <1>10, MoveOK DEF k
<1>12. k = "attach" => Creating(q)
  BY <1>1, <1>3 DEF k, Creating
<1> QED
  BY <1>1, <1>8, <1>11, <1>12, MoveKeeps

\* INSERT INTO customer_tenants.
LEMMA AttachTenantKeeps ==
  ASSUME IInv, NEW q \in Requests, AttachTenant(q)
  PROVE  IInv'
<1> DEFINE r == req[q].route
<1>1. /\ req[q].pc = "attach" /\ Proceed(q) /\ applied' = applied \cup {Entry(q)}
      /\ UNCHANGED <<clock, snap, log, bound>> /\ UNCHANGED <<tenant, owner, rules, binding, money>>
      /\ attached' = [attached EXCEPT ![r] = req[q].to]
  BY DEF AttachTenant, Execute
<1>2. req[q] \in ReqStates /\ Shape(q) /\ Progress(q) /\ attached \in [Routes -> Customers \cup {None}]
  BY DEF IInv, TypeOK, TablesOK, RequestOK
<1>3. /\ req[q].op = "create" /\ req[q].srv # Resolver /\ r \in Routes /\ req[q].to \in Customers
      /\ Creating(q)
  BY <1>1, <1>2 DEF Shape, ReqStates, Ops, RowOps, RuleOps, AddressOps, Creating
<1>4. attached[r] = None /\ tenant[r] # None
  BY <1>1, <1>2, <1>3 DEF Progress
<1>5. MovesOn(q, "reload")
  BY <1>1, Leads DEF Following
<1>6. TablesOK' /\ Frame /\ AttachedExist' /\ LogOK'
  <2>1. TablesOK' /\ Frame /\ AttachedExist'
    BY <1>1, <1>2, <1>3, <1>4 DEF IInv, TypeOK, TablesOK, Frame, AttachedExist, money
  <2>2. \A e \in log : e.op = "create" => e.route # r
    BY <1>4, TenantAdminAssumption DEF IInv, LogOK, Principals
  <2>3. LogOK'
    BY <1>1, <1>2, <2>2 DEF IInv, LogOK
  <2> QED
    BY <2>1, <2>3
<1>7. Entry(q) \in applied' /\ tenant'[r] # None /\ attached'[r] = req[q].to
  BY <1>1, <1>2, <1>3, <1>4
<1>8. /\ req' \in [Requests -> ReqStates] /\ RequestOK(q)' /\ ~Founding(q)'
      /\ \A x \in Requests \ {q} : req'[x] = req[x]
      /\ ~Creating(q)'
  BY <1>1, <1>3, <1>5, <1>6, <1>7, MoveOK
<1>9. \A x \in Routes : attached'[x] = attached[x] \/ (Creating(q) /\ x = r)
  BY <1>1, <1>2, <1>3
<1> QED
  BY <1>1, <1>6, <1>8, <1>9, MoveKeeps

\* The customer is not there: the request ends.
LEMMA AttachRefusedKeeps ==
  ASSUME IInv, NEW q \in Requests, AttachRefused(q)
  PROVE  IInv'
<1>0. req[q].pc = "attach" /\ MovesOn(q, "idle") /\ Miss(q, {req[q].srv})
      /\ UNCHANGED <<db, snap, clock, applied, paid, raced>>
  BY DEF AttachRefused, MovesOn
<1>1. req[q].pc = "attach" /\ MovesOn(q, "idle") /\ UNCHANGED <<db, snap, clock, applied, paid>>
      /\ missed' \in [Programs -> SUBSET Routes] /\ raced' \subseteq Routes
  <2>1. req[q].route \in Routes
    BY <1>0 DEF IInv, RequestOK, Shape, Ops, RowOps, RuleOps, AddressOps
  <2> QED
    BY <1>0, <2>1, HistoryTypes
<1>2. TablesOK' /\ Frame /\ AttachedExist' /\ LogOK'
  BY <1>1, TablesStay DEF IInv, TypeOK, TablesOK
<1>3. /\ req' \in [Requests -> ReqStates] /\ RequestOK(q)' /\ ~Founding(q)' /\ ~Creating(q)'
      /\ \A x \in Requests \ {q} : req'[x] = req[x]
  BY <1>1, <1>2, MoveOK
<1> QED
  BY <1>1, <1>2, <1>3, MoveKeeps DEF db

\* The expiry is read, and nothing written.
LEMMA ReadBaseKeeps ==
  ASSUME IInv, NEW q \in Requests, ReadBase(q)
  PROVE  IInv'
<1> DEFINE s == [req[q] EXCEPT !.pc = "extend", !.base = RenewalBase(q), !.at = clock]
<1>1. /\ req[q].pc = "base" /\ req' = [req EXCEPT ![q] = s]
      /\ Race(q, req[q].route \in missed[req[q].srv])
      /\ UNCHANGED <<db, snap, clock, bound, applied, paid, missed>>
  BY DEF ReadBase
<1>2. req[q] \in ReqStates /\ Shape(q) /\ Allowed(q) /\ req \in [Requests -> ReqStates] /\ clock \in Nat
  BY DEF IInv, TypeOK, RequestOK, TablesOK
<1>3. req[q].op = "base" /\ req[q].route \in Routes /\ req[q].srv \in Programs
  BY <1>1, <1>2 DEF Shape, Ops, RowOps, RuleOps, AddressOps
<1>4. SnapshotExpiry(q) \in Int
  <2>1. snap[req[q].srv][req[q].route] \in Rows \cup {None}
    BY <1>3 DEF IInv, TypeOK, TablesOK
  <2> QED
    BY <2>1 DEF SnapshotExpiry, Rows
<1>5. RenewalBase(q) \in Int
  BY <1>4 DEF RenewalBase, IInv, TypeOK, TablesOK
<1>6. /\ s \in ReqStates /\ s.pc = "extend" /\ s.by = req[q].by /\ s.srv = req[q].srv
      /\ s.op = req[q].op /\ s.route = req[q].route /\ s.to = req[q].to
  BY <1>2, <1>4, <1>5 DEF ReqStates, Pcs
<1> HIDE DEF s
<1>7. req'[q] = s /\ req' \in [Requests -> ReqStates] /\ \A x \in Requests \ {q} : req'[x] = req[x]
  BY <1>1, <1>2, <1>6
<1>8. TablesOK' /\ Frame /\ AttachedExist' /\ LogOK'
  BY <1>1, <1>3, TablesStay, HistoryTypes DEF IInv, TypeOK, TablesOK
<1>9. RequestOK(q)' /\ ~Founding(q)' /\ ~Creating(q)'
  <2>1. Shape(q)'
    BY <1>1, <1>2, <1>3, <1>6, <1>7 DEF Shape
  <2>2. Allowed(q)'
    BY <1>1, <1>2, <1>6, <1>7, <1>8, AccessStays DEF Allowed, Shape, IInv
  <2>3. Progress(q)' /\ ~Founding(q)' /\ ~Creating(q)'
    BY <1>3, <1>6, <1>7 DEF Progress, Founding, Creating
  <2> QED
    BY <2>1, <2>2, <2>3 DEF RequestOK
<1> QED
  BY <1>1, <1>7, <1>8, <1>9, MoveKeeps DEF db

\* A statement on a tenant or a rule that exists leads to the reload.
LEMMA WriteKeeps ==
  ASSUME IInv, NEW q \in Requests,
         NEW pc \in {"activate", "suspend", "pause"} \cup RuleOps \cup AddressOps, Execute(q, pc),
         TablesOK', Frame, AttachedExist', LogOK', UNCHANGED <<attached, owner>>
  PROVE  IInv'
<1>1. req[q].pc = pc /\ Proceed(q) /\ applied' = applied \cup {Entry(q)} /\ Shape(q)
  BY DEF Execute, IInv, RequestOK
<1>2. MovesOn(q, "reload")
  BY <1>1, Leads DEF Following, RuleOps, AddressOps
<1>3. req[q].op # "create" /\ req[q].pc # "idle"
  BY <1>1 DEF Shape, RuleOps, AddressOps
<1>4. /\ req' \in [Requests -> ReqStates] /\ RequestOK(q)' /\ ~Founding(q)' /\ ~Creating(q)'
      /\ \A x \in Requests \ {q} : req'[x] = req[x]
  BY <1>1, <1>2, <1>3, MoveOK
<1> QED
  BY <1>4, MoveKeeps

\* UPDATE tenants SET expires_at.
LEMMA ExtendKeeps ==
  ASSUME IInv, NEW q \in Requests, Extend(q)
  PROVE  IInv'
<1> DEFINE r == req[q].route
<1>1. PICK pc \in {"extend", "date"}, e \in Int, full \in Int :
        /\ req[q].pc = pc /\ Proceed(q) /\ applied' = applied \cup {Entry(q)}
        /\ UNCHANGED <<clock, snap, log>> /\ UNCHANGED <<attached, owner, rules, binding>>
        /\ SetRow(r, [tenant[r] EXCEPT !.expires = e])
        /\ IF tenant[r] = None THEN UNCHANGED money ELSE Grant(q, full)
        /\ r \in Routes /\ req[q].op \in {"base", "date"}
  <2>1. req[q] \in ReqStates /\ Shape(q) /\ paid \in [Routes -> Int]
    BY DEF IInv, TypeOK, TablesOK, RequestOK
  <2>2. req[q].pc \in {"extend", "date"}
    BY DEF Extend, Execute
  <2>3. r \in Routes /\ req[q].op \in {"base", "date"}
    BY <2>1, <2>2 DEF Shape, Ops, RowOps, RuleOps, AddressOps
  <2>4. /\ req[q].amount \in Int /\ req[q].base + req[q].amount \in Int
        /\ Later(paid[r], req[q].at) + req[q].amount \in Int
    BY <2>1, <2>3 DEF ReqStates, Later
  <2> QED
    BY <2>2, <2>3, <2>4 DEF Extend, Execute
<1>2. /\ tenant \in [Routes -> Rows \cup {None}] /\ paid \in [Routes -> Int] /\ Shape(q)
  BY DEF IInv, TypeOK, TablesOK, RequestOK
<1>3. tenant[r] # None => [tenant[r] EXCEPT !.expires = e] \in Rows
  <2>1. tenant[r] \in Rows \cup {None}
    BY <1>1, <1>2
  <2> QED
    BY <2>1 DEF Rows
<1>4. paid' \in [Routes -> Int] /\ missed' \in [Programs -> SUBSET Routes] /\ raced' \subseteq Routes
  BY <1>1, <1>2, HistoryTypes DEF Grant, money
<1>5. TablesOK' /\ Frame /\ AttachedExist' /\ LogOK'
  BY <1>1, <1>3, <1>4, SetRowKeeps
<1>6. MovesOn(q, "activate")
  BY <1>1, Leads DEF Following
<1>7. /\ req' \in [Requests -> ReqStates] /\ RequestOK(q)' /\ ~Founding(q)' /\ ~Creating(q)'
      /\ \A x \in Requests \ {q} : req'[x] = req[x]
  BY <1>1, <1>5, <1>6, MoveOK
<1> QED
  BY <1>1, <1>5, <1>7, MoveKeeps

\* UPDATE tenants SET status, or paused_until.
LEMMA UpdateKeeps ==
  ASSUME IInv, NEW q \in Requests, SetStatus(q) \/ PauseFiltering(q)
  PROVE  IInv'
<1> DEFINE r == req[q].route
<1>1. PICK pc \in {"activate", "suspend", "pause"}, active \in BOOLEAN :
        /\ Execute(q, pc) /\ UNCHANGED <<attached, owner, rules, binding, money>>
        /\ \/ SetRow(r, [tenant[r] EXCEPT !.active = active])
           \/ SetRow(r, [tenant[r] EXCEPT !.paused = req[q].amount])
  BY DEF SetStatus, PauseFiltering
<1>2. /\ req[q] \in ReqStates /\ Shape(q) /\ tenant \in [Routes -> Rows \cup {None}]
      /\ req[q].pc = pc
  BY <1>1 DEF IInv, TypeOK, TablesOK, RequestOK, Execute
<1>3. r \in Routes /\ req[q].amount \in Int
  BY <1>2 DEF Shape, ReqStates, Ops, RowOps, RuleOps, AddressOps
<1>4. PICK row \in {[tenant[r] EXCEPT !.active = active], [tenant[r] EXCEPT !.paused = req[q].amount]} :
        SetRow(r, row)
  BY <1>1
<1>5. tenant[r] # None => row \in Rows
  <2>1. tenant[r] \in Rows \cup {None}
    BY <1>2, <1>3
  <2> QED
    BY <1>3, <1>4, <2>1 DEF Rows
<1>6. /\ UNCHANGED <<attached, owner, rules, log, snap, clock, binding, paid, missed, raced>>
      /\ applied \subseteq applied'
  BY <1>1 DEF Execute, money
<1>7. paid' \in [Routes -> Int] /\ missed' \in [Programs -> SUBSET Routes] /\ raced' \subseteq Routes
  BY <1>6 DEF IInv, TypeOK, TablesOK
<1>8. TablesOK' /\ Frame /\ AttachedExist' /\ LogOK'
  BY <1>2, <1>3, <1>4, <1>5, <1>6, <1>7, SetRowKeeps
<1> QED
  BY <1>1, <1>6, <1>8, WriteKeeps

\* INSERT and DELETE of a rule.
LEMMA WriteRuleKeeps ==
  ASSUME IInv, NEW q \in Requests, WriteRule(q)
  PROVE  IInv'
<1> DEFINE s == req[q].route
<1>1. PICK pc \in RuleOps, kind \in RuleKinds :
        /\ Execute(q, pc) /\ UNCHANGED <<tenant, attached, owner, binding, money>>
        /\ rules' = rules \cup {<<kind, s>>} \/ rules' = rules \ {<<kind, s>>}
  BY DEF WriteRule, RuleOps, RuleKinds
<1>2. Shape(q) /\ req[q].pc = pc
  BY <1>1 DEF IInv, RequestOK, Execute
<1>3. s \in Scopes
  BY <1>2 DEF Shape, RuleOps
<1>4. UNCHANGED <<log, snap, clock>> /\ applied \subseteq applied'
  BY <1>1 DEF Execute
<1>5. TablesOK' /\ Frame /\ AttachedExist' /\ LogOK'
  BY <1>1, <1>3, <1>4 DEF IInv, TypeOK, TablesOK, Frame, AttachedExist, LogOK, money
<1> QED
  BY <1>1, <1>5, WriteKeeps

\* INSERT and DELETE of an address.
LEMMA WriteBindingKeeps ==
  ASSUME IInv, NEW q \in Requests, WriteBinding(q)
  PROVE  IInv'
<1>1. PICK pc \in AddressOps :
        /\ Execute(q, pc) /\ UNCHANGED <<tenant, attached, owner, rules, money>>
        /\ \/ pc = "bind" /\ binding' = [binding EXCEPT ![req[q].to] = req[q].route]
           \/ binding' = [binding EXCEPT ![req[q].to] = None]
  BY DEF WriteBinding, AddressOps
<1>2. Shape(q) /\ req[q].pc = pc /\ binding \in [IPs -> Routes \cup {None}]
  BY <1>1 DEF IInv, TypeOK, TablesOK, RequestOK, Execute
<1>3. pc = "bind" => req[q].route \in Routes
  BY <1>2 DEF Shape, AddressOps
<1>4. UNCHANGED <<log, snap, clock>> /\ applied \subseteq applied'
  BY <1>1 DEF Execute
<1>5. binding' \in [IPs -> Routes \cup {None}]
  BY <1>1, <1>2, <1>3
<1>6. TablesOK' /\ Frame /\ AttachedExist' /\ LogOK'
  BY <1>1, <1>4, <1>5 DEF IInv, TypeOK, TablesOK, Frame, AttachedExist, LogOK, money
<1> QED
  BY <1>1, <1>6, WriteKeeps

\* INSERT INTO customers.
LEMMA CreateCustomerKeeps ==
  ASSUME IInv, NEW q \in Requests, CreateCustomer(q)
  PROVE  IInv'
<1> DEFINE c == req[q].to
           k == IF req[q].srv = Resolver THEN "idle" ELSE "audit"
<1>1. /\ req[q].pc = "customer" /\ Proceed(q) /\ applied' = applied \cup {Entry(q)}
      /\ UNCHANGED <<clock, snap, log, bound>> /\ UNCHANGED <<tenant, attached, rules, binding, money>>
      /\ owner' = [owner EXCEPT ![c] = req[q].route]
  BY DEF CreateCustomer, Execute
<1>2. Shape(q) /\ Progress(q) /\ Founding(q)
  BY <1>1 DEF IInv, RequestOK, Founding
<1>3. req[q].op = "customer" /\ req[q].route \in Operators /\ c \in Customers /\ owner[c] = None
  BY <1>1, <1>2 DEF Shape, Progress, Ops, RowOps, RuleOps, AddressOps
<1>4. TablesOK' /\ Frame /\ AttachedExist' /\ LogOK'
  BY <1>1, <1>3 DEF IInv, TypeOK, TablesOK, Frame, AttachedExist, LogOK, money
<1>5. MovesOn(q, k)
  BY <1>1, Leads DEF Following
<1>6. /\ req' \in [Requests -> ReqStates] /\ RequestOK(q)' /\ ~Founding(q)' /\ ~Creating(q)'
      /\ \A x \in Requests \ {q} : req'[x] = req[x]
  BY <1>1, <1>3, <1>4, <1>5, MoveOK
<1>7. \A x \in Customers : owner'[x] = owner[x] \/ x = c
  BY <1>1 DEF IInv, TypeOK, TablesOK
<1> QED
  BY <1>1, <1>2, <1>4, <1>6, <1>7, MoveKeeps

\* The program's snapshot is loaded.
LEMMA ReloadKeeps ==
  ASSUME IInv, NEW q \in Requests, Reload(q)
  PROVE  IInv'
<1> DEFINE k == IF req[q].srv = Resolver THEN "idle" ELSE "audit"
<1>1. /\ req[q].pc = "reload" /\ Proceed(q) /\ snap' = [snap EXCEPT ![req[q].srv] = tenant]
      /\ missed' = [missed EXCEPT ![req[q].srv] = {}]
      /\ UNCHANGED <<db, clock, applied, paid, raced>>
  BY DEF Reload, Load
<1>2. Shape(q) /\ Progress(q) /\ clock' \in Nat
      /\ snap' \in [Programs -> [Routes -> Rows \cup {None}]]
      /\ missed' \in [Programs -> SUBSET Routes] /\ raced' \subseteq Routes
  BY <1>1 DEF IInv, RequestOK, TypeOK, TablesOK
<1>3. TablesOK' /\ Frame /\ AttachedExist' /\ LogOK'
  BY <1>1, <1>2, TablesStay
<1>4. MovesOn(q, k)
  BY <1>1, Leads DEF Following
<1>5. Entry(q) \in applied'
  BY <1>1, <1>2 DEF Progress
<1>6. req[q].op = "create" /\ req[q].srv # Resolver =>
        tenant'[req[q].route] # None /\ attached'[req[q].route] = req[q].to
  BY <1>1, <1>2 DEF Progress, db
<1>7. /\ req' \in [Requests -> ReqStates] /\ RequestOK(q)' /\ ~Founding(q)' /\ ~Creating(q)'
      /\ \A x \in Requests \ {q} : req'[x] = req[x]
  BY <1>1, <1>3, <1>4, <1>5, <1>6, MoveOK
<1> QED
  BY <1>1, <1>3, <1>7, MoveKeeps DEF db

\* The audit entry is written.
LEMMA RecordKeeps ==
  ASSUME IInv, NEW q \in Requests, Record(q)
  PROVE  IInv'
<1>1. /\ req[q].pc = "audit" /\ Proceed(q) /\ log' = log \cup {Entry(q)}
      /\ UNCHANGED <<tenant, attached, owner, rules, binding, snap, clock, bound, hist>>
  BY DEF Record
<1>2. Shape(q) /\ Progress(q)
  BY DEF IInv, RequestOK
<1>3. Entry(q) \in applied /\ Entry(q).op = req[q].op /\ Entry(q).route = req[q].route /\ Entry(q).to = req[q].to
  BY <1>1, <1>2 DEF Progress, Entry
<1>4. req[q].op = "create" => /\ req[q].route \in Routes /\ req[q].to \in Customers
                              /\ tenant[req[q].route] # None /\ attached[req[q].route] = req[q].to
  BY <1>1, <1>2 DEF Shape, Progress, RowOps
<1>5. LogOK'
  BY <1>1, <1>3, <1>4 DEF IInv, LogOK, hist
<1>6. TablesOK' /\ Frame /\ AttachedExist'
  BY <1>1 DEF IInv, TypeOK, TablesOK, Frame, AttachedExist, hist, money
<1>7. MovesOn(q, "idle")
  BY <1>1, Leads DEF Following
<1>8. /\ req' \in [Requests -> ReqStates] /\ RequestOK(q)' /\ ~Founding(q)' /\ ~Creating(q)'
      /\ \A x \in Requests \ {q} : req'[x] = req[x]
  BY <1>1, <1>6, <1>7, MoveOK
<1> QED
  BY <1>1, <1>5, <1>6, <1>8, MoveKeeps

\* A statement fails, and the handler ends or carries on.
LEMMA StatementFailsKeeps ==
  ASSUME IInv, NEW q \in Requests, StatementFails(q)
  PROVE  IInv'
<1> DEFINE k == IF req[q].pc = "activate" THEN "reload"
                ELSE IF req[q].pc = "reload" /\ req[q].srv # Resolver THEN "audit" ELSE "idle"
<1>1. req[q].pc # "idle" /\ UNCHANGED <<db, snap, clock, applied, paid, raced>>
  BY DEF StatementFails
<1>2. MovesOn(q, k)
  <2>1. CASE req[q].pc \in {"activate", "reload", "audit"}
    BY <2>1, Leads DEF StatementFails, Following
  <2>2. CASE req[q].pc \notin {"activate", "reload", "audit"}
    BY <2>2 DEF StatementFails, MovesOn
  <2> QED
    BY <2>1, <2>2
<1>3. Shape(q) /\ Progress(q)
  BY DEF IInv, RequestOK
<1>4. TablesOK' /\ Frame /\ AttachedExist' /\ LogOK'
  <2>1. req[q].op \in ExpiryOps => req[q].route \in Routes
    BY <1>1, <1>3 DEF Shape, RowOps, ExpiryOps
  <2>2. missed' \in [Programs -> SUBSET Routes]
    BY <2>1, HistoryTypes DEF StatementFails
  <2> QED
    BY <1>1, <2>2, TablesStay DEF IInv, TypeOK, TablesOK
<1>5. k # "idle" => Entry(q) \in applied'
  BY <1>1, <1>3 DEF Progress
<1>6. req[q].op = "create" /\ req[q].srv # Resolver /\ k \in {"reload", "audit"} =>
        tenant'[req[q].route] # None /\ attached'[req[q].route] = req[q].to
  BY <1>1, <1>3 DEF Shape, Progress, db
<1>7. k \in {"idle", "reload", "audit"} /\ (k = "audit" => req[q].srv # Resolver)
  OBVIOUS
<1> HIDE DEF k
<1>8. /\ req' \in [Requests -> ReqStates] /\ RequestOK(q)' /\ ~Founding(q)' /\ ~Creating(q)'
      /\ \A x \in Requests \ {q} : req'[x] = req[x]
  BY <1>1, <1>2, <1>4, <1>5, <1>6, <1>7, MoveOK
<1> QED
  BY <1>1, <1>4, <1>8, MoveKeeps DEF db

------------------------------------------------------------------------------
(* All steps.                                                              *)

\* Time, the ticker and a crash leave the tables alone, and end requests at
\* most.
LEMMA CalmKeeps ==
  ASSUME IInv, UNCHANGED <<db, applied, paid, raced>>, clock' \in Nat,
         snap' \in [Programs -> [Routes -> Rows \cup {None}]],
         missed' \in [Programs -> SUBSET Routes],
         req' \in [Requests -> {NoReq} \cup ReqStates],
         \A x \in Requests : req'[x] \in {req[x], NoReq}
  PROVE  IInv'
<1>1. NoReq \in ReqStates /\ NoReq.pc = "idle"
  BY DEF NoReq, ReqStates, Pcs, Ops
<1>2. TablesOK' /\ Frame /\ AttachedExist' /\ LogOK'
  BY TablesStay DEF IInv, TypeOK, TablesOK
<1>3. TypeOK'
  BY <1>1, <1>2 DEF TypeOK
<1>4. ASSUME NEW x \in Requests
      PROVE  RequestOK(x)'
  <2>1. CASE req'[x] = NoReq
    BY <1>1, <2>1 DEF RequestOK, Shape, Allowed, Progress, Creating, Founding
  <2>2. CASE req'[x] = req[x]
    <3>1. RequestOK(x) /\ attached' = attached /\ owner' = owner
      BY DEF IInv, db
    <3>2. /\ Creating(x) => attached'[req[x].route] = None
          /\ Founding(x) => owner'[req[x].to] = None
      BY <3>1 DEF RequestOK, Progress
    <3> QED
      BY <1>2, <2>2, <3>1, <3>2, OthersStay DEF IInv
  <2> QED
    BY <2>1, <2>2
<1>5. Alone'
  <2>1. \A x \in Requests : /\ Creating(x)' => Creating(x) /\ req'[x] = req[x]
                            /\ Founding(x)' => Founding(x) /\ req'[x] = req[x]
    BY <1>1 DEF Creating, Founding
  <2> QED
    BY <2>1 DEF IInv, Alone
<1> QED
  BY <1>2, <1>3, <1>4, <1>5 DEF IInv

\* The inductive invariant is kept by every step.
LEMMA NextIInv == IInv /\ [Next]_vars => IInv'
<1> SUFFICES ASSUME IInv, [Next]_vars
             PROVE  IInv'
  OBVIOUS
<1>0. /\ req \in [Requests -> ReqStates] /\ clock \in Nat /\ clock + 1 \in Nat
      /\ tenant \in [Routes -> Rows \cup {None}]
      /\ snap \in [Programs -> [Routes -> Rows \cup {None}]]
      /\ missed \in [Programs -> SUBSET Routes]
  BY DEF IInv, TypeOK, TablesOK
<1>1. ASSUME NEW q \in Requests, Statement(q)
      PROVE  IInv'
  BY <1>1, CreateTenantKeeps, AttachTenantKeeps, AttachRefusedKeeps, ReadBaseKeeps, ExtendKeeps,
     UpdateKeeps, WriteRuleKeeps, WriteBindingKeeps, CreateCustomerKeeps, ReloadKeeps, RecordKeeps, StatementFailsKeeps
     DEF Statement
<1>2. CASE WatchReload
  BY <1>0, <1>2, CalmKeeps DEF WatchReload, Load, Programs
<1>3. CASE Tick
  BY <1>0, <1>3, CalmKeeps DEF Tick, hist, money
<1>4. ASSUME NEW s \in Programs, Crash(s)
      PROVE  IInv'
  <2>1. /\ req' = [q \in Requests |-> IF req[q].srv = s THEN NoReq ELSE req[q]]
        /\ snap' = [snap EXCEPT ![s] = tenant] /\ missed' = [missed EXCEPT ![s] = {}]
        /\ UNCHANGED <<db, clock, applied, paid, raced>>
    BY <1>4 DEF Crash, Load
  <2>2. /\ req' \in [Requests -> {NoReq} \cup ReqStates]
        /\ \A x \in Requests : req'[x] \in {req[x], NoReq}
    BY <1>0, <2>1
  <2> QED
    BY <1>0, <2>1, <2>2, CalmKeeps
<1>5. CASE UNCHANGED vars
  <2>1. req' \in [Requests -> {NoReq} \cup ReqStates] /\ \A x \in Requests : req'[x] \in {req[x], NoReq}
    BY <1>0, <1>5 DEF vars
  <2> QED
    BY <1>0, <1>5, <2>1, CalmKeeps DEF vars, hist, money
<1> QED
  BY <1>1, <1>2, <1>3, <1>4, <1>5, HandleKeeps DEF Next

\* The inductive invariant holds throughout.
LEMMA SpecIInv == Spec => []IInv
  BY InitIInv, NextIInv, PTL DEF Spec

------------------------------------------------------------------------------
(* Who writes what.                                                        *)

\* A statement on an existing tenant is one of a principal that may access it.
LEMMA MayWrite ==
  ASSUME IInv, NEW q \in Requests,
         req[q].pc \in {"extend", "activate"} \cup Ops, req[q].pc \notin {"create", "customer"}
  PROVE  /\ req[q].op \notin {"create", "customer"}
         /\ req[q].route \in Routes => CanAccessTenant(req[q].by, req[q].route)
         /\ req[q].route \in Routes \/ req[q].by \in Admins
<1>1. Shape(q) /\ Allowed(q)
  BY DEF IInv, RequestOK
<1>2. req[q].op \notin {"create", "customer"} /\ req[q].pc # "idle"
  BY <1>1 DEF Shape, Ops, RowOps, RuleOps, AddressOps
<1> QED
  BY <1>1, <1>2 DEF Allowed, CanAccessTenant

\* No statement reaches another tenant than the request's.
LEMMA WritesAllowed ==
  ASSUME IInv, NEW q \in Requests, Statement(q)
  PROVE  /\ \A x \in Requests \ {q} : req'[x] = req[x]
         /\ \A r \in Routes :
              \/ tenant'[r] = tenant[r] /\ attached'[r] = attached[r] /\ RulesOf(r)' = RulesOf(r)
              \/ CanAccessTenant(req[q].by, r)
              \/ req[q].op = "create" /\ req[q].route = r
         /\ \A ip \in IPs : \/ binding'[ip] \in {binding[ip], None}
                             \/ CanAccessTenant(req[q].by, binding'[ip])
         /\ RulesOf(Global)' # RulesOf(Global) => req[q].by \in Admins
<1>0. /\ req \in [Requests -> ReqStates] /\ Shape(q)
      /\ tenant \in [Routes -> Rows \cup {None}] /\ attached \in [Routes -> Customers \cup {None}]
      /\ binding \in [IPs -> Routes \cup {None}]
  BY DEF IInv, TypeOK, TablesOK, RequestOK
<1>1. \A x \in Requests \ {q} : req'[x] = req[x]
  BY <1>0 DEF Statement, CreateTenant, AttachTenant, AttachRefused, ReadBase, Extend, SetStatus,
              PauseFiltering, WriteRule, WriteBinding, CreateCustomer, Reload, Record, StatementFails,
              Execute, Proceed
<1>2. CASE CreateTenant(q)
  <2>1. req[q].op = "create" /\ rules' = rules /\ attached' = attached /\ binding' = binding
    BY <1>0, <1>2 DEF CreateTenant, Execute, Shape, Ops, RowOps, RuleOps, AddressOps
  <2>2. \A r \in Routes \ {req[q].route} : tenant'[r] = tenant[r]
    BY <1>0, <1>2 DEF CreateTenant
  <2> QED
    BY <1>1, <2>1, <2>2 DEF RulesOf
<1>3. CASE AttachTenant(q)
  <2>1. req[q].op = "create" /\ rules' = rules /\ tenant' = tenant /\ binding' = binding
    BY <1>0, <1>3 DEF AttachTenant, Execute, Shape, Ops, RowOps, RuleOps, AddressOps
  <2>2. \A r \in Routes \ {req[q].route} : attached'[r] = attached[r]
    BY <1>0, <1>3 DEF AttachTenant
  <2> QED
    BY <1>1, <2>1, <2>2 DEF RulesOf
<1>4. CASE Extend(q) \/ SetStatus(q) \/ PauseFiltering(q)
  <2>1. req[q].pc \in {"extend", "date", "activate", "suspend", "pause"}
        /\ UNCHANGED <<attached, rules, binding>>
    BY <1>4 DEF Extend, SetStatus, PauseFiltering, Execute
  <2>2. req[q].route \in Routes => CanAccessTenant(req[q].by, req[q].route)
    BY <2>1, MayWrite DEF Ops, RowOps
  <2>3. \A r \in Routes \ {req[q].route} : tenant'[r] = tenant[r]
    BY <1>0, <1>4 DEF Extend, SetStatus, PauseFiltering, SetRow
  <2> QED
    BY <1>1, <2>1, <2>2, <2>3 DEF RulesOf
<1>5. CASE WriteRule(q)
  <2>1. PICK pc \in RuleOps, kind \in RuleKinds :
          /\ req[q].pc = pc /\ UNCHANGED <<tenant, attached, binding>>
          /\ rules' = rules \cup {<<kind, req[q].route>>} \/ rules' = rules \ {<<kind, req[q].route>>}
    BY <1>5 DEF WriteRule, Execute, RuleOps, RuleKinds
  <2>2. /\ req[q].route \in Routes => CanAccessTenant(req[q].by, req[q].route)
        /\ req[q].route \in Routes \/ req[q].by \in Admins
    BY <2>1, MayWrite DEF Ops, RowOps, RuleOps, AddressOps
  <2>3. \A s : s # req[q].route => RulesOf(s)' = RulesOf(s)
    BY <2>1 DEF RulesOf
  <2> QED
    BY <1>1, <2>1, <2>2, <2>3, TenantAdminAssumption
<1>6. CASE UNCHANGED <<tenant, attached, rules, binding>>
  BY <1>1, <1>6 DEF RulesOf
<1>7. CASE WriteBinding(q)
  <2>1. /\ req[q].pc \in AddressOps /\ UNCHANGED <<tenant, attached, rules>>
        /\ \/ req[q].pc = "bind" /\ binding' = [binding EXCEPT ![req[q].to] = req[q].route]
           \/ binding' = [binding EXCEPT ![req[q].to] = None]
    BY <1>7 DEF WriteBinding, Execute, AddressOps
  <2>2. req[q].route \in Routes => CanAccessTenant(req[q].by, req[q].route)
    BY <2>1, MayWrite DEF Ops, AddressOps
  <2>3. req[q].pc = "bind" => req[q].route \in Routes
    BY <1>0 DEF Shape, Ops, RowOps, RuleOps, AddressOps
  <2>4. ASSUME NEW ip \in IPs
        PROVE  \/ binding'[ip] \in {binding[ip], None}
               \/ CanAccessTenant(req[q].by, binding'[ip])
    <3>1. \/ binding'[ip] \in {binding[ip], None}
          \/ req[q].pc = "bind" /\ binding'[ip] = req[q].route
      BY <1>0, <2>1
    <3> QED
      BY <2>2, <2>3, <3>1
  <2> QED
    BY <1>1, <2>1, <2>4 DEF RulesOf
<1> QED
  BY <1>2, <1>3, <1>4, <1>5, <1>6, <1>7
     DEF Statement, AttachRefused, ReadBase, CreateCustomer, Reload, Record, StatementFails, db

------------------------------------------------------------------------------
(* What a renewal is counted from.                                         *)

\* The tenant expires at the same time in two copies of its row.
Same(t, u) == (t = None <=> u = None) /\ (t # None => t.expires = u.expires)

\* The request has committed an expiry its program has not loaded.
Unloaded(q) == req[q].op \in ExpiryOps /\ req[q].pc \in {"attach", "activate", "reload"}

\* A program's snapshot has the expiry of every tenant but those it has missed
\* and those it is about to load.
SnapshotsTrue ==
  \A s \in Programs, r \in Routes :
    \/ r \in missed[s]
    \/ \E x \in Requests : req[x].srv = s /\ req[x].route = r /\ Unloaded(x)
    \/ Same(snap[s][r], tenant[r])

\* What a renewal has read is what the tenant has.
BasesTrue ==
  \A x \in Requests :
    LET r == req[x].route
    IN  req[x].pc = "extend" /\ r \notin raced /\ tenant[r] # None =>
          req[x].base = Later(tenant[r].expires, req[x].at)

MoneyOK == PaidTimeKept /\ SnapshotsTrue /\ BasesTrue

\* All snapshots are the database to begin with.
LEMMA InitMoney == Init /\ IInv => MoneyOK
<1> SUFFICES ASSUME Init, IInv PROVE MoneyOK
  OBVIOUS
<1>1. PaidTimeKept
  BY DEF Init, PaidTimeKept
<1>2. SnapshotsTrue
  BY DEF Init, SnapshotsTrue, Same
<1>3. BasesTrue
  BY DEF Init, BasesTrue, NoReq
<1> QED
  BY <1>1, <1>2, <1>3 DEF MoneyOK

\* A step that leaves every expiry as it is, and loads nothing ...
LEMMA CalmMoney ==
  ASSUME IInv, MoneyOK, NEW q \in Requests,
         \A x \in Requests \ {q} : req'[x] = req[x],
         req'[q].pc # "extend" \/ req'[q] = req[q],
         snap' = snap, raced' = raced, paid' = paid,
         \A r \in Routes : Same(tenant'[r], tenant[r]),
         \A s \in Programs : missed[s] \subseteq missed'[s],
         Unloaded(q) => \/ Unloaded(q)' /\ req'[q].srv = req[q].srv /\ req'[q].route = req[q].route
                        \/ req[q].route \in missed'[req[q].srv]
  PROVE  MoneyOK'
<1>1. PaidTimeKept'
  BY DEF MoneyOK, PaidTimeKept, Same
<1>2. SnapshotsTrue'
  <2> SUFFICES ASSUME NEW s \in Programs, NEW r \in Routes, r \notin missed'[s],
                      ~(\E x \in Requests : req'[x].srv = s /\ req'[x].route = r /\ Unloaded(x)')
               PROVE  Same(snap'[s][r], tenant'[r])
    BY DEF SnapshotsTrue, Same
  <2>1. r \notin missed[s]
    OBVIOUS
  <2>2. ASSUME NEW x \in Requests, req[x].srv = s, req[x].route = r, Unloaded(x)
        PROVE  FALSE
    <3>1. CASE x = q
      BY <2>2, <3>1
    <3>2. CASE x # q
      BY <2>2, <3>2 DEF Unloaded
    <3> QED
      BY <3>1, <3>2
  <2>3. Same(snap[s][r], tenant[r])
    BY <2>1, <2>2 DEF MoneyOK, SnapshotsTrue
  <2> QED
    BY <2>3 DEF Same
<1>3. BasesTrue'
  <2> SUFFICES ASSUME NEW x \in Requests, req'[x].pc = "extend", req'[x].route \notin raced',
                      tenant'[req'[x].route] # None
               PROVE  req'[x].base = Later(tenant'[req'[x].route].expires, req'[x].at)
    BY DEF BasesTrue, Later
  <2>1. req'[x] = req[x]
    OBVIOUS
  <2>2. req[x].route \in Routes
    BY <2>1 DEF IInv, RequestOK, Shape, Ops, RowOps, RuleOps, AddressOps
  <2> QED
    BY <2>1, <2>2 DEF MoneyOK, BasesTrue, Same
<1> QED
  BY <1>1, <1>2, <1>3 DEF MoneyOK

\* ... a program loading its snapshot ...
LEMMA LoadMoney ==
  ASSUME IInv, MoneyOK, NEW s \in Programs,
         \A x \in Requests : req'[x] = req[x] \/ (req[x].srv = s /\ req'[x].pc # "extend"),
         snap' = [snap EXCEPT ![s] = tenant], missed' = [missed EXCEPT ![s] = {}],
         raced' = raced, paid' = paid, tenant' = tenant
  PROVE  MoneyOK'
<1>0. /\ snap \in [Programs -> [Routes -> Rows \cup {None}]]
      /\ missed \in [Programs -> SUBSET Routes]
  BY DEF IInv, TypeOK, TablesOK
<1>1. PaidTimeKept'
  BY DEF MoneyOK, PaidTimeKept
<1>2. SnapshotsTrue'
  <2> SUFFICES ASSUME NEW z \in Programs, NEW r \in Routes, r \notin missed'[z],
                      ~(\E x \in Requests : req'[x].srv = z /\ req'[x].route = r /\ Unloaded(x)')
               PROVE  Same(snap'[z][r], tenant'[r])
    BY DEF SnapshotsTrue, Same
  <2>1. CASE z = s
    BY <1>0, <2>1 DEF Same
  <2>2. CASE z # s
    <3>1. snap'[z] = snap[z] /\ missed'[z] = missed[z]
      BY <1>0, <2>2
    <3>2. ~(\E x \in Requests : req[x].srv = z /\ req[x].route = r /\ Unloaded(x))
      BY <2>2 DEF Unloaded
    <3> QED
      BY <3>1, <3>2 DEF MoneyOK, SnapshotsTrue
  <2> QED
    BY <2>1, <2>2
<1>3. BasesTrue'
  <2> SUFFICES ASSUME NEW x \in Requests, req'[x].pc = "extend", req'[x].route \notin raced',
                      tenant'[req'[x].route] # None
               PROVE  req'[x].base = Later(tenant'[req'[x].route].expires, req'[x].at)
    BY DEF BasesTrue, Later
  <2> QED
    BY DEF MoneyOK, BasesTrue
<1> QED
  BY <1>1, <1>2, <1>3 DEF MoneyOK

\* ... and a request committing an expiry, which every other program misses,
\* as Grant has it.
LEMMA GrantMoney ==
  ASSUME IInv, MoneyOK, NEW q \in Requests, NEW full, NEW row,
         req[q].pc \in {"create", "extend", "date"}, req[q].op \in ExpiryOps,
         req[q].route \in Routes, req[q].srv \in Programs,
         \A x \in Requests \ {q} : req'[x] = req[x],
         req'[q].route = req[q].route, req'[q].srv = req[q].srv, Unloaded(q)',
         tenant'[req[q].route] = row, snap' = snap,
         \A r \in Routes \ {req[q].route} : tenant'[r] = tenant[r] /\ paid'[r] = paid[r],
         req[q].route \notin raced => row.expires = full,
         paid'[req[q].route] = full,
         raced \subseteq raced', Overlaps(q) => req[q].route \in raced',
         \A s \in Programs \ {req[q].srv} : req[q].route \in missed'[s],
         \A s \in Programs : missed[s] \subseteq missed'[s]
  PROVE  MoneyOK'
<1> DEFINE g == req[q].route
<1>0. /\ tenant \in [Routes -> Rows \cup {None}] /\ paid \in [Routes -> Int]
      /\ missed \in [Programs -> SUBSET Routes] /\ raced \subseteq Routes
  BY DEF IInv, TypeOK, TablesOK
<1>1. /\ paid'[g] = full /\ raced \subseteq raced' /\ (Overlaps(q) => g \in raced')
      /\ \A s \in Programs \ {req[q].srv} : g \in missed'[s]
      /\ \A s \in Programs : missed[s] \subseteq missed'[s]
  OBVIOUS
<1>2. PaidTimeKept'
  BY <1>0, <1>1 DEF MoneyOK, PaidTimeKept
<1>3. SnapshotsTrue'
  <2> SUFFICES ASSUME NEW s \in Programs, NEW r \in Routes, r \notin missed'[s],
                      ~(\E x \in Requests : req'[x].srv = s /\ req'[x].route = r /\ Unloaded(x)')
               PROVE  Same(snap'[s][r], tenant'[r])
    BY DEF SnapshotsTrue, Same
  <2>1. r # g
    BY <1>1
  <2>2. ~(\E x \in Requests : req[x].srv = s /\ req[x].route = r /\ Unloaded(x))
    BY <2>1 DEF Unloaded
  <2>3. Same(snap[s][r], tenant[r])
    BY <1>1, <2>2 DEF MoneyOK, SnapshotsTrue
  <2> QED
    BY <1>0, <2>1, <2>3 DEF Same
<1>4. BasesTrue'
  <2> SUFFICES ASSUME NEW x \in Requests, req'[x].pc = "extend", req'[x].route \notin raced',
                      tenant'[req'[x].route] # None
               PROVE  req'[x].base = Later(tenant'[req'[x].route].expires, req'[x].at)
    BY DEF BasesTrue, Later
  <2>1. x # q /\ req'[x] = req[x]
    BY DEF Unloaded
  <2>2. req[x].op = "base" /\ req[x].route \in Routes
    BY <2>1 DEF IInv, RequestOK, Shape, Ops, RowOps, RuleOps, AddressOps
  <2>3. req[x].route # g
    BY <1>1, <2>1, <2>2 DEF Overlaps, ExpiryOps
  <2> QED
    BY <1>0, <1>1, <2>1, <2>2, <2>3 DEF MoneyOK, BasesTrue
<1> QED
  BY <1>2, <1>3, <1>4 DEF MoneyOK

\* A renewal's base is the tenant's expiry, if its program has missed nothing.
LEMMA ReadBaseMoney ==
  ASSUME IInv, MoneyOK, NEW q \in Requests, ReadBase(q)
  PROVE  MoneyOK'
<1> DEFINE g == req[q].route
           s == req[q].srv
<1>1. /\ req[q].pc = "base" /\ Race(q, g \in missed[s])
      /\ req' = [req EXCEPT ![q].pc = "extend", ![q].base = RenewalBase(q), ![q].at = clock]
      /\ UNCHANGED <<tenant, snap, clock, paid, missed>>
  BY DEF ReadBase, db
<1>2. req \in [Requests -> ReqStates] /\ req[q] \in ReqStates /\ clock \in Nat /\ Shape(q)
      /\ tenant \in [Routes -> Rows \cup {None}]
  BY DEF IInv, TypeOK, TablesOK, RequestOK
<1>3. req[q].op = "base" /\ g \in Routes /\ s \in Programs
  BY <1>1, <1>2 DEF Shape, Ops, RowOps, RuleOps, AddressOps
<1>4. /\ req'[q].pc = "extend" /\ req'[q].base = RenewalBase(q) /\ req'[q].at = clock
      /\ req'[q].route = g /\ req'[q].srv = s
      /\ \A x \in Requests \ {q} : req'[x] = req[x]
  BY <1>1, <1>2 DEF ReqStates
<1>5. raced \subseteq raced' /\ (g \notin raced' => ~Overlaps(q) /\ g \notin missed[s])
  BY <1>1 DEF Race
<1>6. PaidTimeKept'
  BY <1>1, <1>5 DEF MoneyOK, PaidTimeKept
<1>7. SnapshotsTrue'
  <2>1. \A x \in Requests : Unloaded(x) => Unloaded(x)' /\ req'[x].srv = req[x].srv /\ req'[x].route = req[x].route
    BY <1>1, <1>4 DEF Unloaded
  <2> SUFFICES ASSUME NEW z \in Programs, NEW r \in Routes, r \notin missed'[z],
                      ~(\E x \in Requests : req'[x].srv = z /\ req'[x].route = r /\ Unloaded(x)')
               PROVE  Same(snap'[z][r], tenant'[r])
    BY DEF SnapshotsTrue, Same
  <2>2. Same(snap[z][r], tenant[r])
    BY <1>1, <2>1 DEF MoneyOK, SnapshotsTrue
  <2> QED
    BY <1>1, <2>2
<1>8. g \notin raced' /\ tenant[g] # None => RenewalBase(q) = Later(tenant[g].expires, clock)
  <2> SUFFICES ASSUME g \notin raced', tenant[g] # None
               PROVE  RenewalBase(q) = Later(tenant[g].expires, clock)
    OBVIOUS
  <2>1. ASSUME NEW x \in Requests, req[x].route = g, Unloaded(x)
        PROVE  FALSE
    BY <1>1, <1>5, <2>1 DEF Unloaded, Overlaps
  <2>2. Same(snap[s][g], tenant[g])
    BY <1>3, <1>5, <2>1 DEF MoneyOK, SnapshotsTrue
  <2> QED
    BY <2>2 DEF Same, RenewalBase, SnapshotExpiry, Later
<1>9. BasesTrue'
  <2> SUFFICES ASSUME NEW x \in Requests, req'[x].pc = "extend", req'[x].route \notin raced',
                      tenant'[req'[x].route] # None
               PROVE  req'[x].base = Later(tenant'[req'[x].route].expires, req'[x].at)
    BY DEF BasesTrue, Later
  <2>1. CASE x = q
    BY <1>1, <1>4, <1>8, <2>1
  <2>2. CASE x # q
    BY <1>1, <1>4, <1>5, <2>2 DEF MoneyOK, BasesTrue
  <2> QED
    BY <2>1, <2>2
<1> QED
  BY <1>6, <1>7, <1>9 DEF MoneyOK

\* What a commit marks.
LEMMA GrantEffect ==
  ASSUME IInv, NEW q \in Requests, NEW full, Grant(q, full)
  PROVE  /\ req[q].route \in Routes => paid'[req[q].route] = full
         /\ \A r \in Routes \ {req[q].route} : paid'[r] = paid[r]
         /\ raced \subseteq raced' /\ (Overlaps(q) => req[q].route \in raced')
         /\ \A s \in Programs \ {req[q].srv} : req[q].route \in missed'[s]
         /\ \A s \in Programs : missed[s] \subseteq missed'[s]
  BY DEF IInv, TypeOK, TablesOK, Grant, Miss, Race

\* An expiry is committed: when nothing was missed it is what was paid for.
LEMMA CommitMoney ==
  ASSUME IInv, MoneyOK, NEW q \in Requests, CreateTenant(q) \/ Extend(q)
  PROVE  MoneyOK'
<1> DEFINE g == req[q].route
           n == Following(req[q].srv, req[q].pc)
<1>1. req[q].pc \in {"create", "extend", "date"} /\ Proceed(q) /\ snap' = snap
  BY DEF CreateTenant, Extend, Execute
<1>2. req \in [Requests -> ReqStates] /\ req[q] \in ReqStates /\ Shape(q)
      /\ tenant \in [Routes -> Rows \cup {None}] /\ paid \in [Routes -> Int]
  BY DEF IInv, TypeOK, TablesOK, RequestOK
<1>3. g \in Routes /\ req[q].srv \in Programs /\ req[q].op \in ExpiryOps
  BY <1>1, <1>2 DEF Shape, Ops, RowOps, RuleOps, AddressOps, ExpiryOps
<1>4. n \in {"attach", "activate", "reload"}
  BY <1>1 DEF Following
<1> HIDE DEF n
<1>5. /\ req'[q].pc = n /\ req'[q].route = g /\ req'[q].srv = req[q].srv /\ req'[q].op = req[q].op
      /\ \A x \in Requests \ {q} : req'[x] = req[x]
  BY <1>1, <1>2, <1>4 DEF Proceed, Advance, ReqStates, n
<1>6. Unloaded(q)'
  BY <1>3, <1>4, <1>5 DEF Unloaded
<1>7. CASE CreateTenant(q)
  <2>1. PICK n1, p1 : /\ tenant' = [tenant EXCEPT ![g] = [expires |-> n1, active |-> TRUE, paused |-> p1]]
                      /\ Grant(q, n1)
    BY <1>7 DEF CreateTenant
  <2>2. /\ tenant'[g].expires = n1
        /\ \A r \in Routes \ {g} : tenant'[r] = tenant[r]
    BY <1>2, <1>3, <2>1
  <2> QED
    BY <1>1, <1>3, <1>5, <1>6, <2>1, <2>2, GrantEffect, GrantMoney
<1>8. CASE Extend(q) /\ tenant[g] = None
  <2>1. tenant' = tenant /\ UNCHANGED money
    BY <1>8 DEF Extend, SetRow
  <2>2. ~Unloaded(q)
    BY <1>1 DEF Unloaded
  <2> QED
    BY <1>1, <1>4, <1>5, <2>1, <2>2, CalmMoney DEF Same, money
<1>9. CASE Extend(q) /\ tenant[g] # None
  <2>1. tenant[g] \in Rows
    BY <1>2, <1>3, <1>9
  <2>2. PICK e, full, row :
          /\ row = [tenant[g] EXCEPT !.expires = e] /\ tenant' = [tenant EXCEPT ![g] = row]
          /\ Grant(q, full) /\ (g \notin raced => e = full)
    <3>1. CASE req[q].pc = "date"
      BY <1>9, <3>1 DEF Extend, Execute, SetRow
    <3>2. CASE req[q].pc = "extend"
      <4>1. /\ SetRow(g, [tenant[g] EXCEPT !.expires = req[q].base + req[q].amount])
            /\ Grant(q, Later(paid[g], req[q].at) + req[q].amount)
        BY <1>9, <3>2 DEF Extend, Execute
      <4>2. g \notin raced => req[q].base = Later(paid[g], req[q].at)
        BY <1>3, <1>9, <3>2 DEF MoneyOK, BasesTrue, PaidTimeKept
      <4> QED
        BY <1>9, <4>1, <4>2 DEF SetRow
    <3> QED
      BY <1>9, <3>1, <3>2 DEF Extend, Execute
  <2>3. /\ tenant'[g].expires = e
        /\ \A r \in Routes \ {g} : tenant'[r] = tenant[r]
    BY <1>2, <1>3, <2>1, <2>2 DEF Rows
  <2>4. Grant(q, full) /\ (g \notin raced => e = full)
    BY <2>2
  <2> QED
    BY <1>1, <1>3, <1>5, <1>6, <2>3, <2>4, GrantEffect, GrantMoney
<1> QED
  BY <1>7, <1>8, <1>9

\* The other statements.
LEMMA StatementMoney ==
  ASSUME IInv, MoneyOK, NEW q \in Requests, Statement(q)
  PROVE  MoneyOK'
<1>1. /\ req \in [Requests -> ReqStates] /\ req[q] \in ReqStates /\ Shape(q)
      /\ tenant \in [Routes -> Rows \cup {None}] /\ missed \in [Programs -> SUBSET Routes]
  BY DEF IInv, TypeOK, TablesOK, RequestOK
<1>2. \A x \in Requests \ {q} : req'[x] = req[x]
  BY WritesAllowed
<1>3. ASSUME Proceed(q), req[q].pc \notin {"idle", "base"}
      PROVE  /\ req'[q].pc # "extend"
             /\ \/ req'[q].pc = "idle"
                \/ /\ req'[q].srv = req[q].srv /\ req'[q].route = req[q].route /\ req'[q].op = req[q].op
                   /\ req'[q].pc = Following(req[q].srv, req[q].pc)
  BY <1>1, <1>3 DEF Proceed, Advance, NoReq, ReqStates, Following
<1>4. CASE AttachTenant(q)
  <2>1. Unloaded(q)'
    BY <1>1, <1>3, <1>4 DEF AttachTenant, Execute, Following, Shape, Unloaded, Proceed, Advance, ReqStates,
                            Ops, RowOps, RuleOps, AddressOps, ExpiryOps
  <2>2. req'[q].pc # "extend" /\ req'[q].srv = req[q].srv /\ req'[q].route = req[q].route
    BY <1>3, <1>4, <2>1 DEF AttachTenant, Execute, Unloaded
  <2> QED
    BY <1>2, <1>4, <2>1, <2>2, CalmMoney DEF AttachTenant, Execute, money, Same
<1>5. CASE AttachRefused(q)
  <2>1. /\ req'[q].pc = "idle" /\ UNCHANGED <<tenant, snap, paid, raced>> /\ Miss(q, {req[q].srv})
        /\ req[q].pc = "attach"
    BY <1>1, <1>5 DEF AttachRefused, NoReq, db
  <2>2. req[q].srv \in Programs
    BY <1>1, <2>1 DEF Shape
  <2>3. /\ \A s \in Programs : missed[s] \subseteq missed'[s]
        /\ req[q].route \in missed'[req[q].srv]
    BY <1>1, <2>1, <2>2 DEF Miss
  <2> QED
    BY <1>2, <2>1, <2>3, CalmMoney DEF Same
<1>6. CASE SetStatus(q) \/ PauseFiltering(q)
  <2>1. /\ req[q].pc \in {"activate", "suspend", "pause"} /\ Proceed(q)
        /\ UNCHANGED <<snap, paid, missed, raced>>
    BY <1>6 DEF SetStatus, PauseFiltering, Execute, money
  <2>2. \A r \in Routes : Same(tenant'[r], tenant[r])
    <3>1. req[q].route \in Routes
      BY <1>1, <2>1 DEF Shape, Ops, RowOps, RuleOps, AddressOps
    <3>2. tenant[req[q].route] \in Rows \cup {None}
      BY <1>1, <3>1
    <3>3. tenant[req[q].route] # None =>
            \A v : /\ [tenant[req[q].route] EXCEPT !.active = v].expires = tenant[req[q].route].expires
                   /\ [tenant[req[q].route] EXCEPT !.paused = v].expires = tenant[req[q].route].expires
      BY <3>2 DEF Rows
    <3>4. tenant[req[q].route] # None => tenant'[req[q].route] # None
      <4>1. \A a \in BOOLEAN : tenant[req[q].route] # None => [tenant[req[q].route] EXCEPT !.active = a] \in Rows
        BY <3>2 DEF Rows
      <4>2. tenant[req[q].route] # None => [tenant[req[q].route] EXCEPT !.paused = req[q].amount] \in Rows
        BY <1>1, <3>2 DEF Rows, ReqStates
      <4> QED
        BY <1>1, <1>6, <3>1, <4>1, <4>2, TenantAdminAssumption DEF SetStatus, PauseFiltering, SetRow
    <3>5. \A r \in Routes \ {req[q].route} : tenant'[r] = tenant[r]
      BY <1>1, <1>6 DEF SetStatus, PauseFiltering, SetRow
    <3>6. tenant[req[q].route] = None => tenant'[req[q].route] = None
      BY <1>6 DEF SetStatus, PauseFiltering, SetRow
    <3>7. tenant[req[q].route] # None => tenant'[req[q].route].expires = tenant[req[q].route].expires
      <4>1. ASSUME tenant[req[q].route] # None
            PROVE  \E v : \/ tenant'[req[q].route] = [tenant[req[q].route] EXCEPT !.active = v]
                          \/ tenant'[req[q].route] = [tenant[req[q].route] EXCEPT !.paused = v]
        BY <1>1, <1>6, <3>1, <4>1 DEF SetStatus, PauseFiltering, SetRow
      <4> QED
        BY <3>3, <4>1
    <3> QED
      BY <3>4, <3>5, <3>6, <3>7 DEF Same
  <2>3. Unloaded(q) => Unloaded(q)' /\ req'[q].srv = req[q].srv /\ req'[q].route = req[q].route
    BY <1>1, <2>1 DEF Unloaded, Proceed, Advance, Following, ReqStates
  <2> QED
    BY <1>2, <1>3, <2>1, <2>2, <2>3, CalmMoney
<1>7. CASE WriteRule(q) \/ WriteBinding(q) \/ CreateCustomer(q) \/ Record(q)
  <2>1. /\ req[q].pc \in RuleOps \cup AddressOps \cup {"customer", "audit"} /\ Proceed(q)
        /\ UNCHANGED <<tenant, snap, money>>
    BY <1>7 DEF WriteRule, WriteBinding, CreateCustomer, Record, Execute, RuleOps, AddressOps, hist
  <2>2. ~Unloaded(q) /\ req[q].pc \notin {"idle", "base"}
    BY <2>1 DEF Unloaded, RuleOps, AddressOps
  <2> QED
    BY <1>2, <1>3, <2>1, <2>2, CalmMoney DEF money, Same
<1>8. CASE Reload(q)
  <2>1. /\ req[q].pc = "reload" /\ Proceed(q) /\ req[q].srv \in Programs
        /\ snap' = [snap EXCEPT ![req[q].srv] = tenant] /\ missed' = [missed EXCEPT ![req[q].srv] = {}]
        /\ UNCHANGED <<tenant, paid, raced>>
    BY <1>1, <1>8 DEF Reload, Load, Shape, db
  <2> QED
    BY <1>2, <1>3, <2>1, LoadMoney
<1>9. CASE StatementFails(q)
  <2>1. /\ req[q].pc \notin {"idle", "base"} /\ UNCHANGED <<tenant, snap, paid, raced>>
    BY <1>9 DEF StatementFails, db
  <2>2. req'[q].pc # "extend"
    BY <1>1, <1>3, <1>9, <2>1 DEF StatementFails, NoReq
  <2>3. CASE req[q].pc \in {"attach", "reload"} /\ req[q].op \in ExpiryOps
    <3>1. Miss(q, {req[q].srv}) /\ req[q].srv \in Programs
      BY <1>1, <1>9, <2>3 DEF StatementFails, Shape
    <3>2. /\ \A s \in Programs : missed[s] \subseteq missed'[s]
          /\ req[q].route \in missed'[req[q].srv]
      BY <1>1, <3>1 DEF Miss
    <3> QED
      BY <1>2, <2>1, <2>2, <3>2, CalmMoney DEF Same
  <2>4. CASE ~(req[q].pc \in {"attach", "reload"} /\ req[q].op \in ExpiryOps)
    <3>1. missed' = missed
      BY <1>9, <2>4 DEF StatementFails
    <3>2. Unloaded(q) => req[q].pc = "activate" /\ Proceed(q)
      BY <1>9, <2>4 DEF Unloaded, StatementFails
    <3>3. Unloaded(q) => Unloaded(q)' /\ req'[q].srv = req[q].srv /\ req'[q].route = req[q].route
      BY <1>1, <3>2 DEF Unloaded, Proceed, Advance, Following, ReqStates
    <3> QED
      BY <1>2, <2>1, <2>2, <3>1, <3>3, CalmMoney DEF Same
  <2> QED
    BY <2>3, <2>4
<1> QED
  BY <1>4, <1>5, <1>6, <1>7, <1>8, <1>9, CommitMoney, ReadBaseMoney DEF Statement

\* A request that begins commits nothing.
LEMMA BeginMoney ==
  ASSUME IInv, MoneyOK, NEW q \in Requests, Handle(q)
  PROVE  MoneyOK'
<1>1. req \in [Requests -> ReqStates]
  BY DEF IInv, TypeOK
<1> DEFINE starts == Ops
<1>2. \E srv, p, route, to, amount : \E op \in starts : Begin(q, srv, p, op, route, to, amount)
  <2>1. /\ {"create", "base", "date", "suspend", "pause", "customer"} \subseteq starts
        /\ {"allow", "disallow", "override", "restore", "bind", "release"} \subseteq starts
    BY DEF Ops, RowOps, RuleOps, AddressOps
  <2> HIDE DEF starts
  <2>2. CASE handleCreateTenant(q) \/ handleTenantIssue(q) \/ createTenant(q)
    BY <2>1, <2>2 DEF handleCreateTenant, handleTenantIssue, IssueTo, createTenant
  <2>3. CASE \/ handleExtendTenant(q) \/ handleTenantExtend(q) \/ extendTenant(q)
             \/ handleRevokeTenant(q) \/ handleTenantRevoke(q) \/ revokeTenant(q)
             \/ handlePauseTenant(q) \/ handlePause(q) \/ pauseTenant(q)
    BY <2>1, <2>3 DEF OnTenant, handleExtendTenant, handleTenantExtend, extendTenant,
       handleRevokeTenant, handleTenantRevoke, revokeTenant, handlePauseTenant, handlePause, pauseTenant
  <2>4. CASE \/ handleAddAllow(q) \/ handleRemoveAllow(q) \/ handleAllowAdd(q) \/ handleAllowRemove(q)
    BY <2>1, <2>4 DEF OnTenant, handleAddAllow, handleRemoveAllow, handleAllowAdd, handleAllowRemove
  <2>5. CASE \/ handleSetOverride(q) \/ handleRemoveOverride(q) \/ setOverride(q) \/ addAllow(q)
             \/ handleOverrideSet(q) \/ handleOverrideRemove(q) \/ handleTriageAllow(q)
    BY <2>1, <2>5 DEF OnScope, handleSetOverride, handleRemoveOverride, setOverride, addAllow,
       handleOverrideSet, handleOverrideRemove, handleTriageAllow
  <2>6. CASE handleCreateCustomer(q) \/ handleDashboardCustomerCreate(q)
    BY <2>1, <2>6 DEF NewCustomer, handleCreateCustomer, handleDashboardCustomerCreate
  <2>7. CASE \/ handleRegisterIP(q) \/ handleReleaseIP(q) \/ handleUpdateIP(q)
             \/ registerIP(q) \/ releaseIP(q)
    BY <2>1, <2>7 DEF OnAddress, handleRegisterIP, handleReleaseIP, handleUpdateIP, registerIP, releaseIP
  <2> QED
    BY <2>2, <2>3, <2>4, <2>5, <2>6, <2>7 DEF Handle
<1>3. PICK op \in Ops :
        /\ req[q].pc = "idle" /\ req'[q].pc = op /\ \A x \in Requests \ {q} : req'[x] = req[x]
        /\ UNCHANGED <<tenant, snap, paid, missed, raced>>
  BY <1>1, <1>2 DEF Begin, db, hist, money
<1>4. ~Unloaded(q) /\ req'[q].pc # "extend"
  BY <1>3 DEF Unloaded, Ops, RowOps, RuleOps, AddressOps
<1> QED
  BY <1>3, <1>4, CalmMoney DEF Same

\* All steps.
LEMMA NextMoney == IInv /\ MoneyOK /\ [Next]_vars => MoneyOK'
<1> SUFFICES ASSUME IInv, MoneyOK, [Next]_vars
             PROVE  MoneyOK'
  OBVIOUS
<1>1. CASE WatchReload
  BY <1>1, LoadMoney DEF WatchReload, Load, Programs, db
<1>2. ASSUME NEW s \in Programs, Crash(s)
      PROVE  MoneyOK'
  <2>1. \A x \in Requests : req'[x] = req[x] \/ (req[x].srv = s /\ req'[x].pc # "extend")
    BY <1>2 DEF Crash, NoReq
  <2> QED
    BY <1>2, <2>1, LoadMoney DEF Crash, Load, db
<1>3. CASE Tick \/ UNCHANGED vars
  <2>1. UNCHANGED <<tenant, snap, req, paid, missed, raced>>
    BY <1>3 DEF Tick, vars, db, hist, money
  <2> QED
    BY <2>1 DEF MoneyOK, PaidTimeKept, SnapshotsTrue, BasesTrue, Same, Unloaded
<1> QED
  BY <1>1, <1>2, <1>3, StatementMoney, BeginMoney DEF Next

------------------------------------------------------------------------------
(* The theorems.                                                           *)

\* The row, customer and rules a request writes are those of a tenant its
\* principal may access at that moment, or is creating; an address is only
\* bound to such a tenant; rules for everyone are an administrator's
\* (requireTenantAccess, tenantAccess, and what runs after them).
THEOREM TenantsIsolated == Spec => Isolation
<1>1. IInv /\ [Next]_vars =>
        [\A q \in Requests : req'[q] # req[q] =>
           /\ \A r \in Routes :
                \/ tenant'[r] = tenant[r] /\ attached'[r] = attached[r] /\ RulesOf(r)' = RulesOf(r)
                \/ CanAccessTenant(req[q].by, r)
                \/ req[q].op = "create" /\ req[q].route = r
           /\ \A ip \in IPs : \/ binding'[ip] \in {binding[ip], None}
                               \/ CanAccessTenant(req[q].by, binding'[ip])
           /\ RulesOf(Global)' # RulesOf(Global) => req[q].by \in Admins]_vars
  <2> SUFFICES ASSUME IInv, Next, NEW q \in Requests, req'[q] # req[q]
               PROVE  /\ \A r \in Routes :
                           \/ /\ tenant'[r] = tenant[r] /\ attached'[r] = attached[r]
                              /\ RulesOf(r)' = RulesOf(r)
                           \/ CanAccessTenant(req[q].by, r)
                           \/ req[q].op = "create" /\ req[q].route = r
                      /\ \A ip \in IPs : \/ binding'[ip] \in {binding[ip], None}
                                          \/ CanAccessTenant(req[q].by, binding'[ip])
                      /\ RulesOf(Global)' # RulesOf(Global) => req[q].by \in Admins
    OBVIOUS
  <2>1. ASSUME NEW x \in Requests, Statement(x)
        PROVE  /\ \A r \in Routes :
                    \/ /\ tenant'[r] = tenant[r] /\ attached'[r] = attached[r]
                       /\ RulesOf(r)' = RulesOf(r)
                    \/ CanAccessTenant(req[q].by, r)
                    \/ req[q].op = "create" /\ req[q].route = r
               /\ \A ip \in IPs : \/ binding'[ip] \in {binding[ip], None}
                                   \/ CanAccessTenant(req[q].by, binding'[ip])
               /\ RulesOf(Global)' # RulesOf(Global) => req[q].by \in Admins
    <3>1. x = q
      BY <2>1, WritesAllowed
    <3> QED
      BY <2>1, <3>1, WritesAllowed
  <2>2. CASE UNCHANGED <<tenant, attached, rules, binding>>
    BY <2>2 DEF RulesOf
  <2>3. (\E x \in Requests : Statement(x)) \/ UNCHANGED <<tenant, attached, rules, binding>>
    <3>1. ASSUME NEW x \in Requests, Handle(x)
          PROVE  UNCHANGED <<tenant, attached, rules, binding>>
      <4> USE DEF Begin, db
      <4>1. CASE handleCreateTenant(x) \/ handleTenantIssue(x) \/ createTenant(x)
        BY <4>1 DEF handleCreateTenant, handleTenantIssue, IssueTo, createTenant
      <4>2. CASE \/ handleExtendTenant(x) \/ handleTenantExtend(x) \/ extendTenant(x)
                 \/ handleRevokeTenant(x) \/ handleTenantRevoke(x) \/ revokeTenant(x)
                 \/ handlePauseTenant(x) \/ handlePause(x) \/ pauseTenant(x)
        BY <4>2 DEF OnTenant, handleExtendTenant, handleTenantExtend, extendTenant,
           handleRevokeTenant, handleTenantRevoke, revokeTenant, handlePauseTenant,
           handlePause, pauseTenant
      <4>3. CASE \/ handleAddAllow(x) \/ handleRemoveAllow(x)
                 \/ handleAllowAdd(x) \/ handleAllowRemove(x)
        BY <4>3 DEF OnTenant, handleAddAllow, handleRemoveAllow, handleAllowAdd, handleAllowRemove
      <4>4. CASE \/ handleSetOverride(x) \/ handleRemoveOverride(x) \/ setOverride(x)
                 \/ addAllow(x) \/ handleOverrideSet(x) \/ handleOverrideRemove(x)
                 \/ handleTriageAllow(x)
        BY <4>4 DEF OnScope, handleSetOverride, handleRemoveOverride, setOverride, addAllow,
           handleOverrideSet, handleOverrideRemove, handleTriageAllow
      <4>5. CASE handleCreateCustomer(x) \/ handleDashboardCustomerCreate(x)
        BY <4>5 DEF NewCustomer, handleCreateCustomer, handleDashboardCustomerCreate
      <4>6. CASE \/ handleRegisterIP(x) \/ handleReleaseIP(x) \/ handleUpdateIP(x)
                 \/ registerIP(x) \/ releaseIP(x)
        BY <4>6 DEF OnAddress, handleRegisterIP, handleReleaseIP, handleUpdateIP, registerIP, releaseIP
      <4> QED
        BY <3>1, <4>1, <4>2, <4>3, <4>4, <4>5, <4>6 DEF Handle
    <3> QED
      BY <3>1 DEF Next, WatchReload, Tick, Crash, db
  <2> QED
    BY <2>1, <2>2, <2>3
<1> QED
  BY <1>1, SpecIInv, PTL DEF Spec, Isolation

\* The audit log names only what happened, and what it says of a creation
\* stays true (audit.go Record).
THEOREM AuditIsTruthful == Spec => []AuditTruthful
<1>1. IInv => AuditTruthful
  BY DEF IInv, LogOK, AuditTruthful
<1> QED
  BY <1>1, SpecIInv, PTL

\* A tenant expires when its renewals say it does, unless one of them was
\* computed at a program that had missed another's commit or failed to reload
\* after its own, or while another was under way (handleExtendTenant, its
\* siblings, and the Reload each ends with).
THEOREM RenewalsAddUp == Spec => []PaidTimeKept
<1>1. Init => MoneyOK
  BY InitIInv, InitMoney
<1>2. IInv /\ MoneyOK /\ [Next]_vars => MoneyOK'
  BY NextMoney
<1>3. MoneyOK => PaidTimeKept
  BY DEF MoneyOK
<1> QED
  BY <1>1, <1>2, <1>3, SpecIInv, PTL DEF Spec
==============================================================================
