------------------------------ MODULE Migrations ------------------------------
(* Opening the shared database (resolver/migrate.go, OpenStore and          *)
(* OpenStoreReadOnly of resolver/store.go) by several processes at once,    *)
(* each under a supervisor that starts it again when it could not.          *)
(*                                                                         *)
(* Every process knows the migrations of the packages it is linked with:    *)
(* the resolver its own, the others the backend's as well.  It reads which  *)
(* are recorded, once, and then runs the rest in transactions of their own. *)
EXTENDS Integers, FiniteSets

CONSTANTS
  Procs,       \* processes that open the database
  ReadOnly,    \* those that may not write it: the SNI proxy
  Known,       \* the versions each process knows
  MaxFaults    \* bound: statements that fail, processes that stop

ASSUME MigrationsAssumption ==
  /\ ReadOnly \subseteq Procs
  /\ Known \in [Procs -> SUBSET (Nat \ {0})]
  /\ MaxFaults \in Nat

\* The other programs add to the migrations they share with the resolver, and
\* number their own from 100: nobody knows one without all that are lower.
ASSUME KnownFromTheFirst ==
  \A p, o \in Procs : \A v \in Known[p], w \in Known[o] : w < v => w \in Known[p]

VARIABLES
  schema,    \* the versions schema_migrations has
  applied,   \* history: how often the statements of each version were committed
  store,     \* each process: [pc, done], done being what it has read as recorded
  faults

migrationVars == <<schema, applied, store, faults>>

Versions == UNION {Known[p] : p \in Procs}
Closed   == [pc |-> "closed", done |-> {}]

MigrationsInit ==
  /\ schema = {}
  /\ applied = [v \in Versions |-> 0]
  /\ store = [p \in Procs |-> Closed]
  /\ faults = 0

Highest(S) == IF S = {} THEN 0 ELSE CHOOSE v \in S : \A w \in S : w <= v

\* Mutant: a process remembers what it read before it failed.
ReadVersions_Once(p) ==
  IF store[p].done = {} THEN schema ELSE store[p].done

\* SELECT version FROM schema_migrations.
ReadVersions(p) == schema

\* The first part of migrate.
OpenStore(p) ==
  /\ store[p].pc = "closed" /\ p \notin ReadOnly
  /\ store' = [store EXCEPT ![p] = [pc |-> "migrating", done |-> ReadVersions(p)]]
  /\ UNCHANGED <<schema, applied, faults>>

Pending(p) == Known[p] \ store[p].done
Lowest(S)  == {v \in S : \A w \in S : v <= w}

\* Mutant: the version is recorded with INSERT OR IGNORE.
Conflict_Ignored(v) == FALSE

\* Another process has recorded it since: the primary key refuses the row.
Conflict(v) == v \in schema

\* The lowest pending one, statements and record, in one transaction; on a
\* conflict it is rolled back, and the process exits with an error.
Migrate(p) ==
  /\ store[p].pc = "migrating"
  /\ \E v \in Lowest(Pending(p)) :
       IF Conflict(v)
       THEN /\ store' = [store EXCEPT ![p].pc = "closed"]
            /\ UNCHANGED <<schema, applied>>
       ELSE /\ schema' = schema \cup {v}
            /\ applied' = [applied EXCEPT ![v] = @ + 1]
            /\ store' = [store EXCEPT ![p].done = @ \cup {v}]
  /\ UNCHANGED faults

\* Nothing is pending: the first Reload, and the process serves.
Opened(p) ==
  /\ store[p].pc = "migrating" /\ Pending(p) = {}
  /\ store' = [store EXCEPT ![p].pc = "open"]
  /\ UNCHANGED <<schema, applied, faults>>

\* The proxy wants a schema to be there, whatever its version.
OpenStoreReadOnly(p) ==
  /\ store[p].pc = "closed" /\ p \in ReadOnly
  /\ Highest(schema) # 0
  /\ store' = [store EXCEPT ![p].pc = "open"]
  /\ UNCHANGED <<schema, applied, faults>>

\* The database is locked for too long, or the process is killed: a
\* transaction under way is rolled back.
MigrationFails(p) ==
  /\ store[p].pc = "migrating" /\ faults < MaxFaults
  /\ faults' = faults + 1
  /\ store' = [store EXCEPT ![p].pc = "closed"]
  /\ UNCHANGED <<schema, applied>>

\* A process that serves ends, by an error or a signal.
ProcessStops(p) ==
  /\ store[p].pc = "open" /\ faults < MaxFaults
  /\ faults' = faults + 1
  /\ store' = [store EXCEPT ![p].pc = "closed"]
  /\ UNCHANGED <<schema, applied>>

MigrationStep(p) ==
  OpenStore(p) \/ Migrate(p) \/ Opened(p) \/ OpenStoreReadOnly(p) \/ MigrationFails(p)

\* checkSchema: the database is where this binary's own migrations end.
checkSchema(p) == Highest(schema) = Highest(Known[p])

------------------------------------------------------------------------------
(* Properties.                                                             *)

\* However the starts of the processes overlap, fail and are repeated, every
\* recorded migration was run exactly once, one that is not recorded left
\* nothing behind, and none was run before a lower one
\* (migrate.go migrate; version 103 is an ALTER TABLE, which cannot be repeated).
MigratedOnceInOrder ==
  \A v \in Versions :
    /\ applied[v] = (IF v \in schema THEN 1 ELSE 0)
    /\ v \in schema => \A w \in Versions : w < v => w \in schema

\* Processes that start together may fail over each other's migrations, and
\* still all of them come up.
AllComeUp == <>(\A p \in Procs : store[p].pc = "open")
==============================================================================
