------------------------------ MODULE ServerLife ------------------------------
(* The life of the processes: the shared database is opened and migrated    *)
(* (Migrations), and the resolver starts its listeners and closes them      *)
(* (Listeners).  A process that ends is started again by its supervisor,    *)
(* and begins with OpenStore.                                               *)
EXTENDS Migrations, Listeners

CONSTANT Resolver

ASSUME ResolverAssumption == Resolver \in Procs \ ReadOnly

vars == <<migrationVars, listenerVars>>

Init == MigrationsInit /\ ListenersInit

\* main: New opens the store, then Run.
Run == store[Resolver].pc = "open" /\ Start /\ UNCHANGED migrationVars

\* Run returns, Close closes the store, and the process is gone.
RunReturns ==
  /\ Exit
  /\ store' = [store EXCEPT ![Resolver] = Closed]
  /\ UNCHANGED <<schema, applied, faults>>

\* The resolver is killed while it runs.
Killed ==
  /\ phase # "off" /\ ProcessStops(Resolver)
  /\ ListenersOff("off")

Next ==
  \/ \E p \in Procs :
       (MigrationStep(p) \/ (p # Resolver /\ ProcessStops(p))) /\ UNCHANGED listenerVars
  \/ Run
  \/ ListenerStep /\ UNCHANGED migrationVars
  \/ RunReturns \/ Killed

Spec == Init /\ [][Next]_vars

\* Supervisors start what has stopped, what has been started goes on, and Run
\* takes an error from fail.
Fairness ==
  /\ \A p \in Procs :
       WF_vars((OpenStore(p) \/ Migrate(p) \/ Opened(p) \/ OpenStoreReadOnly(p))
               /\ UNCHANGED listenerVars)
  /\ WF_vars(Run) /\ WF_vars(RunReturns)
  /\ \A k \in All : WF_vars((track(k) \/ ListenAndServe(k)) /\ UNCHANGED migrationVars)
  /\ WF_vars((ListenDoT \/ SetServer) /\ UNCHANGED migrationVars)
  /\ WF_vars((failed /\ Stop) /\ UNCHANGED migrationVars)
  /\ WF_vars((Shutdown \/ RunCloser \/ ShutdownAdmin) /\ UNCHANGED migrationVars)

FairSpec == Spec /\ Fairness

\* "reports whether the resolver can actually serve traffic" (health.go:77-78):
\* all else being well, a resolver that serves is reported as ready.  It fails
\* once another process has migrated the database they share: checkSchema then
\* finds a version above the resolver's own last one, for good.
ReadyWhenServing ==
  (store[Resolver].pc = "open" /\ \A k \in All : lst[k] = "serving") => checkSchema(Resolver)
==============================================================================
