-------------------------------- MODULE Usage --------------------------------
(***************************************************************************)
(* The usage accounting of the resolver: UsageCollector (resolver/         *)
(* usage.go), RecordUsage (resolver/store.go) and the shutdown order of    *)
(* Server.Run (resolver/server.go).                                        *)
(*                                                                         *)
(* Queries add to counters in memory.  One flusher goroutine takes the     *)
(* counters under the lock, writes them in one transaction outside it, and *)
(* merges them back when the write fails; queries go on counting all the   *)
(* while.  At shutdown the stop channel is closed, which asks the flusher  *)
(* for a last flush, and the process exits two seconds later: connections  *)
(* that are open at that moment keep asking until the exit.                *)
(*                                                                         *)
(* A route that is absent from a counter map and one whose counters are    *)
(* all zero are the same here, since Record leaves none at zero.           *)
(***************************************************************************)
EXTENDS Integers

CONSTANTS
  Routes,       \* route identifiers
  MaxQueries,   \* bound: queries recorded
  MaxErrors,    \* bound: database writes that fail
  MaxStarts     \* bound: starts of the process after the first

ASSUME UsageAssumption ==
  MaxQueries \in Nat /\ MaxErrors \in Nat /\ MaxStarts \in Nat

Counters == {"queries", "blocked", "overridden", "throttled"}
Fields   == Counters \cup {"lastSeen"}
Delta    == [Fields -> Nat]
Zero     == [f \in Fields |-> 0]

\* What Resolve reports of one query: at most one of its three flags is set.
Outcomes == {"plain", "blocked", "overridden", "throttled"}

Later(s, t) == IF s < t THEN t ELSE s

\* The sum of two deltas: counts add up, the last sighting is the later one.
Merge(p, d) ==
  [f \in Fields |-> IF f = "lastSeen" THEN Later(p[f], d[f]) ELSE p[f] + d[f]]

MergeAll(P, D) == [r \in Routes |-> Merge(P[r], D[r])]

VARIABLES
  pending,   \* pending[r]: counted and not taken by a flush
  flusher,   \* pc, final (this flush was asked by stop), batch, rows executed
  usage,     \* the rows of tenant_usage
  recorded,  \* history: usage at the start of the process and all it recorded
  clock,     \* the wall clock; here it advances with every recorded query
  phase,     \* "running", "stopping" (stop is closed), "exited" or "crashed"
  atStop,    \* history: recorded when stop was closed
  finalOK,   \* history: the last flush reported no error
  errors, starts

vars == <<pending, flusher, usage, recorded, clock, phase, atStop, finalOK, errors, starts>>

NoCounts == [r \in Routes |-> Zero]
Waiting  == [pc |-> "waiting", final |-> FALSE, batch |-> NoCounts, rows |-> {}]
Stopped  == [Waiting EXCEPT !.pc = "stopped"]
Up       == phase \in {"running", "stopping"}

Init ==
  /\ pending = NoCounts
  /\ flusher = Waiting
  /\ usage = NoCounts
  /\ recorded = NoCounts
  /\ clock = 1
  /\ phase = "running"
  /\ atStop = NoCounts
  /\ finalOK = TRUE
  /\ errors = 0 /\ starts = 0

------------------------------------------------------------------------------
(* Record and Flush.                                                       *)

\* One more query of outcome o on top of delta d, at this second.
Count(d, o) ==
  [f \in Fields |-> IF f = "lastSeen" THEN clock
                    ELSE IF f \in {"queries", o} THEN d[f] + 1 ELSE d[f]]

\* Record, all of it under the lock.
Record(r, o) ==
  /\ Up
  /\ clock <= MaxQueries
  /\ pending' = [pending EXCEPT ![r] = Count(@, o)]
  /\ recorded' = [recorded EXCEPT ![r] = Count(@, o)]
  /\ clock' = clock + 1
  /\ UNCHANGED <<flusher, usage, phase, atStop, finalOK, errors, starts>>

\* The flush is over: the goroutine waits again, or returns after its last.
Resting(final) == IF final THEN Stopped ELSE Waiting

\* Flush up to the unlock: the counters are swapped for an empty map.
TakeBatch(final) ==
  /\ flusher' = IF pending = NoCounts THEN Resting(final)
                ELSE [pc |-> "writing", final |-> final, batch |-> pending, rows |-> {}]
  /\ pending' = NoCounts
  /\ UNCHANGED <<usage, recorded, clock, phase, atStop, finalOK, errors, starts>>

\* The ticker fires.  With stop closed too, select may pick either case.
FlushOnTick == Up /\ flusher.pc = "waiting" /\ TakeBatch(FALSE)

\* Mutant: the goroutine returns on stop without a flush.
FlushOnStop_NoFlush ==
  /\ phase = "stopping" /\ flusher.pc = "waiting"
  /\ flusher' = Stopped
  /\ UNCHANGED <<pending, usage, recorded, clock, phase, atStop, finalOK, errors, starts>>

FlushOnStop == phase = "stopping" /\ flusher.pc = "waiting" /\ TakeBatch(TRUE)

\* Mutant: a failed batch replaces the counters it should be added to.
Restore_Overwrites ==
  /\ Up /\ flusher.pc = "restoring"
  /\ pending' = [r \in Routes |-> IF flusher.batch[r] = Zero THEN pending[r]
                                                             ELSE flusher.batch[r]]
  /\ flusher' = Resting(flusher.final)
  /\ finalOK' = ~flusher.final
  /\ UNCHANGED <<usage, recorded, clock, phase, atStop, errors, starts>>

\* Mutant: the batch map is used again without being cleared.
Restore_KeepsBatch ==
  /\ Up /\ flusher.pc = "restoring"
  /\ pending' = MergeAll(pending, flusher.batch)
  /\ flusher' = [Resting(flusher.final) EXCEPT !.batch = flusher.batch]
  /\ finalOK' = ~flusher.final
  /\ UNCHANGED <<usage, recorded, clock, phase, atStop, errors, starts>>

\* Mutant: the goroutine returns when a write fails.
WriteFails_Returns ==
  /\ Up /\ flusher.pc = "writing"
  /\ errors < MaxErrors
  /\ errors' = errors + 1
  /\ pending' = MergeAll(pending, flusher.batch)
  /\ flusher' = Stopped
  /\ UNCHANGED <<usage, recorded, clock, phase, atStop, finalOK, starts>>

\* Mutant: the rows are written outside the transaction.
ExecRow_NoTransaction(r) ==
  /\ Up /\ flusher.pc = "writing"
  /\ flusher.batch[r] # Zero /\ r \notin flusher.rows
  /\ flusher' = [flusher EXCEPT !.rows = @ \cup {r}, !.batch[r] = Zero]
  /\ usage' = [usage EXCEPT ![r] = Merge(@, flusher.batch[r])]
  /\ UNCHANGED <<pending, recorded, clock, phase, atStop, finalOK, errors, starts>>

\* The upsert of one row of the batch, inside the transaction.
ExecRow(r) ==
  /\ Up /\ flusher.pc = "writing"
  /\ flusher.batch[r] # Zero /\ r \notin flusher.rows
  /\ flusher' = [flusher EXCEPT !.rows = @ \cup {r}]
  /\ UNCHANGED <<pending, usage, recorded, clock, phase, atStop, finalOK, errors, starts>>

\* tx.Commit after the last row.
Commit ==
  /\ Up /\ flusher.pc = "writing"
  /\ \A r \in Routes : flusher.batch[r] # Zero => r \in flusher.rows
  /\ usage' = MergeAll(usage, flusher.batch)
  /\ flusher' = Resting(flusher.final)
  /\ UNCHANGED <<pending, recorded, clock, phase, atStop, finalOK, errors, starts>>

\* Begin, Prepare, Exec or Commit fails: the transaction is rolled back.
WriteFails ==
  /\ Up /\ flusher.pc = "writing"
  /\ errors < MaxErrors
  /\ errors' = errors + 1
  /\ flusher' = [flusher EXCEPT !.pc = "restoring", !.rows = {}]
  /\ UNCHANGED <<pending, usage, recorded, clock, phase, atStop, finalOK, starts>>

\* The batch is merged back into whatever has been counted meanwhile.
Restore ==
  /\ Up /\ flusher.pc = "restoring"
  /\ pending' = MergeAll(pending, flusher.batch)
  /\ flusher' = Resting(flusher.final)
  /\ finalOK' = ~flusher.final
  /\ UNCHANGED <<usage, recorded, clock, phase, atStop, errors, starts>>

------------------------------------------------------------------------------
(* The life of the process.                                                *)

\* close(s.stop), after a signal or the failure of a listener.
CloseStop ==
  /\ phase = "running"
  /\ phase' = "stopping"
  /\ atStop' = recorded
  /\ UNCHANGED <<pending, flusher, usage, recorded, clock, finalOK, errors, starts>>

\* Two seconds later Run returns, whatever the flusher is doing.
Exit ==
  /\ phase = "stopping"
  /\ phase' = "exited"
  /\ UNCHANGED <<pending, flusher, usage, recorded, clock, atStop, finalOK, errors, starts>>

\* The process is killed: an open transaction is never committed.
Crash ==
  /\ Up
  /\ phase' = "crashed"
  /\ UNCHANGED <<pending, flusher, usage, recorded, clock, atStop, finalOK, errors, starts>>

\* The supervisor starts the resolver again.
Start ==
  /\ phase \in {"exited", "crashed"}
  /\ starts < MaxStarts
  /\ starts' = starts + 1
  /\ phase' = "running"
  /\ pending' = NoCounts /\ flusher' = Waiting
  /\ recorded' = usage
  /\ atStop' = NoCounts /\ finalOK' = TRUE
  /\ UNCHANGED <<usage, clock, errors>>

Flush == FlushOnTick \/ FlushOnStop \/ (\E r \in Routes : ExecRow(r))
           \/ Commit \/ WriteFails \/ Restore

Next ==
  \/ \E r \in Routes, o \in Outcomes : Record(r, o)
  \/ Flush
  \/ CloseStop \/ Exit \/ Crash \/ Start

Spec == Init /\ [][Next]_vars

\* The ticker keeps firing and a flush runs to its end.  Nothing forces a
\* query, an error, a shutdown or a crash.
FairSpec ==
  Spec /\ WF_vars(FlushOnTick) /\ WF_vars((\E r \in Routes : ExecRow(r)) \/ Commit \/ Restore)

------------------------------------------------------------------------------
(* Properties.                                                             *)

\* The type invariant of the counters, the flusher and the process.
TypeOK ==
  /\ pending \in [Routes -> Delta] /\ usage \in [Routes -> Delta]
  /\ recorded \in [Routes -> Delta] /\ atStop \in [Routes -> Delta]
  /\ flusher \in [pc: {"waiting", "writing", "restoring", "stopped"}, final: BOOLEAN,
                  batch: [Routes -> Delta], rows: SUBSET Routes]
  /\ flusher.pc \in {"waiting", "stopped"} => flusher.batch = NoCounts /\ ~flusher.final
  /\ clock \in 1..(MaxQueries + 1)
  /\ phase \in {"running", "stopping", "exited", "crashed"}
  /\ finalOK \in BOOLEAN
  /\ errors \in 0..MaxErrors /\ starts \in 0..MaxStarts

\* Until the process dies no recorded query is lost or counted twice and no
\* sighting is forgotten, whatever the flush is doing and however often the
\* write has failed: database, batch and counters add up to what was recorded.
Conserved ==
  Up => \A r \in Routes :
          recorded[r] = Merge(usage[r], Merge(pending[r], flusher.batch[r]))

\* d accounts for everything p does.
AtLeast(d, p) == \A f \in Fields : d[f] >= p[f]

\* After a clean exit whose last flush finished without an error, the database
\* has every query recorded before stop was closed, those of an earlier flush
\* that failed included (usage.go:96).
FinalFlushComplete ==
  (phase = "exited" /\ flusher.pc = "stopped" /\ finalOK)
    => \A r \in Routes : AtLeast(usage[r], atStop[r])

\* While the process runs, every recorded query reaches the database however
\* many writes fail on the way.
EventuallyStored ==
  \A r \in Routes : \A n \in 1..MaxQueries :
    recorded[r]["queries"] >= n ~> (usage[r]["queries"] >= n \/ phase # "running")

\* The batch under way and the database, together, are the accounts of the
\* moment the flush began.
Cut == MergeAll(usage, flusher.batch)

Ledger == INSTANCE UsageLedger
            WITH total <- recorded, stored <- usage, cut <- Cut, second <- clock

\* The collector implements the ledger: through failing writes, merged batches
\* and queries that arrive meanwhile, the database steps from the accounts of
\* all tenants at one moment to those of a later one (usage.go Flush).
KeepsLedger == Ledger!Spec
==============================================================================
