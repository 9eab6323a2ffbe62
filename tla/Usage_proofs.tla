----------------------------- MODULE Usage_proofs -----------------------------
(***************************************************************************)
(* Proofs about Usage, for any set of tenants and any number of queries,   *)
(* failed writes and restarts.                                             *)
(*                                                                         *)
(* Conserved is inductive together with the dates: the later-of of         *)
(* lastSeen absorbs the sightings of the batch and of the database only    *)
(* because none of them is newer than the clock.  FinalFlushComplete needs *)
(* what a last flush holds while it is written.  The refinement of         *)
(* UsageLedger rests on Conserved: a flush that begins with no batch under *)
(* way takes all the database lacks.                                       *)
(***************************************************************************)
EXTENDS Usage, TLAPS

\* No sighting is newer than the clock.
Dated ==
  \A r \in Routes :
    usage[r]["lastSeen"] <= clock /\ recorded[r]["lastSeen"] <= clock

\* The last flush: asked for only after stop was closed, and what it has taken
\* together with the database covers every query recorded before that.
LastFlush ==
  /\ phase = "running" => ~flusher.final /\ flusher.pc # "stopped"
  /\ phase = "stopping" => \A r \in Routes : AtLeast(recorded[r], atStop[r])
  /\ phase = "stopping" /\ flusher.final /\ flusher.pc = "writing"
       => \A r \in Routes : AtLeast(Merge(usage[r], flusher.batch[r]), atStop[r])
  /\ phase \in {"stopping", "exited"} /\ flusher.pc = "stopped" /\ finalOK
       => \A r \in Routes : AtLeast(usage[r], atStop[r])

IInv == TypeOK /\ Dated /\ Conserved /\ LastFlush

------------------------------------------------------------------------------
(* The arithmetic of deltas.                                               *)

\* Zero is a delta.
LEMMA ZeroType == Zero \in Delta /\ NoCounts \in [Routes -> Delta]
  BY DEF Zero, NoCounts, Delta, Fields, Counters

\* The sum of two deltas is a delta, field by field.
LEMMA MergeType ==
  ASSUME NEW p \in Delta, NEW d \in Delta
  PROVE  Merge(p, d) \in Delta
  BY DEF Merge, Delta, Later

\* Adding no counts changes nothing.
LEMMA MergeZero ==
  ASSUME NEW p \in Delta
  PROVE  Merge(p, Zero) = p
  BY DEF Merge, Delta, Zero, Later

\* The sum does not depend on the order of the counters.
LEMMA MergeOrder ==
  ASSUME NEW p \in Delta, NEW d \in Delta, NEW e \in Delta
  PROVE  /\ Merge(p, Merge(d, e)) = Merge(Merge(p, d), e)
         /\ Merge(p, d) = Merge(d, p)
<1>1. Merge(p, d) = Merge(d, p)
  BY DEF Merge, Delta, Later
<1>2. ASSUME NEW f \in Fields
      PROVE  Merge(p, Merge(d, e))[f] = Merge(Merge(p, d), e)[f]
  BY DEF Merge, Delta, Later
<1> QED
  BY <1>1, <1>2 DEF Merge

\* The sums of whole counter maps.
LEMMA MergeAllType ==
  ASSUME NEW P \in [Routes -> Delta], NEW D \in [Routes -> Delta]
  PROVE  /\ MergeAll(P, D) \in [Routes -> Delta]
         /\ \A r \in Routes : MergeAll(P, D)[r] = Merge(P[r], D[r])
  BY MergeType DEF MergeAll

\* A sum accounts for each of its parts.
LEMMA MergeCovers ==
  ASSUME NEW p \in Delta, NEW d \in Delta
  PROVE  AtLeast(Merge(p, d), p) /\ AtLeast(Merge(p, d), d)
  BY DEF Merge, Delta, AtLeast, Later

\* AtLeast is transitive.
LEMMA AtLeastTrans ==
  ASSUME NEW p \in Delta, NEW d \in Delta, NEW e \in Delta,
         AtLeast(p, d), AtLeast(d, e)
  PROVE  AtLeast(p, e)
  BY DEF Delta, AtLeast

\* One more query is a delta; unless the old one is from the future it accounts
\* for all of it.
LEMMA CountType ==
  ASSUME TypeOK, NEW d \in Delta, NEW o \in Outcomes
  PROVE  /\ Count(d, o) \in Delta
         /\ Count(d, o)["lastSeen"] = clock
         /\ d["lastSeen"] <= clock => AtLeast(Count(d, o), d)
<1>1. clock \in Nat
  BY UsageAssumption DEF TypeOK
<1>2. ASSUME NEW f \in Fields
      PROVE  /\ Count(d, o)[f] \in Nat
             /\ d["lastSeen"] <= clock => Count(d, o)[f] >= d[f]
  BY <1>1, <1>2 DEF Count, Delta
<1>3. Count(d, o)["lastSeen"] = clock
  BY DEF Count, Fields
<1> QED
  BY <1>2, <1>3 DEF Count, Delta, AtLeast

\* Counting in one part of a sum is counting in the sum, as long as the other
\* part has seen nothing newer than the clock.
LEMMA CountMerge ==
  ASSUME TypeOK, NEW p \in Delta, NEW d \in Delta, NEW o \in Outcomes,
         p["lastSeen"] <= clock, d["lastSeen"] <= clock
  PROVE  Merge(p, Count(d, o)) = Count(Merge(p, d), o)
<1>0. clock \in Nat
  BY UsageAssumption DEF TypeOK
<1>1. ASSUME NEW f \in Fields
      PROVE  Merge(p, Count(d, o))[f] = Count(Merge(p, d), o)[f]
  <2>1. p[f] \in Nat /\ d[f] \in Nat
    BY <1>1 DEF Delta
  <2>2. CASE f = "lastSeen"
    BY <1>0, <1>1, <2>1, <2>2 DEF Merge, Count, Later
  <2>3. CASE f # "lastSeen"
    BY <1>1, <2>1, <2>3 DEF Merge, Count
  <2> QED
    BY <2>2, <2>3
<1> QED
  BY <1>1 DEF Merge, Count

------------------------------------------------------------------------------
(* Every step preserves the types and the dates.                           *)

\* The state of the flusher has its type in each place it can be in.
LEMMA RestingType ==
  ASSUME NEW b \in BOOLEAN
  PROVE  /\ Resting(b) \in [pc: {"waiting", "writing", "restoring", "stopped"},
                            final: BOOLEAN, batch: [Routes -> Delta], rows: SUBSET Routes]
         /\ Resting(b).pc = IF b THEN "stopped" ELSE "waiting"
         /\ Resting(b).batch = NoCounts /\ Resting(b).final = FALSE
  BY ZeroType DEF Resting, Stopped, Waiting

\* The initial state satisfies the inductive invariant.
LEMMA InitIInv == Init => IInv
<1> SUFFICES ASSUME Init PROVE IInv
  OBVIOUS
<1>1. \A r \in Routes : usage[r] = Zero /\ recorded[r] = Zero /\ pending[r] = Zero
        /\ flusher.batch[r] = Zero
  BY DEF Init, NoCounts, Waiting
<1>2. Zero["lastSeen"] = 0
  BY DEF Zero, Fields
<1>3. TypeOK
  <2>1. flusher \in [pc: {"waiting", "writing", "restoring", "stopped"}, final: BOOLEAN,
                     batch: [Routes -> Delta], rows: SUBSET Routes]
    BY ZeroType DEF Init, Waiting
  <2>2. clock \in 1..(MaxQueries + 1) /\ errors \in 0..MaxErrors /\ starts \in 0..MaxStarts
    BY UsageAssumption DEF Init
  <2>3. flusher.batch = NoCounts /\ ~flusher.final
    BY DEF Init, Waiting
  <2> QED
    BY <2>1, <2>2, <2>3, ZeroType DEF Init, TypeOK
<1>4. Dated
  <2>1. 0 <= clock
    BY DEF Init
  <2>2. ASSUME NEW r \in Routes
        PROVE  usage[r]["lastSeen"] = 0 /\ recorded[r]["lastSeen"] = 0
    BY <1>1, <1>2
  <2> QED
    BY <2>1, <2>2, Zenon DEF Dated
<1>5. Conserved
  BY <1>1, MergeZero, ZeroType DEF Conserved
<1>6. LastFlush
  BY DEF LastFlush, Init, Waiting
<1> QED
  BY <1>3, <1>4, <1>5, <1>6 DEF IInv

\* A batch is taken whole, by the tick or on stop.
LEMMA TakeBatchStep ==
  ASSUME TypeOK, NEW b \in BOOLEAN, TakeBatch(b), flusher.pc = "waiting"
  PROVE  /\ TypeOK'
         /\ flusher'.batch = pending /\ pending' = NoCounts
         /\ flusher'.pc = IF pending = NoCounts THEN (IF b THEN "stopped" ELSE "waiting")
                                                ELSE "writing"
         /\ flusher'.final = (b /\ pending # NoCounts)
<1>1. CASE pending = NoCounts
  BY <1>1, RestingType, ZeroType DEF TakeBatch, TypeOK
<1>2. CASE pending # NoCounts
  BY <1>2, ZeroType DEF TakeBatch, TypeOK
<1> QED
  BY <1>1, <1>2

\* Types are preserved by every step.
LEMMA TypeStep == TypeOK /\ [Next]_vars => TypeOK'
<1> SUFFICES ASSUME TypeOK, [Next]_vars PROVE TypeOK'
  OBVIOUS
<1>1. ASSUME NEW r \in Routes, NEW o \in Outcomes, Record(r, o) PROVE TypeOK'
  <2>1. Count(pending[r], o) \in Delta /\ Count(recorded[r], o) \in Delta
    BY <1>1, CountType DEF TypeOK
  <2>2. pending' \in [Routes -> Delta] /\ recorded' \in [Routes -> Delta]
    BY <1>1, <2>1 DEF Record, TypeOK
  <2>3. clock' \in 1..(MaxQueries + 1)
    BY <1>1, UsageAssumption DEF Record, TypeOK
  <2> QED
    BY <1>1, <2>2, <2>3 DEF Record, TypeOK
<1>2. CASE FlushOnTick
  BY <1>2, TakeBatchStep DEF FlushOnTick
<1>3. CASE FlushOnStop
  BY <1>3, TakeBatchStep DEF FlushOnStop
<1>4. ASSUME NEW r \in Routes, ExecRow(r) PROVE TypeOK'
  BY <1>4 DEF ExecRow, TypeOK
<1>5. CASE Commit
  <2>1. usage' \in [Routes -> Delta]
    BY <1>5, MergeAllType DEF Commit, TypeOK
  <2>2. flusher' = Resting(flusher.final) /\ flusher.final \in BOOLEAN
    BY <1>5 DEF Commit, TypeOK
  <2> QED
    BY <1>5, <2>1, <2>2, RestingType DEF Commit, TypeOK
<1>6. CASE WriteFails
  <2>1. errors' \in 0..MaxErrors
    BY <1>6, UsageAssumption DEF WriteFails, TypeOK
  <2>2. flusher' \in [pc: {"waiting", "writing", "restoring", "stopped"}, final: BOOLEAN,
                      batch: [Routes -> Delta], rows: SUBSET Routes]
    BY <1>6 DEF WriteFails, TypeOK
  <2>3. flusher'.pc = "restoring"
    BY <1>6 DEF WriteFails, TypeOK
  <2> QED
    BY <1>6, <2>1, <2>2, <2>3 DEF WriteFails, TypeOK
<1>7. CASE Restore
  <2>1. pending' \in [Routes -> Delta]
    BY <1>7, MergeAllType DEF Restore, TypeOK
  <2>2. flusher' = Resting(flusher.final) /\ flusher.final \in BOOLEAN
    BY <1>7 DEF Restore, TypeOK
  <2> QED
    BY <1>7, <2>1, <2>2, RestingType DEF Restore, TypeOK
<1>8. CASE CloseStop \/ Exit \/ Crash
  BY <1>8 DEF CloseStop, Exit, Crash, TypeOK
<1>9. CASE Start
  BY <1>9, ZeroType, UsageAssumption DEF Start, TypeOK, Waiting
<1>10. CASE UNCHANGED vars
  BY <1>10 DEF vars, TypeOK
<1> QED
  BY <1>1, <1>2, <1>3, <1>4, <1>5, <1>6, <1>7, <1>8, <1>9, <1>10 DEF Next, Flush

------------------------------------------------------------------------------
(* Dates and conservation.                                                 *)

\* While the process is up, no counter anywhere is newer than the clock.
LEMMA AllDated ==
  ASSUME TypeOK, Dated, Conserved, Up, NEW r \in Routes
  PROVE  /\ pending[r]["lastSeen"] <= clock
         /\ flusher.batch[r]["lastSeen"] <= clock
         /\ Merge(pending[r], flusher.batch[r])["lastSeen"] <= clock
<1> DEFINE held == Merge(pending[r], flusher.batch[r])
<1>1. usage[r] \in Delta /\ pending[r] \in Delta /\ flusher.batch[r] \in Delta
  BY DEF TypeOK
<1>2. held \in Delta
  BY <1>1, MergeType
<1>3. recorded[r] = Merge(usage[r], held)
  BY DEF Conserved
<1>4. AtLeast(recorded[r], held) /\ AtLeast(held, pending[r])
        /\ AtLeast(held, flusher.batch[r])
  BY <1>1, <1>2, <1>3, MergeCovers
<1>5. recorded[r]["lastSeen"] <= clock /\ recorded[r] \in Delta
  BY DEF Dated, TypeOK
<1>6. clock \in Nat /\ "lastSeen" \in Fields
  BY UsageAssumption DEF TypeOK, Fields
<1>7. /\ recorded[r]["lastSeen"] \in Nat /\ held["lastSeen"] \in Nat
      /\ pending[r]["lastSeen"] \in Nat /\ flusher.batch[r]["lastSeen"] \in Nat
  BY <1>1, <1>2, <1>5, <1>6 DEF Delta
<1>8. /\ recorded[r]["lastSeen"] >= held["lastSeen"]
      /\ held["lastSeen"] >= pending[r]["lastSeen"]
      /\ held["lastSeen"] >= flusher.batch[r]["lastSeen"]
  BY <1>4, <1>6 DEF AtLeast
<1> HIDE DEF held
<1> QED
  BY <1>5, <1>6, <1>7, <1>8 DEF held

\* Recording a query keeps the sum: the counters of the query go to the part
\* in memory, and its date is the newest of all.
LEMMA RecordConserves ==
  ASSUME TypeOK, Dated, Conserved, NEW r \in Routes, NEW o \in Outcomes, Record(r, o)
  PROVE  Conserved' /\ Dated'
<1> DEFINE held == Merge(pending[r], flusher.batch[r])
<1>1. usage[r] \in Delta /\ pending[r] \in Delta /\ flusher.batch[r] \in Delta
        /\ recorded[r] \in Delta
  BY DEF TypeOK
<1>2. Up
  BY DEF Record
<1>3. pending[r]["lastSeen"] <= clock /\ flusher.batch[r]["lastSeen"] <= clock
        /\ held["lastSeen"] <= clock /\ usage[r]["lastSeen"] <= clock
  BY <1>2, AllDated DEF Dated
<1>4. held \in Delta /\ held = Merge(flusher.batch[r], pending[r])
  BY <1>1, MergeType, MergeOrder
<1>5. Count(pending[r], o) \in Delta
  BY <1>1, CountType
<1>6. Merge(Count(pending[r], o), flusher.batch[r])
        = Merge(flusher.batch[r], Count(pending[r], o))
  BY <1>1, <1>5, MergeOrder
<1>7. Merge(flusher.batch[r], Count(pending[r], o)) = Count(held, o)
  BY <1>1, <1>3, <1>4, CountMerge
<1>8. Merge(usage[r], Count(held, o)) = Count(Merge(usage[r], held), o)
  BY <1>1, <1>3, <1>4, CountMerge
<1>9. recorded[r] = Merge(usage[r], held)
  BY <1>2 DEF Conserved
<1>10. /\ pending' = [pending EXCEPT ![r] = Count(pending[r], o)]
       /\ recorded' = [recorded EXCEPT ![r] = Count(recorded[r], o)]
       /\ flusher' = flusher /\ usage' = usage
  BY DEF Record
<1>11. recorded'[r] = Count(recorded[r], o) /\ pending'[r] = Count(pending[r], o)
         /\ \A s \in Routes \ {r} : recorded'[s] = recorded[s] /\ pending'[s] = pending[s]
  BY <1>10 DEF TypeOK
<1>12. recorded'[r] = Merge(usage[r], Merge(pending'[r], flusher.batch[r]))
  BY <1>6, <1>7, <1>8, <1>9, <1>11
<1>13. Conserved'
  BY <1>2, <1>10, <1>11, <1>12 DEF Conserved
<1>14. Dated'
  <2>1. clock' = clock + 1 /\ clock \in Nat
    BY UsageAssumption DEF Record, TypeOK
  <2>2. Count(recorded[r], o)["lastSeen"] = clock
    BY <1>1, CountType
  <2>3. ASSUME NEW s \in Routes
        PROVE  /\ usage[s]["lastSeen"] \in Nat /\ usage[s]["lastSeen"] <= clock
               /\ recorded[s]["lastSeen"] \in Nat /\ recorded[s]["lastSeen"] <= clock
    BY DEF Dated, TypeOK, Delta, Fields
  <2>4. ASSUME NEW s \in Routes
        PROVE  usage'[s]["lastSeen"] <= clock' /\ recorded'[s]["lastSeen"] <= clock'
    BY <1>10, <1>11, <2>1, <2>2, <2>3
  <2> QED
    BY <2>4 DEF Dated
<1> QED
  BY <1>13, <1>14

\* The flusher's own steps and the shutdown move counters between memory,
\* batch and database and change none.
LEMMA ConservedStep ==
  ASSUME TypeOK, Dated, Conserved, [Next]_vars
  PROVE  Conserved' /\ Dated'
<1>t. /\ usage \in [Routes -> Delta] /\ pending \in [Routes -> Delta]
      /\ recorded \in [Routes -> Delta] /\ flusher.batch \in [Routes -> Delta]
      /\ flusher.final \in BOOLEAN
  BY DEF TypeOK
<1>z. \A r \in Routes : NoCounts[r] = Zero /\ Zero \in Delta
  BY ZeroType DEF NoCounts
<1>1. ASSUME NEW r \in Routes, NEW o \in Outcomes, Record(r, o) PROVE Conserved' /\ Dated'
  BY <1>1, RecordConserves
<1>2. CASE FlushOnTick \/ FlushOnStop
  <2>1. PICK b \in BOOLEAN : TakeBatch(b) /\ flusher.pc = "waiting" /\ Up
    BY <1>2 DEF FlushOnTick, FlushOnStop, Up
  <2>2. /\ flusher'.batch = pending /\ pending' = NoCounts /\ usage' = usage
        /\ recorded' = recorded /\ phase' = phase /\ clock' = clock
        /\ flusher.batch = NoCounts
    BY <2>1, TakeBatchStep DEF TakeBatch, TypeOK
  <2>3. ASSUME NEW r \in Routes
        PROVE  Merge(pending'[r], flusher'.batch[r]) = Merge(pending[r], flusher.batch[r])
    BY <1>t, <1>z, <2>2, MergeOrder
  <2> QED
    BY <2>1, <2>2, <2>3 DEF Conserved, Dated, Up
<1>3. ASSUME NEW r \in Routes, ExecRow(r) PROVE Conserved' /\ Dated'
  <2>1. flusher'.batch = flusher.batch
    BY <1>3 DEF ExecRow, TypeOK
  <2> QED
    BY <1>3, <2>1 DEF ExecRow, Conserved, Dated, Up
<1>4. CASE Commit
  <2>1. /\ usage' = MergeAll(usage, flusher.batch) /\ flusher'.batch = NoCounts
        /\ pending' = pending /\ recorded' = recorded /\ phase' = phase /\ clock' = clock /\ Up
    BY <1>4, <1>t, RestingType DEF Commit
  <2>2. ASSUME NEW r \in Routes
        PROVE  /\ usage'[r] = Merge(usage[r], flusher.batch[r])
               /\ flusher'.batch[r] = Zero
    BY <1>t, <1>z, <2>1, MergeAllType
  <2>3. ASSUME NEW r \in Routes
        PROVE  recorded[r] = Merge(Merge(usage[r], flusher.batch[r]), pending[r])
    <3>1. recorded[r] = Merge(usage[r], Merge(pending[r], flusher.batch[r]))
      BY <2>1 DEF Conserved
    <3> QED
      BY <1>t, <3>1, MergeOrder
  <2>4. ASSUME NEW r \in Routes
        PROVE  /\ recorded'[r] = Merge(usage'[r], Merge(pending'[r], flusher'.batch[r]))
               /\ usage'[r]["lastSeen"] <= clock' /\ recorded'[r]["lastSeen"] <= clock'
    <3>1. Merge(pending'[r], flusher'.batch[r]) = pending[r]
      BY <1>t, <2>1, <2>2, MergeZero
    <3>2. usage[r]["lastSeen"] <= clock /\ recorded[r]["lastSeen"] <= clock
      BY DEF Dated
    <3>3. flusher.batch[r]["lastSeen"] <= clock
      BY <2>1, AllDated
    <3>4. Merge(usage[r], flusher.batch[r])["lastSeen"] <= clock
      BY <3>2, <3>3 DEF Merge, Later, Fields
    <3> QED
      BY <2>1, <2>2, <2>3, <3>1, <3>2, <3>4
  <2> QED
    BY <2>4 DEF Conserved, Dated
<1>5. CASE WriteFails
  <2>1. flusher'.batch = flusher.batch
    BY <1>5 DEF WriteFails, TypeOK
  <2> QED
    BY <1>5, <2>1 DEF WriteFails, Conserved, Dated, Up
<1>6. CASE Restore
  <2>1. /\ pending' = MergeAll(pending, flusher.batch) /\ flusher'.batch = NoCounts
        /\ usage' = usage /\ recorded' = recorded /\ phase' = phase /\ clock' = clock
    BY <1>6, <1>t, RestingType DEF Restore
  <2>2. ASSUME NEW r \in Routes
        PROVE  Merge(pending'[r], flusher'.batch[r]) = Merge(pending[r], flusher.batch[r])
    BY <1>t, <1>z, <2>1, MergeAllType, MergeZero, MergeType
  <2> QED
    BY <2>1, <2>2 DEF Conserved, Dated, Up
<1>7. CASE CloseStop \/ Exit \/ Crash
  BY <1>7 DEF CloseStop, Exit, Crash, Conserved, Dated, Up
<1>8. CASE Start
  <2>1. /\ pending' = NoCounts /\ flusher'.batch = NoCounts /\ usage' = usage
        /\ recorded' = usage /\ clock' = clock
    BY <1>8 DEF Start, Waiting
  <2>2. ASSUME NEW r \in Routes
        PROVE  /\ recorded'[r] = Merge(usage'[r], Merge(pending'[r], flusher'.batch[r]))
               /\ usage'[r]["lastSeen"] <= clock' /\ recorded'[r]["lastSeen"] <= clock'
    BY <1>t, <1>z, <2>1, MergeZero DEF Dated
  <2> QED
    BY <2>2 DEF Conserved, Dated
<1>9. CASE UNCHANGED vars
  BY <1>9 DEF vars, Conserved, Dated, Up
<1> QED
  BY <1>1, <1>2, <1>3, <1>4, <1>5, <1>6, <1>7, <1>8, <1>9 DEF Next, Flush

------------------------------------------------------------------------------
(* The last flush.                                                         *)

\* Every step keeps what the last flush is worth.
LEMMA LastFlushStep ==
  ASSUME IInv, [Next]_vars
  PROVE  LastFlush'
<1>t. /\ usage \in [Routes -> Delta] /\ pending \in [Routes -> Delta]
      /\ recorded \in [Routes -> Delta] /\ atStop \in [Routes -> Delta]
      /\ flusher.batch \in [Routes -> Delta] /\ flusher.final \in BOOLEAN
  BY DEF IInv, TypeOK
<1>z. \A r \in Routes : NoCounts[r] = Zero /\ Zero \in Delta
  BY ZeroType DEF NoCounts
<1>i. TypeOK /\ Dated /\ Conserved /\ LastFlush
  BY DEF IInv
<1>1. ASSUME NEW r \in Routes, NEW o \in Outcomes, Record(r, o) PROVE LastFlush'
  <2>1. /\ recorded' = [recorded EXCEPT ![r] = Count(recorded[r], o)]
        /\ UNCHANGED <<usage, flusher, phase, atStop, finalOK>>
    BY <1>1 DEF Record
  <2>2. Count(recorded[r], o) \in Delta /\ AtLeast(Count(recorded[r], o), recorded[r])
    BY <1>i, <1>t, CountType DEF Dated
  <2>3. ASSUME phase = "stopping", NEW s \in Routes PROVE AtLeast(recorded'[s], atStop[s])
    <3>1. AtLeast(recorded[s], atStop[s])
      BY <1>i, <2>3 DEF LastFlush
    <3>2. CASE s = r
      <4>1. recorded'[s] = Count(recorded[r], o)
        BY <1>t, <2>1, <3>2
      <4> QED
        BY <1>t, <2>2, <3>1, <3>2, <4>1, AtLeastTrans
    <3>3. CASE s # r
      BY <1>t, <2>1, <3>1, <3>3
    <3> QED
      BY <3>2, <3>3
  <2> QED
    BY <1>i, <2>1, <2>3 DEF LastFlush
<1>2. ASSUME NEW b \in BOOLEAN, TakeBatch(b), flusher.pc = "waiting", Up,
             b => phase = "stopping"
      PROVE  LastFlush'
  <2>1. /\ flusher'.batch = pending /\ pending' = NoCounts /\ usage' = usage
        /\ recorded' = recorded /\ phase' = phase /\ atStop' = atStop /\ finalOK' = finalOK
        /\ flusher.batch = NoCounts /\ flusher'.final = (b /\ pending # NoCounts)
        /\ flusher'.pc = IF pending = NoCounts THEN (IF b THEN "stopped" ELSE "waiting")
                                               ELSE "writing"
    BY <1>2, <1>i, TakeBatchStep DEF TakeBatch, TypeOK
  <2>2. ASSUME phase = "stopping", NEW r \in Routes
        PROVE  /\ AtLeast(recorded[r], atStop[r])
               /\ recorded[r] = Merge(usage[r], pending[r])
    <3>1. recorded[r] = Merge(usage[r], Merge(pending[r], flusher.batch[r]))
      BY <1>2, <1>i DEF Conserved
    <3> QED
      BY <1>t, <1>z, <1>i, <2>1, <2>2, <3>1, MergeZero DEF LastFlush
  <2>3. ASSUME phase = "stopping", pending = NoCounts, NEW r \in Routes
        PROVE  AtLeast(usage[r], atStop[r])
    BY <1>t, <1>z, <2>2, <2>3, MergeZero
  <2>4. phase \in {"running", "stopping"}
    BY <1>2 DEF Up
  <2>5. phase = "running" => ~b
    BY <1>2
  <2> QED
    BY <2>1, <2>2, <2>3, <2>4, <2>5 DEF LastFlush
<1>3. ASSUME NEW r \in Routes, ExecRow(r) PROVE LastFlush'
  <2>1. flusher'.batch = flusher.batch /\ flusher'.pc = flusher.pc /\ flusher'.final = flusher.final
    BY <1>3, <1>i DEF ExecRow, TypeOK
  <2> QED
    BY <1>3, <1>i, <2>1 DEF ExecRow, LastFlush
<1>4. CASE Commit
  <2>1. /\ usage' = MergeAll(usage, flusher.batch) /\ recorded' = recorded
        /\ phase' = phase /\ atStop' = atStop /\ finalOK' = finalOK /\ Up
        /\ flusher'.pc = (IF flusher.final THEN "stopped" ELSE "waiting")
        /\ flusher'.final = FALSE /\ flusher.pc = "writing"
    BY <1>4, <1>t, RestingType DEF Commit
  <2>2. \A r \in Routes : usage'[r] = Merge(usage[r], flusher.batch[r])
    BY <1>t, <2>1, MergeAllType
  <2>3. phase \in {"running", "stopping"}
    BY <2>1 DEF Up
  <2> QED
    BY <1>i, <2>1, <2>2, <2>3 DEF LastFlush
<1>5. CASE WriteFails
  <2>1. flusher'.pc = "restoring" /\ flusher'.final = flusher.final
    BY <1>5, <1>i DEF WriteFails, TypeOK
  <2> QED
    BY <1>5, <1>i, <2>1 DEF WriteFails, LastFlush
<1>6. CASE Restore
  <2>1. /\ flusher'.pc = (IF flusher.final THEN "stopped" ELSE "waiting")
        /\ flusher'.final = FALSE /\ finalOK' = ~flusher.final
        /\ UNCHANGED <<usage, recorded, phase, atStop>>
    BY <1>6, <1>t, RestingType DEF Restore
  <2> QED
    BY <1>i, <2>1 DEF LastFlush
<1>7. CASE CloseStop
  <2>1. \A r \in Routes : AtLeast(recorded[r], recorded[r])
    BY <1>t DEF AtLeast, Delta
  <2> QED
    BY <1>7, <1>i, <2>1 DEF CloseStop, LastFlush
<1>8. CASE Exit \/ Crash
  BY <1>8, <1>i DEF Exit, Crash, LastFlush
<1>9. CASE Start
  BY <1>9 DEF Start, LastFlush, Waiting
<1>10. CASE UNCHANGED vars
  BY <1>10, <1>i DEF vars, LastFlush
<1>11. CASE FlushOnTick \/ FlushOnStop
  BY <1>2, <1>11 DEF FlushOnTick, FlushOnStop, Up
<1> QED
  BY <1>1, <1>3, <1>4, <1>5, <1>6, <1>7, <1>8, <1>9, <1>10, <1>11 DEF Next, Flush

------------------------------------------------------------------------------
(* The theorems.                                                           *)

\* The invariant is inductive.
LEMMA Invariance == Spec => []IInv
<1>1. IInv /\ [Next]_vars => IInv'
  <2> SUFFICES ASSUME IInv, [Next]_vars PROVE IInv'
    OBVIOUS
  <2>1. TypeOK'
    BY TypeStep DEF IInv
  <2>2. Conserved' /\ Dated'
    BY ConservedStep DEF IInv
  <2> QED
    BY <2>1, <2>2, LastFlushStep DEF IInv
<1> QED
  BY <1>1, InitIInv, PTL DEF Spec

\* The counters, the flusher and the process keep their types, and a flusher
\* at rest holds no batch.
THEOREM TypeCorrect == Spec => []TypeOK
<1>1. IInv => TypeOK
  BY DEF IInv
<1> QED
  BY <1>1, Invariance, PTL

\* No recorded query is lost or counted twice while the process runs, however
\* many tenants, queries and failed writes there are.
THEOREM CountsConserved == Spec => []Conserved
<1>1. IInv => Conserved
  BY DEF IInv
<1> QED
  BY <1>1, Invariance, PTL

\* A clean exit with a successful last flush has stored every query recorded
\* before stop was closed.
THEOREM LastFlushIsComplete == Spec => []FinalFlushComplete
<1>1. IInv => FinalFlushComplete
  BY DEF IInv, LastFlush, FinalFlushComplete
<1> QED
  BY <1>1, Invariance, PTL

------------------------------------------------------------------------------
(* The collector implements the ledger.                                    *)

\* With no batch under way, nothing is about to be stored but what is.
LEMMA NoCut ==
  ASSUME NEW U \in [Routes -> Delta], NEW D \in [Routes -> Delta], D = NoCounts
  PROVE  MergeAll(U, D) = U
<1>1. \A r \in Routes : D[r] = Zero
  BY DEF NoCounts
<1>2. \A r \in Routes : Merge(U[r], D[r]) = U[r]
  BY <1>1, MergeZero
<1> QED
  BY <1>2 DEF MergeAll

\* The initial state of the collector is one of the ledger.
LEMMA LedgerInit == Init => Ledger!Init
<1> SUFFICES ASSUME Init PROVE Ledger!Init
  OBVIOUS
<1>1. Ledger!NoAccounts = NoCounts
  BY DEF Ledger!NoAccounts, NoCounts, Zero, Fields, Counters
<1>2. usage = NoCounts /\ flusher.batch = NoCounts /\ recorded = NoCounts /\ clock = 1
  BY DEF Init, Waiting
<1>3. Cut = NoCounts
  BY <1>2, NoCut, ZeroType DEF Cut
<1> QED
  BY <1>1, <1>2, <1>3 DEF Ledger!Init

\* Every step of the collector is a step of the ledger or none.
LEMMA LedgerStep ==
  ASSUME IInv, [Next]_vars
  PROVE  [Ledger!Next]_(Ledger!ledgerVars)
<1>t. /\ usage \in [Routes -> Delta] /\ pending \in [Routes -> Delta]
      /\ recorded \in [Routes -> Delta] /\ flusher.batch \in [Routes -> Delta]
      /\ flusher.final \in BOOLEAN /\ TypeOK /\ Conserved
  BY DEF IInv, TypeOK
<1>u. ASSUME UNCHANGED <<recorded, usage, clock>>, flusher'.batch = flusher.batch
      PROVE  UNCHANGED Ledger!ledgerVars
  BY <1>u DEF Ledger!ledgerVars, Cut
<1>1. ASSUME NEW r \in Routes, NEW o \in Outcomes, Record(r, o)
      PROVE  Ledger!Answer(r, o)
  <2>1. Ledger!Entered(recorded[r], o) = Count(recorded[r], o)
    BY <1>t DEF Ledger!Entered, Count, Delta
  <2>2. UNCHANGED <<usage, flusher>> /\ clock' = clock + 1
          /\ recorded' = [recorded EXCEPT ![r] = Count(recorded[r], o)]
    BY <1>1 DEF Record
  <2> QED
    BY <2>1, <2>2 DEF Ledger!Answer, Cut
<1>2. ASSUME NEW b \in BOOLEAN, TakeBatch(b), flusher.pc = "waiting", Up
      PROVE  Ledger!Begin
  <2>1. /\ flusher'.batch = pending /\ flusher.batch = NoCounts
        /\ UNCHANGED <<usage, recorded, clock>>
    BY <1>2, <1>t, TakeBatchStep DEF TakeBatch, TypeOK
  <2>2. Cut = usage
    BY <1>t, <2>1, NoCut DEF Cut
  <2>3. ASSUME NEW r \in Routes PROVE recorded[r] = Merge(usage[r], pending[r])
    <3>1. recorded[r] = Merge(usage[r], Merge(pending[r], flusher.batch[r]))
      BY <1>2, <1>t DEF Conserved
    <3>2. flusher.batch[r] = Zero
      BY <2>1 DEF NoCounts
    <3> QED
      BY <1>t, <3>1, <3>2, MergeZero
  <2>4. Cut' = recorded
    BY <1>t, <2>1, <2>3 DEF Cut, MergeAll
  <2> QED
    BY <2>1, <2>2, <2>4 DEF Ledger!Begin
<1>3. ASSUME NEW r \in Routes, ExecRow(r) PROVE UNCHANGED Ledger!ledgerVars
  BY <1>3, <1>t, <1>u DEF ExecRow, TypeOK
<1>4. CASE Commit
  <2>1. usage' = Cut /\ flusher'.batch = NoCounts /\ UNCHANGED <<recorded, clock>>
    BY <1>4, <1>t, RestingType DEF Commit, Cut
  <2>2. Cut \in [Routes -> Delta]
    BY <1>t, MergeAllType DEF Cut
  <2>3. Cut' = Cut
    BY <2>1, <2>2, NoCut, ZeroType DEF Cut
  <2> QED
    BY <2>1, <2>3 DEF Ledger!Save, Ledger!Next
<1>5. CASE WriteFails
  BY <1>5, <1>t, <1>u DEF WriteFails, TypeOK
<1>6. CASE Restore
  <2>1. flusher'.batch = NoCounts /\ UNCHANGED <<usage, recorded, clock>>
    BY <1>6, <1>t, RestingType DEF Restore
  <2>2. Cut' = usage
    BY <1>t, <2>1, NoCut, ZeroType DEF Cut
  <2> QED
    BY <2>1, <2>2 DEF Ledger!Abandon, Ledger!Next
<1>7. CASE CloseStop \/ Exit \/ Crash
  BY <1>7, <1>u DEF CloseStop, Exit, Crash
<1>8. CASE Start
  <2>1. flusher'.batch = NoCounts /\ recorded' = usage /\ UNCHANGED <<usage, clock>>
    BY <1>8 DEF Start, Waiting
  <2>2. Cut' = usage
    BY <1>t, <2>1, NoCut, ZeroType DEF Cut
  <2> QED
    BY <2>1, <2>2 DEF Ledger!Lose, Ledger!Next
<1>9. CASE UNCHANGED vars
  BY <1>9, <1>u DEF vars
<1>10. CASE FlushOnTick \/ FlushOnStop
  BY <1>2, <1>10 DEF FlushOnTick, FlushOnStop, Up, Ledger!Next
<1> QED
  BY <1>1, <1>3, <1>4, <1>5, <1>6, <1>7, <1>8, <1>9, <1>10
     DEF Next, Flush, Ledger!Next

\* The collector implements the ledger: whatever fails or dies, the database
\* moves from the accounts of one moment to those of a later one.
THEOREM LedgerImplemented == Spec => KeepsLedger
<1>1. IInv /\ [Next]_vars => [Ledger!Next]_(Ledger!ledgerVars)
  BY LedgerStep
<1> QED
  BY <1>1, LedgerInit, Invariance, PTL DEF Spec, KeepsLedger, Ledger!Spec
==============================================================================
