----------------------- MODULE OperationalMonitorProofs -----------------------
(***************************************************************************)
(* Proofs about OperationalMonitor for every number of processes, batches  *)
(* and runs, however leases run out, replies are lost and processes stop.  *)
(***************************************************************************)
EXTENDS OperationalMonitor, TLAPS

-----------------------------------------------------------------------------
(* The inductive invariant                                                 *)

\* Labels of a run that took the lease and has not published.
Leading == {"collect", "renew", "materialize"}

\* Leading runs have generations of their own, the owner of the lease the
\* newest one.
GenerationsOK ==
    /\ \A p \in Procs : pc[p] \in Leading => gen[p] <= generation
    /\ \A p \in Procs : pc[p] \in Leading /\ OwnsLease(p) => gen[p] = generation
    /\ \A p, q \in Procs :
        pc[p] \in Leading /\ pc[q] \in Leading /\ gen[p] = gen[q] => p = q

\* What is published is not newer than the counter, and a run that cleans up
\* has been published.
PublishedOK ==
    /\ active.gen <= generation
    /\ \A p \in Procs : pc[p] = "cleanup" => gen[p] <= active.gen

\* A cycle that exists was begun, and is written under one generation.
RowsOK ==
    /\ \A r \in rows : r.cycle[3] <= runs[r.cycle[1]]
    /\ \A r \in rows : r.cycle = active.cycle => r.gen = active.gen
    /\ \A r \in rows, p \in Procs :
        pc[p] \in Leading => (r.cycle = CycleId(p) <=> r.gen = gen[p])

\* The cycle of a run is new until it writes, and unpublished until it
\* publishes.
CyclesOK ==
    /\ active.cycle # <<>> => active.cycle[3] <= runs[active.cycle[1]]
    /\ \A p \in Procs : pc[p] \in {"acquire", "collect", "renew"} =>
        \A r \in rows : r.cycle # CycleId(p)
    /\ \A p \in Procs : pc[p] \in Leading \cup {"acquire"} => active.cycle # CycleId(p)

\* The batches that the owner of the lease has written are all there.
WrittenOK ==
    /\ \A p \in Procs : pc[p] = "renew" => done[p] = 0
    /\ \A p \in Procs : pc[p] = "materialize" /\ OwnsLease(p) =>
        {r.batch : r \in RowsOf(CycleId(p))} = 1 .. done[p]

IInv ==
    /\ TypeOK
    /\ GenerationsOK
    /\ PublishedOK
    /\ RowsOK
    /\ CyclesOK
    /\ WrittenOK
    /\ ActiveCycleComplete
    /\ GenerationsAreCycles

-----------------------------------------------------------------------------
(* Each step keeps each part                                               *)

(* A monitor that has not run satisfies the invariant.                     *)
LEMMA IInvInit == Init => IInv
<1> SUFFICES ASSUME Init PROVE IInv
    OBVIOUS
<1> USE MonitorAssumption
<1>1. TypeOK
    BY DEF Init, TypeOK, NoLease, NoCycle, Labels, Leases, Published, Rows
<1>2. GenerationsOK /\ PublishedOK /\ RowsOK /\ CyclesOK /\ WrittenOK
    BY DEF Init, GenerationsOK, PublishedOK, RowsOK, CyclesOK, WrittenOK, NoCycle, Leading
<1>3. ActiveCycleComplete /\ GenerationsAreCycles
    BY DEF Init, ActiveCycleComplete, GenerationsAreCycles, NoCycle, RowsOf
<1> QED  BY <1>1, <1>2, <1>3 DEF IInv

(* Owners and cycles are tuples of their processes.                        *)
LEMMA Names ==
    ASSUME TypeOK, NEW p \in Procs
    PROVE  /\ Owner(p) \in Procs \X Nat /\ Owner(p) # <<>>
           /\ CycleId(p) \in Cycles /\ CycleId(p) # <<>>
           /\ CycleId(p)[1] = p /\ CycleId(p)[3] = runs[p]
           /\ \A q \in Procs : Owner(p) = Owner(q) => p = q
           /\ \A q \in Procs : CycleId(p) = CycleId(q) => p = q
BY DEF TypeOK, Owner, CycleId, Cycles

(* What the operations write is well typed.                                *)
LEMMA Written ==
    ASSUME TypeOK, NEW p \in Procs
    PROVE  /\ TakeLease(p) => lease' \in Leases /\ generation' \in Nat
           /\ Publish(p) => lease' \in Leases /\ active' \in Published
           /\ PutBatch(p) => rows' \in SUBSET Rows
           /\ NoLease \in Leases /\ [owner |-> Owner(p), live |-> TRUE] \in Leases
<1>1. [owner |-> Owner(p), live |-> TRUE] \in Leases /\ NoLease \in Leases
    BY Names DEF Leases, NoLease
<1>2. TakeLease(p) => lease' \in Leases /\ generation' \in Nat
    BY <1>1 DEF TakeLease, TypeOK, NextGeneration
<1>3. [cycle |-> CycleId(p), gen |-> gen[p], size |-> size[p]] \in Published
    BY Names DEF TypeOK, Published
<1>4. Publish(p) => lease' \in Leases /\ active' \in Published
    BY <1>1, <1>3 DEF Publish
<1>5. ASSUME PutBatch(p) PROVE rows' \in SUBSET Rows
    <2>0. done[p] < size[p]
        BY <1>5 DEF PutBatch
    <2>1. done[p] + 1 \in 1 .. MaxBatches /\ gen[p] \in Nat
        BY <2>0, MonitorAssumption DEF TypeOK
    <2>2. [cycle |-> CycleId(p), gen |-> gen[p], batch |-> done[p] + 1] \in Rows
        BY <2>1, Names DEF Rows
    <2> QED  BY <1>5, <2>2 DEF PutBatch, TypeOK
<1> QED  BY <1>1, <1>2, <1>4, <1>5

(* Every step is well typed.                                               *)
LEMMA TypeStep == ASSUME IInv, Next PROVE TypeOK'
<1> USE MonitorAssumption DEF Goto, Labels
<1>0. TypeOK
    BY DEF IInv
<1>1. ASSUME NEW p \in Procs, Start(p) PROVE TypeOK'
    BY <1>0, <1>1 DEF TypeOK, Start, document
<1>2. ASSUME NEW p \in Procs, AcquireLease(p) PROVE TypeOK'
    <2>1. lease' \in Leases /\ generation' \in Nat /\ active' \in Published
        BY <1>0, <1>2, Written DEF AcquireLease, TakeLease, document, TypeOK
    <2>2. gen' \in [Procs -> Nat] /\ pc' \in [Procs -> Labels]
        BY <1>0, <1>2 DEF AcquireLease, NextGeneration, TypeOK
    <2> QED  BY <1>0, <1>2, <2>1, <2>2 DEF AcquireLease, TypeOK
<1>3. ASSUME NEW p \in Procs, CollectInput(p) PROVE TypeOK'
    BY <1>0, <1>3 DEF TypeOK, CollectInput, document
<1>4. ASSUME NEW p \in Procs, RenewLease(p) PROVE TypeOK'
    <2>1. lease' \in Leases
        BY <1>0, <1>4, Written DEF RenewLease, TypeOK
    <2>2. gen' \in [Procs -> Nat] /\ pc' \in [Procs -> Labels]
        BY <1>0, <1>4 DEF RenewLease, TypeOK
    <2> QED  BY <1>0, <1>4, <2>1, <2>2 DEF RenewLease, TypeOK
<1>5. ASSUME NEW p \in Procs, WriteBatch(p) PROVE TypeOK'
    <2>1. rows' \in SUBSET Rows
        BY <1>0, <1>5, Written DEF WriteBatch
    <2>2. done' \in [Procs -> 0 .. MaxBatches]
        BY <1>0, <1>5 DEF WriteBatch, PutBatch, TypeOK
    <2> QED  BY <1>0, <1>5, <2>1, <2>2 DEF WriteBatch, TypeOK, document
<1>6. ASSUME NEW p \in Procs, PersistSnapshot(p) PROVE TypeOK'
    <2>1. lease' \in Leases /\ generation' \in Nat /\ active' \in Published
        BY <1>0, <1>6, Written DEF PersistSnapshot, Publish, document, TypeOK
    <2> QED  BY <1>0, <1>6, <2>1 DEF PersistSnapshot, TypeOK, local
<1>7. ASSUME NEW p \in Procs, Cleanup(p) PROVE TypeOK'
    BY <1>0, <1>7 DEF TypeOK, Cleanup, Superseded, document, local
<1>8. ASSUME NEW p \in Procs, ReleaseLease(p) PROVE TypeOK'
    BY <1>0, <1>8, Written DEF TypeOK, ReleaseLease, local
<1>9. ASSUME NEW p \in Procs, Fail(p) PROVE TypeOK'
    BY <1>0, <1>9 DEF TypeOK, Fail, document, local
<1>10. ASSUME NEW p \in Procs, LostReply(p) PROVE TypeOK'
    <2>1. lease' \in Leases /\ generation' \in Nat /\ active' \in Published
        BY <1>0, <1>10, Written DEF LostReply, TakeLease, Publish, document, TypeOK
    <2>2. rows' \in SUBSET Rows
        BY <1>0, <1>10, Written DEF LostReply, Superseded, TypeOK
    <2>3. pc' \in [Procs -> Labels]
        BY <1>0, <1>10 DEF LostReply, TypeOK
    <2> QED  BY <1>0, <1>10, <2>1, <2>2, <2>3 DEF LostReply, TypeOK, local
<1>11. ASSUME NEW p \in Procs, Crash(p) PROVE TypeOK'
    BY <1>0, <1>11 DEF TypeOK, Crash, document
<1>12. ASSUME LeaseExpires PROVE TypeOK'
    BY <1>0, <1>12 DEF TypeOK, LeaseExpires, Leases, local
<1> QED  BY <1>1, <1>2, <1>3, <1>4, <1>5, <1>6, <1>7, <1>8, <1>9, <1>10, <1>11, <1>12
             DEF Next, ProcessStep, RunStep

(* A step of one process leaves the others where they are, with their      *)
(* owners and cycles.                                                      *)
LEMMA Others ==
    ASSUME TypeOK, NEW p \in Procs, NEW q \in Procs, p # q,
           ProcessStep(p)
    PROVE  /\ pc'[q] = pc[q] /\ gen'[q] = gen[q]
           /\ size'[q] = size[q] /\ done'[q] = done[q]
           /\ Owner(q)' = Owner(q) /\ CycleId(q)' = CycleId(q)
<1> USE DEF TypeOK, Goto, Owner, CycleId, document, local
<1>1. CASE Start(p)
    BY <1>1 DEF Start
<1>2. CASE AcquireLease(p)
    BY <1>2 DEF AcquireLease
<1>3. CASE CollectInput(p)
    BY <1>3 DEF CollectInput
<1>4. CASE RenewLease(p)
    BY <1>4 DEF RenewLease
<1>5. CASE WriteBatch(p)
    BY <1>5 DEF WriteBatch
<1>6. CASE PersistSnapshot(p)
    BY <1>6 DEF PersistSnapshot
<1>7. CASE Cleanup(p)
    BY <1>7 DEF Cleanup
<1>8. CASE ReleaseLease(p)
    BY <1>8 DEF ReleaseLease
<1>9. CASE Fail(p)
    BY <1>9 DEF Fail
<1>10. CASE LostReply(p)
    BY <1>10 DEF LostReply
<1>11. CASE Crash(p)
    BY <1>11 DEF Crash
<1> QED  BY <1>1, <1>2, <1>3, <1>4, <1>5, <1>6, <1>7, <1>8, <1>9, <1>10, <1>11
            DEF ProcessStep, RunStep

(* A lease is taken with a generation that nobody has, and kept, given     *)
(* back or lost by whoever has it.                                         *)
LEMMA LeaseStep ==
    ASSUME IInv, NEW p \in Procs,
           ProcessStep(p)
    PROVE  \/ TakeLease(p) /\ pc[p] = "acquire" /\ pc'[p] \in {"collect", "idle"}
              /\ (pc'[p] = "collect" => gen'[p] = generation + 1)
           \/ /\ generation' = generation
              /\ lease'.owner \in {lease.owner, <<>>}
              /\ pc'[p] \in Leading => pc[p] \in Leading /\ gen'[p] = gen[p]
<1> USE DEF IInv, TypeOK, GenerationsOK, Goto, document, local, Leading
<1>1. CASE Start(p)
    BY <1>1 DEF Start
<1>2. CASE AcquireLease(p)
    BY <1>2 DEF AcquireLease, NextGeneration
<1>3. CASE CollectInput(p)
    BY <1>3 DEF CollectInput
<1>4. CASE RenewLease(p)
    BY <1>4 DEF RenewLease, OwnsLease
<1>5. CASE WriteBatch(p)
    BY <1>5 DEF WriteBatch
<1>6. CASE PersistSnapshot(p)
    BY <1>6 DEF PersistSnapshot, Publish, NoLease
<1>7. CASE Cleanup(p)
    BY <1>7 DEF Cleanup
<1>8. CASE ReleaseLease(p)
    BY <1>8 DEF ReleaseLease, NoLease
<1>9. CASE Fail(p)
    BY <1>9 DEF Fail
<1>10. CASE LostReply(p)
    BY <1>10 DEF LostReply, Publish, NoLease
<1>11. CASE Crash(p)
    BY <1>11 DEF Crash
<1> QED  BY <1>1, <1>2, <1>3, <1>4, <1>5, <1>6, <1>7, <1>8, <1>9, <1>10, <1>11
            DEF ProcessStep, RunStep

(* Where a step of a run leads, and from where.                            *)
LEMMA PositionStep ==
    ASSUME IInv, NEW p \in Procs, ProcessStep(p)
    PROVE  /\ runs' \in [Procs -> Nat] /\ \A q \in Procs : runs[q] <= runs'[q]
           /\ pc'[p] \in Leading => CycleId(p)' = CycleId(p)
           /\ pc'[p] = "acquire" =>
                rows' = rows /\ pc[p] = "idle" /\ CycleId(p)' = <<p, inc[p], runs[p] + 1>>
           /\ pc'[p] = "collect" => pc[p] = "acquire" /\ rows' = rows
           /\ pc'[p] = "renew" => pc[p] = "collect" /\ rows' = rows /\ done'[p] = 0
           /\ pc'[p] = "materialize" =>
                \/ pc[p] = "renew" /\ rows' = rows /\ done'[p] = done[p]
                \/ pc[p] = "materialize" /\ PutBatch(p) /\ done'[p] = done[p] + 1
<1> USE DEF IInv, TypeOK, Goto, CycleId, document, local, Leading
<1>1. CASE Start(p)
    BY <1>1 DEF Start
<1>2. CASE AcquireLease(p)
    BY <1>2 DEF AcquireLease
<1>3. CASE CollectInput(p)
    BY <1>3 DEF CollectInput
<1>4. CASE RenewLease(p)
    BY <1>4 DEF RenewLease
<1>5. CASE WriteBatch(p)
    BY <1>5 DEF WriteBatch
<1>6. CASE PersistSnapshot(p)
    BY <1>6 DEF PersistSnapshot
<1>7. CASE Cleanup(p)
    BY <1>7 DEF Cleanup
<1>8. CASE ReleaseLease(p)
    BY <1>8 DEF ReleaseLease
<1>9. CASE Fail(p)
    BY <1>9 DEF Fail
<1>10. CASE LostReply(p)
    BY <1>10 DEF LostReply
<1>11. CASE Crash(p)
    BY <1>11 DEF Crash
<1> QED  BY <1>1, <1>2, <1>3, <1>4, <1>5, <1>6, <1>7, <1>8, <1>9, <1>10, <1>11
            DEF ProcessStep, RunStep

\* The four ways a step of a run changes what is stored.
Quiet(p) == rows' = rows /\ active' = active /\ pc'[p] # "cleanup"
Adds(p) ==
    /\ pc[p] = "materialize" /\ pc'[p] \in {"materialize", "release"}
    /\ PutBatch(p) /\ UNCHANGED <<active, gen, runs>>
Removes(p) ==
    /\ pc[p] = "cleanup" /\ pc'[p] \in {"idle", "release"}
    /\ rows' = rows \ Superseded(gen[p]) /\ UNCHANGED <<active, gen, runs>>
Publishes(p) ==
    /\ pc[p] = "materialize" /\ pc'[p] \in {"cleanup", "release"}
    /\ Materialized(p) /\ OwnsLease(p) /\ Publish(p)
    /\ UNCHANGED <<rows, gen, runs>>

(* Batches are added before, and removed after, the owner of the lease     *)
(* publishes the cycle it has written.                                     *)
LEMMA EffectStep ==
    ASSUME IInv, NEW p \in Procs, ProcessStep(p)
    PROVE  Quiet(p) \/ Adds(p) \/ Removes(p) \/ Publishes(p)
<1> USE DEF IInv, TypeOK, Goto, document, local, Quiet, Adds, Removes, Publishes
<1>1. CASE Start(p)
    BY <1>1 DEF Start
<1>2. CASE AcquireLease(p)
    BY <1>2 DEF AcquireLease, TakeLease
<1>3. CASE CollectInput(p)
    BY <1>3 DEF CollectInput
<1>4. CASE RenewLease(p)
    BY <1>4 DEF RenewLease
<1>5. CASE WriteBatch(p)
    BY <1>5 DEF WriteBatch
<1>6. CASE PersistSnapshot(p)
    BY <1>6 DEF PersistSnapshot
<1>7. CASE Cleanup(p)
    BY <1>7 DEF Cleanup
<1>8. CASE ReleaseLease(p)
    BY <1>8 DEF ReleaseLease
<1>9. CASE Fail(p)
    BY <1>9 DEF Fail
<1>10. CASE LostReply(p)
    BY <1>10 DEF LostReply, TakeLease
<1>11. CASE Crash(p)
    BY <1>11 DEF Crash
<1> QED  BY <1>1, <1>2, <1>3, <1>4, <1>5, <1>6, <1>7, <1>8, <1>9, <1>10, <1>11
            DEF ProcessStep, RunStep

(* Generations stay apart, and the owner's stays the newest.               *)
LEMMA GenerationsStep ==
    ASSUME IInv, NEW p \in Procs, ProcessStep(p) PROVE GenerationsOK'
<1>0. TypeOK /\ GenerationsOK /\ generation \in Nat
    BY DEF IInv, TypeOK
<1>1. CASE TakeLease(p) /\ pc[p] = "acquire" /\ pc'[p] \in {"collect", "idle"}
              /\ (pc'[p] = "collect" => gen'[p] = generation + 1)
    <2>1. generation' = generation + 1 /\ lease'.owner = Owner(p)
        BY <1>1 DEF TakeLease, NextGeneration
    <2>2. \A q \in Procs \ {p} : pc'[q] = pc[q] /\ gen'[q] = gen[q] /\ ~OwnsLease(q)'
        BY <1>0, <2>1, Others, Names DEF OwnsLease
    <2>3. \A q \in Procs : gen[q] \in Nat
        BY <1>0 DEF TypeOK
    <2> QED  BY <1>0, <1>1, <2>1, <2>2, <2>3 DEF GenerationsOK, Leading
<1>2. CASE /\ generation' = generation
           /\ lease'.owner \in {lease.owner, <<>>}
           /\ pc'[p] \in Leading => pc[p] \in Leading /\ gen'[p] = gen[p]
    <2>1. \A q \in Procs : pc'[q] \in Leading =>
            pc[q] \in Leading /\ gen'[q] = gen[q] /\ Owner(q)' = Owner(q)
        <3>1. pc'[p] \in Leading => Owner(p)' = Owner(p)
            BY <1>0, PositionStep DEF CycleId, Owner
        <3> QED  BY <1>0, <1>2, <3>1, Others
    <2>2. \A q \in Procs : pc'[q] \in Leading /\ OwnsLease(q)' => OwnsLease(q)
        BY <1>0, <1>2, <2>1, Names DEF OwnsLease
    <2> QED  BY <1>0, <1>2, <2>1, <2>2 DEF GenerationsOK
<1> QED  BY <1>1, <1>2, LeaseStep

(* The counter only grows.                                                 *)
LEMMA GenerationGrows ==
    ASSUME IInv, NEW p \in Procs, ProcessStep(p)
    PROVE  generation' \in Nat /\ generation \in Nat /\ generation' >= generation
<1>1. generation \in Nat
    BY DEF IInv, TypeOK
<1>2. generation' = generation \/ generation' = generation + 1
    BY LeaseStep DEF TakeLease, NextGeneration
<1> QED  BY <1>1, <1>2

(* What is published never gets newer than the counter, nor older.         *)
LEMMA PublishedStep ==
    ASSUME IInv, NEW p \in Procs, ProcessStep(p)
    PROVE  PublishedOK' /\ active'.gen >= active.gen
<1>0. TypeOK /\ PublishedOK /\ active.gen \in Nat /\ \A q \in Procs : gen[q] \in Nat
    BY DEF IInv, TypeOK, Published
<1>1. CASE active' = active /\ pc'[p] # "cleanup"
    <2>1. \A q \in Procs : pc'[q] = "cleanup" => gen'[q] <= active.gen
        BY <1>0, <1>1, Others DEF PublishedOK
    <2> QED  BY <1>0, <1>1, <2>1, GenerationGrows DEF PublishedOK
<1>2. CASE Publishes(p)
    <2>1. active'.gen = generation /\ gen[p] = generation /\ generation' = generation
        BY <1>2 DEF IInv, GenerationsOK, Leading, Publishes, Publish
    <2>2. \A q \in Procs : pc'[q] = "cleanup" => gen'[q] <= generation
        BY <1>0, <1>2, <2>1, Others, GenerationGrows DEF PublishedOK, Publishes
    <2> QED  BY <1>0, <2>1, <2>2, GenerationGrows DEF PublishedOK
<1> QED  BY <1>1, <1>2, EffectStep DEF Quiet, Adds, Removes

(* A cycle is written under the generation of its run.                     *)
LEMMA RowsStep ==
    ASSUME IInv, NEW p \in Procs, ProcessStep(p) PROVE RowsOK'
<1>0. /\ TypeOK /\ RowsOK /\ CyclesOK /\ GenerationsOK /\ generation \in Nat
      /\ \A r \in rows : r.gen <= generation /\ r.gen \in Nat /\ r.cycle \in Cycles
    BY DEF IInv, TypeOK, Rows, GenerationsAreCycles
<1> DEFINE new == [cycle |-> CycleId(p), gen |-> gen[p], batch |-> done[p] + 1]
<1>1. \A r \in rows' : r \in rows \/ (Adds(p) /\ r = new)
    BY EffectStep DEF Quiet, Adds, Removes, Publishes, PutBatch
<1>2. ASSUME NEW r \in rows' PROVE r.cycle[3] <= runs'[r.cycle[1]]
    <2>1. r.cycle \in Cycles /\ r.cycle[3] <= runs[r.cycle[1]]
        <3>1. CASE r \in rows
            BY <1>0, <3>1 DEF RowsOK
        <3>2. CASE r = new
            <4>1. r.cycle = CycleId(p) /\ runs[p] \in Nat
                BY <1>0, <3>2 DEF TypeOK
            <4> QED  BY <1>0, <4>1, Names
        <3> QED  BY <1>1, <3>1, <3>2
    <2>2. r.cycle[1] \in Procs /\ r.cycle[3] \in Nat
        BY <2>1 DEF Cycles
    <2> QED  BY <1>0, <2>1, <2>2, PositionStep DEF TypeOK
<1>3. ASSUME NEW r \in rows', r.cycle = active'.cycle PROVE r.gen = active'.gen
    <2>1. CASE Publishes(p)
        BY <1>0, <1>3, <2>1 DEF Publishes, Publish, RowsOK, Leading
    <2>2. CASE ~Publishes(p)
        <3>1. active' = active
            BY <2>2, EffectStep DEF Quiet, Adds, Removes
        <3>2. CASE r \in rows
            BY <1>0, <1>3, <3>1, <3>2 DEF RowsOK
        <3>3. CASE Adds(p) /\ r = new
            BY <1>0, <1>3, <3>1, <3>3 DEF CyclesOK, Adds, Leading
        <3> QED  BY <1>1, <3>2, <3>3
    <2> QED  BY <2>1, <2>2
<1>4. ASSUME NEW r \in rows', NEW q \in Procs \ {p}, pc'[q] \in Leading
      PROVE  r.cycle = CycleId(q)' <=> r.gen = gen'[q]
    <2>1. pc[q] \in Leading /\ gen'[q] = gen[q] /\ CycleId(q)' = CycleId(q)
        BY <1>0, <1>4, Others
    <2>2. CASE r \in rows
        BY <1>0, <2>1, <2>2 DEF RowsOK
    <2>3. CASE Adds(p) /\ r = new
        BY <1>0, <2>1, <2>3, Names DEF GenerationsOK, Adds, Leading
    <2> QED  BY <1>1, <2>2, <2>3
<1>5. ASSUME NEW r \in rows', pc'[p] \in Leading
      PROVE  r.cycle = CycleId(p)' <=> r.gen = gen'[p]
    <2>0. CycleId(p)' = CycleId(p)
        BY <1>5, PositionStep
    <2>1. CASE pc[p] \in Leading /\ gen'[p] = gen[p]
        BY <1>0, <1>1, <2>0, <2>1 DEF RowsOK
    <2>2. CASE ~(pc[p] \in Leading /\ gen'[p] = gen[p])
        <3>1. pc[p] = "acquire" /\ pc'[p] = "collect" /\ gen'[p] = generation + 1
            BY <1>5, <2>2, LeaseStep DEF Leading
        <3>2. r \in rows /\ r.cycle # CycleId(p)
            BY <1>0, <1>1, <3>1, PositionStep DEF CyclesOK
        <3> QED  BY <1>0, <2>0, <3>1, <3>2
    <2> QED  BY <2>1, <2>2
<1> QED  BY <1>2, <1>3, <1>4, <1>5 DEF RowsOK

(* A run that starts has a cycle nobody wrote or published.                *)
LEMMA CyclesStep ==
    ASSUME IInv, NEW p \in Procs, ProcessStep(p) PROVE CyclesOK'
<1>0. /\ TypeOK /\ RowsOK /\ CyclesOK
      /\ \A r \in rows : r.cycle \in Cycles
      /\ active.cycle \in {<<>>} \cup Cycles
    BY DEF IInv, TypeOK, Rows, Published
<1>1. ASSUME NEW c \in Cycles, c[3] <= runs[c[1]]
      PROVE  c[3] <= runs'[c[1]] /\ (pc'[p] = "acquire" => c # CycleId(p)')
    <2>1. c[1] \in Procs /\ c[3] \in Nat
        BY DEF Cycles
    <2>2. c[3] <= runs'[c[1]]
        BY <1>0, <1>1, <2>1, PositionStep DEF TypeOK
    <2>3. ASSUME pc'[p] = "acquire", c = <<p, inc[p], runs[p] + 1>> PROVE FALSE
        BY <1>0, <1>1, <2>3 DEF TypeOK
    <2> QED  BY <2>2, <2>3, PositionStep
<1>2. active'.cycle # <<>> => active'.cycle[3] <= runs'[active'.cycle[1]]
    <2>1. CASE Publishes(p)
        <3>1. active'.cycle = CycleId(p) /\ runs' = runs /\ runs[p] \in Nat
            BY <1>0, <2>1 DEF Publishes, Publish, TypeOK
        <3> QED  BY <1>0, <3>1, Names
    <2>2. CASE ~Publishes(p)
        BY <1>0, <1>1, <2>2, EffectStep DEF CyclesOK, Quiet, Adds, Removes
    <2> QED  BY <2>1, <2>2
<1>3. ASSUME NEW q \in Procs \ {p}, pc'[q] \in {"acquire", "collect", "renew"},
             NEW r \in rows'
      PROVE  r.cycle # CycleId(q)'
    <2>1. pc'[q] = pc[q] /\ CycleId(q)' = CycleId(q)
        BY <1>0, Others
    <2>2. r \in rows \/ r.cycle = CycleId(p)
        BY EffectStep DEF Quiet, Adds, Removes, Publishes, PutBatch
    <2> QED  BY <1>0, <1>3, <2>1, <2>2, Names DEF CyclesOK
<1>4. ASSUME pc'[p] \in {"acquire", "collect", "renew"}, NEW r \in rows'
      PROVE  r.cycle # CycleId(p)'
    <2>1. r \in rows
        BY <1>4, PositionStep
    <2>2. CASE pc'[p] = "acquire"
        BY <1>0, <1>1, <2>1, <2>2 DEF RowsOK
    <2>3. CASE pc'[p] # "acquire"
        BY <1>0, <1>4, <2>1, <2>3, PositionStep DEF CyclesOK, Leading
    <2> QED  BY <2>2, <2>3
<1>5. ASSUME NEW q \in Procs \ {p}, pc'[q] \in Leading \cup {"acquire"}
      PROVE  active'.cycle # CycleId(q)'
    <2>1. pc'[q] = pc[q] /\ CycleId(q)' = CycleId(q)
        BY <1>0, Others
    <2>2. active' = active \/ active'.cycle = CycleId(p)
        BY EffectStep DEF Quiet, Adds, Removes, Publishes, Publish
    <2> QED  BY <1>0, <1>5, <2>1, <2>2, Names DEF CyclesOK
<1>6. ASSUME pc'[p] \in Leading \cup {"acquire"} PROVE active'.cycle # CycleId(p)'
    <2>1. active' = active
        BY <1>6, EffectStep DEF Quiet, Adds, Removes, Publishes, Leading
    <2>2. CASE pc'[p] = "acquire"
        <3>1. CycleId(p)' # <<>>
            BY <2>2, PositionStep
        <3>2. CASE active.cycle # <<>>
            BY <1>0, <1>1, <2>1, <2>2, <3>2 DEF CyclesOK
        <3> QED  BY <2>1, <3>1, <3>2
    <2>3. CASE pc'[p] # "acquire"
        BY <1>0, <1>6, <2>1, <2>3, PositionStep DEF CyclesOK, Leading
    <2> QED  BY <2>2, <2>3
<1> QED  BY <1>2, <1>3, <1>4, <1>5, <1>6 DEF CyclesOK

(* The owner's batches are there: only its cycle grows by its own batches, *)
(* and only older generations are removed.                                 *)
LEMMA WrittenStep ==
    ASSUME IInv, NEW p \in Procs, ProcessStep(p) PROVE WrittenOK'
<1>0. /\ TypeOK /\ RowsOK /\ CyclesOK /\ WrittenOK /\ GenerationsOK /\ PublishedOK
      /\ generation \in Nat /\ active.gen \in Nat
      /\ \A r \in rows : r.gen \in Nat
      /\ \A q \in Procs : gen[q] \in Nat /\ done[q] \in Nat
    BY MonitorAssumption DEF IInv, TypeOK, Rows, Published
<1>1. ASSUME NEW q \in Procs, pc'[q] = "renew" PROVE done'[q] = 0
    BY <1>0, <1>1, Others, PositionStep DEF WrittenOK
<1>2. ASSUME NEW q \in Procs \ {p}, pc'[q] = "materialize", OwnsLease(q)'
      PROVE  {r.batch : r \in RowsOf(CycleId(q))'} = 1 .. done'[q]
    <2>1. pc[q] = "materialize" /\ CycleId(q)' = CycleId(q) /\ done'[q] = done[q]
          /\ Owner(q)' = Owner(q)
        BY <1>0, <1>2, Others
    <2>2. OwnsLease(q)
        BY <1>0, <1>2, <2>1, LeaseStep, Names DEF OwnsLease, TakeLease
    <2>3. gen[q] = generation
        BY <1>0, <2>1, <2>2 DEF GenerationsOK, Leading
    <2>4. RowsOf(CycleId(q))' = RowsOf(CycleId(q))
        <3>1. CASE Quiet(p) \/ Publishes(p)
            BY <2>1, <3>1 DEF Quiet, Publishes, RowsOf
        <3>2. CASE Adds(p)
            BY <1>0, <2>1, <3>2, Names DEF Adds, PutBatch, RowsOf
        <3>3. CASE Removes(p)
            <4>1. gen[p] <= gen[q]
                BY <1>0, <2>3, <3>3 DEF Removes, PublishedOK
            <4>2. \A r \in rows : r.cycle = CycleId(q) => r \notin Superseded(gen[p])
                BY <1>0, <2>1, <4>1 DEF RowsOK, Leading, Superseded
            <4> QED  BY <2>1, <3>3, <4>2 DEF Removes, RowsOf
        <3> QED  BY <3>1, <3>2, <3>3, EffectStep
    <2> QED  BY <1>0, <2>1, <2>2, <2>4 DEF WrittenOK
<1>3. ASSUME pc'[p] = "materialize", OwnsLease(p)'
      PROVE  {r.batch : r \in RowsOf(CycleId(p))'} = 1 .. done'[p]
    <2>0. CycleId(p)' = CycleId(p)
        BY <1>3, PositionStep DEF Leading
    <2>1. CASE pc[p] = "renew" /\ rows' = rows /\ done'[p] = done[p]
        BY <1>0, <2>0, <2>1 DEF WrittenOK, CyclesOK, RowsOf
    <2>2. CASE pc[p] = "materialize" /\ PutBatch(p) /\ done'[p] = done[p] + 1
        <3>1. OwnsLease(p)
            <4>1. Owner(p)' = Owner(p)
                BY <2>0 DEF CycleId, Owner
            <4> QED  BY <1>0, <1>3, <2>2, <4>1, LeaseStep, Names DEF OwnsLease
        <3>2. {r.batch : r \in RowsOf(CycleId(p))} = 1 .. done[p]
            BY <1>0, <2>2, <3>1 DEF WrittenOK
        <3>3. {r.batch : r \in RowsOf(CycleId(p))'}
                = {r.batch : r \in RowsOf(CycleId(p))} \cup {done[p] + 1}
            <4> DEFINE new == [cycle |-> CycleId(p), gen |-> gen[p], batch |-> done[p] + 1]
            <4>1. rows' = rows \cup {new} /\ new.cycle = CycleId(p) /\ new.batch = done[p] + 1
                BY <2>2 DEF PutBatch
            <4> HIDE DEF new
            <4>2. RowsOf(CycleId(p))' = RowsOf(CycleId(p)) \cup {new}
                BY <2>0, <4>1 DEF RowsOf
            <4> QED  BY <4>1, <4>2
        <3> QED  BY <1>0, <2>2, <3>2, <3>3
    <2> QED  BY <1>3, <2>1, <2>2, PositionStep
<1> QED  BY <1>1, <1>2, <1>3 DEF WrittenOK

(* The published cycle is complete: a run publishes what it has written,   *)
(* and no run adds to it or removes from it afterwards.                    *)
LEMMA CompleteStep ==
    ASSUME IInv, NEW p \in Procs, ProcessStep(p) PROVE ActiveCycleComplete'
<1>0. /\ TypeOK /\ RowsOK /\ CyclesOK /\ WrittenOK /\ PublishedOK /\ ActiveCycleComplete
      /\ active.gen \in Nat /\ gen[p] \in Nat
    BY DEF IInv, TypeOK, Published
<1>1. CASE Quiet(p)
    BY <1>0, <1>1 DEF Quiet, ActiveCycleComplete, RowsOf
<1>2. CASE Adds(p)
    BY <1>0, <1>2 DEF Adds, PutBatch, ActiveCycleComplete, RowsOf, CyclesOK, Leading
<1>3. CASE Removes(p)
    <2>1. \A r \in rows : r.cycle = active.cycle => r \notin Superseded(gen[p])
        BY <1>0, <1>3 DEF Removes, RowsOK, PublishedOK, Superseded
    <2> QED  BY <1>0, <1>3, <2>1 DEF Removes, ActiveCycleComplete, RowsOf
<1>4. CASE Publishes(p)
    <2>1. active'.cycle = CycleId(p) /\ active'.size = size[p] /\ rows' = rows
        BY <1>4 DEF Publishes, Publish
    <2>2. {r.batch : r \in RowsOf(CycleId(p))} = 1 .. size[p]
        BY <1>0, <1>4 DEF Publishes, Materialized, WrittenOK
    <2> QED  BY <2>1, <2>2 DEF ActiveCycleComplete, RowsOf
<1> QED  BY <1>1, <1>2, <1>3, <1>4, EffectStep

(* A generation stays with one cycle.                                      *)
LEMMA GenerationCycleStep ==
    ASSUME IInv, NEW p \in Procs, ProcessStep(p) PROVE GenerationsAreCycles'
<1>0. /\ RowsOK /\ GenerationsOK /\ GenerationsAreCycles
      /\ gen[p] \in Nat /\ \A r \in rows : r.gen \in Nat
    BY DEF IInv, TypeOK, Rows
<1> DEFINE new == [cycle |-> CycleId(p), gen |-> gen[p], batch |-> done[p] + 1]
<1>1. \A r \in rows' : r \in rows \/ (pc[p] = "materialize" /\ r = new)
    BY EffectStep DEF Quiet, Adds, Removes, Publishes, PutBatch
<1>2. ASSUME NEW r \in rows' PROVE r.gen <= generation'
    BY <1>0, <1>1, GenerationGrows DEF GenerationsAreCycles, GenerationsOK, Leading
<1>3. ASSUME NEW r \in rows', NEW s \in rows', r.gen = s.gen PROVE r.cycle = s.cycle
    BY <1>0, <1>1, <1>3 DEF GenerationsAreCycles, RowsOK, Leading
<1> QED  BY <1>2, <1>3 DEF GenerationsAreCycles

(* Every step of the monitor keeps the invariant.                          *)
LEMMA IInvStep == IInv /\ [Next]_vars => IInv' /\ active'.gen >= active.gen
<1>1. ASSUME IInv, NEW p \in Procs, ProcessStep(p)
      PROVE  IInv' /\ active'.gen >= active.gen
    <2>1. TypeOK'
        BY <1>1, TypeStep DEF Next
    <2> QED  BY <1>1, <2>1, GenerationsStep, PublishedStep, RowsStep, CyclesStep, WrittenStep,
                CompleteStep, GenerationCycleStep DEF IInv
<1>2. ASSUME IInv, LeaseExpires \/ UNCHANGED vars
      PROVE  IInv' /\ active'.gen >= active.gen
    <2>0. /\ UNCHANGED <<generation, active, rows, pc, local>> /\ active.gen \in Nat
          /\ lease'.owner = lease.owner
        BY <1>2 DEF IInv, TypeOK, Published, LeaseExpires, vars, document
    <2>1. TypeOK'
        BY <1>2, TypeStep DEF Next, IInv, TypeOK, vars, document, local
    <2>2. \A p \in Procs : /\ OwnsLease(p)' <=> OwnsLease(p)
                           /\ CycleId(p)' = CycleId(p)
                           /\ RowsOf(CycleId(p))' = RowsOf(CycleId(p))
        BY <2>0 DEF OwnsLease, Owner, CycleId, RowsOf, local
    <2>3. GenerationsOK' /\ PublishedOK'
        BY <1>2, <2>0, <2>2 DEF IInv, GenerationsOK, PublishedOK, local
    <2>4. RowsOK' /\ CyclesOK' /\ WrittenOK'
        BY <1>2, <2>0, <2>2 DEF IInv, RowsOK, CyclesOK, WrittenOK, local
    <2>5. ActiveCycleComplete' /\ GenerationsAreCycles'
        BY <1>2, <2>0 DEF IInv, ActiveCycleComplete, GenerationsAreCycles, RowsOf
    <2> QED  BY <2>0, <2>1, <2>3, <2>4, <2>5 DEF IInv
<1> QED  BY <1>1, <1>2 DEF Next

-----------------------------------------------------------------------------
(* The results                                                             *)

(* The inductive invariant holds in every state.                           *)
THEOREM Invariant == Spec => []IInv
<1>1. IInv /\ [Next]_vars => IInv'
    BY IInvStep
<1> QED  BY IInvInit, <1>1, PTL DEF Spec

(* Every state is well typed.                                              *)
THEOREM TypeCorrect == Spec => []TypeOK
<1>1. IInv => TypeOK
    BY DEF IInv
<1> QED  BY <1>1, Invariant, PTL

(* The diagnostics that the published snapshot names are all there, for    *)
(* any number of replicas and batches, however leases run out, replies are *)
(* lost and processes stop.                                                *)
THEOREM CompleteCycle == Spec => []ActiveCycleComplete
<1>1. IInv => ActiveCycleComplete
    BY DEF IInv
<1> QED  BY <1>1, Invariant, PTL

(* Deleting older generations deletes whole cycles, and never leaves a row *)
(* newer than the counter behind.                                          *)
THEOREM CyclesApart == Spec => []GenerationsAreCycles
<1>1. IInv => GenerationsAreCycles
    BY DEF IInv
<1> QED  BY <1>1, Invariant, PTL

(* A slow replica never publishes over a later generation.                 *)
THEOREM PublishedGrows == Spec => PublishedGenerationGrows
<1>1. IInv /\ [Next]_vars => [active'.gen >= active.gen]_vars
    BY IInvStep
<1> QED  BY <1>1, Invariant, PTL DEF Spec, PublishedGenerationGrows
=============================================================================
