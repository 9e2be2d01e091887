-------------------------- MODULE OperationalMonitor --------------------------
(***************************************************************************)
(* The health monitor of services/operationalMonitorService: replicas take *)
(* turns through a lease stored in the singleton health snapshot.  One run *)
(* takes the lease and a new generation, probes, renews the lease, writes  *)
(* the channel diagnostics of its cycle batch by batch, publishes the      *)
(* snapshot that names the cycle, and deletes older generations.  Every    *)
(* database operation is one action.                                       *)
(***************************************************************************)
EXTENDS Integers

CONSTANTS
    Procs,       \* server processes
    MaxBatches,  \* most batches of channel diagnostics in one cycle
    MaxRuns,     \* bound: runs of each process
    MaxFaults    \* bound: failed operations and crashes

ASSUME MonitorAssumption ==
    MaxBatches \in Nat /\ MaxRuns \in Nat /\ MaxFaults \in Nat

VARIABLES
    \* the health document: monitorLease, diagnosticGeneration, and the cycle
    \* and number of batches of channels that were published
    lease, generation, active,
    \* the channel diagnostics: [cycle, gen, batch]
    rows,
    \* per process: position of runOnce, process.pid-random (the owner's
    \* incarnation), runs started, generation of the lease, batches to write,
    \* batches written
    pc, inc, runs, gen, size, done,
    faults

document == <<lease, generation, active>>
local == <<inc, runs, gen, size, done>>
vars == <<document, rows, pc, local, faults>>

NoLease == [owner |-> <<>>, live |-> FALSE]
NoCycle == [cycle |-> <<>>, gen |-> 0, size |-> 0]

Owner(p) == <<p, inc[p]>>
\* crypto.randomBytes: every run has a cycle of its own.
CycleId(p) == <<p, inc[p], runs[p]>>
RowsOf(c) == {r \in rows : r.cycle = c}

Init ==
    /\ lease = NoLease /\ generation = 0 /\ active = NoCycle
    /\ rows = {}
    /\ pc = [p \in Procs |-> "idle"]
    /\ inc = [p \in Procs |-> 0]
    /\ runs = [p \in Procs |-> 0]
    /\ gen = [p \in Procs |-> 0]
    /\ size = [p \in Procs |-> 0]
    /\ done = [p \in Procs |-> 0]
    /\ faults = 0

Goto(p, label) == pc' = [pc EXCEPT ![p] = label]

-----------------------------------------------------------------------------
(* One run                                                                 *)

\* The timer fires; state.running skips a run while another is in flight.
Start(p) ==
    /\ pc[p] = "idle" /\ runs[p] < MaxRuns
    /\ runs' = [runs EXCEPT ![p] = @ + 1]
    /\ Goto(p, "acquire")
    /\ UNCHANGED <<document, rows, inc, gen, size, done, faults>>

\* Mutant of OwnsLease: the owner is not compared.
OwnsLeaseOfAnyone(p) == lease.owner # <<>>
OwnsLease(p) == lease.owner = Owner(p)

\* The filters compare expiresAt with a time read before the call: a lease
\* that has just run out may look live still, to its owner and to others.
LeaseFree(p) == lease.owner = <<>> \/ ~lease.live \/ OwnsLease(p)
LeaseTaken(p) == lease.owner # <<>> /\ ~OwnsLease(p)
LeaseLost(p) == ~OwnsLease(p) \/ ~lease.live

\* Mutant of NextGeneration: the lease is taken without counting.
SameGeneration == IF generation = 0 THEN 1 ELSE generation
NextGeneration == generation + 1

TakeLease(p) ==
    /\ lease' = [owner |-> Owner(p), live |-> TRUE]
    /\ generation' = NextGeneration
    /\ UNCHANGED active

\* findOneAndUpdate with upsert: an occupied lease ends in a duplicate key.
AcquireLease(p) ==
    /\ pc[p] = "acquire"
    /\ \/ /\ LeaseFree(p)
          /\ TakeLease(p)
          /\ gen' = [gen EXCEPT ![p] = NextGeneration]
          /\ Goto(p, "collect")
       \/ /\ LeaseTaken(p)
          /\ Goto(p, "idle") /\ UNCHANGED <<document, gen>>
    /\ UNCHANGED <<rows, inc, runs, size, done, faults>>

\* collectSnapshotInput found the channels of n batches.
CollectInput(p) ==
    /\ pc[p] = "collect"
    /\ \E n \in 0 .. MaxBatches : size' = [size EXCEPT ![p] = n]
    /\ done' = [done EXCEPT ![p] = 0]
    /\ Goto(p, "renew")
    /\ UNCHANGED <<document, rows, inc, runs, gen, faults>>

\* A lost lease throws: the finally block releases.
RenewLease(p) ==
    /\ pc[p] = "renew"
    /\ \/ /\ OwnsLease(p)
          /\ lease' = [owner |-> Owner(p), live |-> TRUE]
          /\ gen' = [gen EXCEPT ![p] = generation]
          /\ Goto(p, "materialize")
       \/ /\ LeaseLost(p)
          /\ Goto(p, "release") /\ UNCHANGED <<lease, gen>>
    /\ UNCHANGED <<generation, active, rows, inc, runs, size, done, faults>>

\* Mutant of PutBatch: the loop runs once too often.
PutBatchOneMore(p) ==
    /\ done[p] <= size[p]
    /\ rows' = rows \cup
            {[cycle |-> CycleId(p), gen |-> gen[p], batch |-> done[p] + 1]}
PutBatch(p) ==
    /\ done[p] < size[p]
    /\ rows' = rows \cup
            {[cycle |-> CycleId(p), gen |-> gen[p], batch |-> done[p] + 1]}

\* One bulkWrite of materializeChannelDiagnostics; no lease is checked.
WriteBatch(p) ==
    /\ pc[p] = "materialize"
    /\ PutBatch(p)
    /\ done' = [done EXCEPT ![p] = @ + 1]
    /\ UNCHANGED <<document, pc, inc, runs, gen, size, faults>>

\* Every batch is awaited before the snapshot is published.
Materialized(p) == done[p] = size[p]

\* The snapshot is published and the lease given back in one update.
Publish(p) ==
    /\ active' = [cycle |-> CycleId(p), gen |-> gen[p], size |-> size[p]]
    /\ lease' = NoLease
    /\ UNCHANGED generation

PersistSnapshot(p) ==
    /\ pc[p] = "materialize" /\ Materialized(p)
    /\ \/ OwnsLease(p) /\ Publish(p) /\ Goto(p, "cleanup")
       \/ LeaseLost(p) /\ Goto(p, "release") /\ UNCHANGED document
    /\ UNCHANGED <<rows, local, faults>>

\* Mutant of Superseded: the published generation itself is deleted.
SupersededToo(g) == {r \in rows : r.gen <= g}
Superseded(g) == {r \in rows : r.gen < g}

\* cleanupChannelDiagnosticGenerations
Cleanup(p) ==
    /\ pc[p] = "cleanup"
    /\ rows' = rows \ Superseded(gen[p])
    /\ Goto(p, "idle")
    /\ UNCHANGED <<document, local, faults>>

ReleaseLease(p) ==
    /\ pc[p] = "release"
    /\ lease' = IF OwnsLease(p) THEN NoLease ELSE lease
    /\ Goto(p, "idle")
    /\ UNCHANGED <<generation, active, rows, local, faults>>

-----------------------------------------------------------------------------
(* Time and faults                                                         *)

LeaseExpires ==
    /\ lease.live
    /\ lease' = [owner |-> lease.owner, live |-> FALSE]
    /\ UNCHANGED <<generation, active, rows, pc, local, faults>>

\* A probe or a database operation throws; a failed acquisition or release
\* ends the run, any other error releases the lease first.
Fail(p) ==
    /\ pc[p] # "idle" /\ faults < MaxFaults
    /\ faults' = faults + 1
    /\ Goto(p, IF pc[p] \in {"acquire", "release"} THEN "idle" ELSE "release")
    /\ UNCHANGED <<document, rows, local>>

\* The database applies an operation whose reply never arrives.
LostReply(p) ==
    /\ faults < MaxFaults
    /\ faults' = faults + 1
    /\ \/ /\ pc[p] = "acquire" /\ LeaseFree(p)
          /\ TakeLease(p) /\ Goto(p, "idle") /\ UNCHANGED rows
       \/ /\ pc[p] = "materialize"
          /\ PutBatch(p) /\ Goto(p, "release") /\ UNCHANGED document
       \/ /\ pc[p] = "materialize" /\ Materialized(p) /\ OwnsLease(p)
          /\ Publish(p) /\ Goto(p, "release") /\ UNCHANGED rows
       \/ /\ pc[p] = "cleanup"
          /\ rows' = rows \ Superseded(gen[p])
          /\ Goto(p, "release") /\ UNCHANGED document
    /\ UNCHANGED local

\* The process stops, and starts again with another owner.
Crash(p) ==
    /\ faults < MaxFaults
    /\ faults' = faults + 1
    /\ inc' = [inc EXCEPT ![p] = @ + 1]
    /\ Goto(p, "idle")
    /\ UNCHANGED <<document, rows, runs, gen, size, done>>

RunStep(p) ==
    \/ AcquireLease(p) \/ CollectInput(p) \/ RenewLease(p) \/ WriteBatch(p)
    \/ PersistSnapshot(p) \/ Cleanup(p) \/ ReleaseLease(p)

ProcessStep(p) == Start(p) \/ RunStep(p) \/ Fail(p) \/ LostReply(p) \/ Crash(p)

Next == LeaseExpires \/ \E p \in Procs : ProcessStep(p)

Spec == Init /\ [][Next]_vars

-----------------------------------------------------------------------------
(* Properties                                                              *)

Labels ==
    {"idle", "acquire", "collect", "renew", "materialize", "cleanup", "release"}
Leases == [owner : {<<>>} \cup (Procs \X Nat), live : BOOLEAN]
Cycles == Procs \X Nat \X Nat
Published == [cycle : {<<>>} \cup Cycles, gen : Nat, size : 0 .. MaxBatches]
Rows == [cycle : Cycles, gen : Nat, batch : 1 .. MaxBatches]

\* Types: no cycle has more batches than there are channels for.
TypeOK ==
    /\ lease \in Leases
    /\ generation \in Nat
    /\ active \in Published
    /\ rows \in SUBSET Rows
    /\ pc \in [Procs -> Labels]
    /\ inc \in [Procs -> Nat] /\ runs \in [Procs -> Nat] /\ gen \in [Procs -> Nat]
    /\ size \in [Procs -> 0 .. MaxBatches] /\ done \in [Procs -> 0 .. MaxBatches]
    /\ faults \in Nat

\* The diagnostics that the published snapshot names are all there: no run
\* publishes a partial cycle, and no cleanup of a slower or faster replica
\* deletes the published one.
ActiveCycleComplete ==
    {r.batch : r \in RowsOf(active.cycle)} = 1 .. active.size

\* A replica that was slow never publishes over a later generation.
PublishedGenerationGrows == [][active'.gen >= active.gen]_vars

\* A generation belongs to one cycle, so that deleting older generations
\* deletes whole cycles, and no row is newer than the generation counter:
\* what a lost run leaves behind is removed by the next cleanup.
GenerationsAreCycles ==
    \A r \in rows :
        r.gen <= generation /\ \A s \in rows : r.gen = s.gen => r.cycle = s.cycle
=============================================================================
