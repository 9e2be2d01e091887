---------------------------- MODULE MCWabaCampaign ----------------------------
(***************************************************************************)
(* Small instances of WabaCampaign for TLC.  Processes and handlers are    *)
(* interchangeable, so states that differ by their names are explored once *)
(* in the runs that check no liveness.                                     *)
(***************************************************************************)
EXTENDS WabaCampaign, TLC

Symmetry == Permutations(Procs) \cup Permutations(Handlers)

\* What the future can depend on: of a version only whether it is current,
\* and of a loaded document only what the pending operations still read.
DocView(d, fields) == <<d.ver = ver, [f \in fields |-> d[f]]>>

WorkerView(p) ==
    CASE pc[p] \in {"saveDefer"} ->
            DocView(mem[p], {"status"})
      [] pc[p] \in {"saveClaim", "ensureClaim"} ->
            <<DocView(mem[p], {"rcp", "status"}), idx[p]>>
      [] pc[p] \in {"dispatch"} -> idx[p]
      [] pc[p] \in {"ensureResult", "reload"} -> <<idx[p], result[p]>>
      [] pc[p] \in {"saveResult"} ->
            <<DocView(mem[p], {"rcp", "counts"}), idx[p], result[p]>>
      [] pc[p] \in {"saveQueued", "ensureQueued", "saveRecover", "ensureRecover",
                    "saveFinal"} ->
            DocView(mem[p], (DOMAIN mem[p]) \ {"ver", "nextRunAt"})
      [] pc[p] \in {"saveRunning"} ->
            DocView(mem[p], {"rcp", "status", "counts"})
      [] pc[p] \in {"createNext", "saveParent"} ->
            DocView(mem[p], {"lease", "series"})
      [] OTHER -> <<>>

CallView(h) ==
    <<call[h].op, call[h].r,
      CASE call[h].op = "pause" -> DocView(call[h].doc, {"status"})
        [] call[h].op = "resume" -> DocView(call[h].doc, {"nextRunAt"})
        [] call[h].op \in {"cancel", "reply"} ->
            DocView(call[h].doc, (DOMAIN call[h].doc) \ {"ver", "nextRunAt"})
        [] OTHER -> <<>> >>

View ==
    <<status, rcp, counts, lease, series, nextRunAt, clock, pc, inc, scheduled,
      [p \in Procs |-> WorkerView(p)], [h \in Handlers |-> CallView(h)],
      calls, successors, bounds>>
=============================================================================
