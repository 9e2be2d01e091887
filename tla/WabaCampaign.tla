---------------------------- MODULE WabaCampaign ----------------------------
(***************************************************************************)
(* One WhatsApp template campaign of services/wabaTemplateCampaignService: *)
(* a Transactions document shared by several server processes.  A worker   *)
(* (processCampaign) takes a lease stored in the document, and for each    *)
(* recipient saves a claim, calls the provider and saves the result; a     *)
(* sweep restarts workers; API handlers pause, resume and cancel, and the  *)
(* inbound webhook marks replies.  Every database operation is one action. *)
(*                                                                         *)
(* Mongoose (external): save() writes the modified paths.  A save that     *)
(* writes the recipients array is filtered by the loaded __v and bumps it  *)
(* (VersionError otherwise); every other save is last-writer-wins.  The    *)
(* Mixed path campaign, which holds the lease, is written as a whole.      *)
(***************************************************************************)
EXTENDS Integers, FiniteSets

CONSTANTS
    Procs,        \* server processes
    Handlers,     \* slots for API and webhook handlers in flight
    N,            \* number of recipients
    MaxAttempts,  \* WABA_TEMPLATE_CAMPAIGN_MAX_ATTEMPTS
    Ops,          \* handlers that may be called
    Recurring,    \* campaign.recurrence.enabled, occurrences remaining
    Scheduled,    \* the campaign was created with a run time in the future
    HasWindow,    \* campaign.sendingWindow is set
    MayLapse,     \* a lease may run out while its owner still works
    MaxFaults,    \* bound: crashes and database errors
    MaxOps        \* bound: handler calls

ASSUME ConstantsAssumption ==
    /\ N \in Nat \ {0} /\ MaxAttempts \in Nat \ {0}
    /\ MaxFaults \in Nat /\ MaxOps \in Nat
    /\ Ops \subseteq {"pause", "resume", "cancel", "reply"}
    /\ {Recurring, Scheduled, HasWindow, MayLapse} \subseteq BOOLEAN

Recipients == 1 .. N
Claimable == {"queued", "retry"}
Pending == Claimable \cup {"sending"}
Done == {"accepted", "failed", "canceled"}
Finished == {"completed", "completed_with_errors", "failed", "canceled"}

VARIABLES
    \* the stored Transactions document
    status, rcp, ver, counts, lease, series, nextRunAt,
    \* clock predicates: recipients whose sending is stale, sending window open
    stale, inWindow,
    \* per process: worker position, its loaded document, claimed index,
    \* provider result, incarnation (PROCESS_OWNER),
    \* whether a scheduleCampaign callback or timer is pending
    pc, mem, idx, result, inc, scheduled,
    \* handlers in flight
    call,
    \* provider calls per recipient and attempt; next occurrences created
    calls, successors,
    faults, ops

stored == <<status, rcp, ver, counts, lease, series, nextRunAt>>
clock == <<stale, inWindow>>
worker == <<pc, mem, idx, result, inc, scheduled>>
bounds == <<faults, ops>>
vars == <<stored, clock, worker, call, calls, successors, bounds>>

-----------------------------------------------------------------------------
(* The document and operators on it                                        *)

NoLease == [owner |-> <<>>, live |-> FALSE]
NewRecipient == [st |-> "queued", att |-> 0, replied |-> FALSE]
NewRecipients == [r \in Recipients |-> NewRecipient]
NoCounts == [sent |-> 0, failed |-> 0, skipped |-> 0]

\* What findOne returns: a copy of the document, with the recipients that
\* look stale in it.
Snapshot ==
    [status |-> status, rcp |-> rcp, ver |-> ver, counts |-> counts,
     lease |-> lease, series |-> series, nextRunAt |-> nextRunAt,
     stale |-> stale]

NoDoc ==
    [status |-> "none", rcp |-> NewRecipients, ver |-> -1,
     counts |-> NoCounts, lease |-> NoLease, series |-> "none",
     nextRunAt |-> "null", stale |-> {}]
NoCall == [op |-> "none", r |-> 0, doc |-> NoDoc]

\* The versioned save of d finds the document it was loaded from.
Current(d) == d.ver = ver

Owner(p) == <<p, inc[p]>>
HoldsLease(p) == lease.owner = Owner(p)
\* Mutant of LeaseFree: the comparison of lockUntil is the wrong way round.
LeaseFreeInverted(p) == lease.owner = <<>> \/ lease.live \/ HoldsLease(p)
LeaseFree(p) == lease.owner = <<>> \/ ~lease.live \/ HoldsLease(p)

CountOf(rs, S) == Cardinality({r \in Recipients : rs[r].st \in S})
Summary(rs) ==
    [sent |-> CountOf(rs, {"accepted"}), failed |-> CountOf(rs, {"failed"}),
     skipped |-> CountOf(rs, {"canceled"})]

\* Mutant of MergedCounts: a counter that went down is not written.
MergedCountsOnlyUp(old, new) ==
    [f \in DOMAIN new |-> IF new[f] <= old[f] THEN counts[f] ELSE new[f]]

\* save() writes the counters that differ from the loaded ones.
MergedCounts(old, new) ==
    [f \in DOMAIN new |-> IF new[f] = old[f] THEN counts[f] ELSE new[f]]

StaleSending(d) == {r \in d.stale : d.rcp[r].st = "sending"}

WithStatus(recipient, st) ==
    [st |-> st, att |-> recipient.att, replied |-> recipient.replied]

\* Mutant of RecoveredStatus: one attempt too many is handed back.
RecoveredStatusOneMore(recipient) ==
    IF recipient.att > MaxAttempts THEN "failed" ELSE "retry"
RecoveredStatus(recipient) ==
    IF recipient.att >= MaxAttempts THEN "failed" ELSE "retry"

\* recoverStaleSendingRecipients
Recovered(d) ==
    [r \in Recipients |->
        IF r \in StaleSending(d)
        THEN WithStatus(d.rcp[r], RecoveredStatus(d.rcp[r])) ELSE d.rcp[r]]

\* Mutant of ClaimableIn: failed recipients are tried again.
ClaimableInFailed(rs) ==
    {r \in Recipients : rs[r].st \in Claimable \cup {"failed"}
                        /\ rs[r].att < MaxAttempts}
ClaimableIn(rs) == {r \in Recipients : rs[r].st \in Claimable}
NextIndex(rs) == CHOOSE r \in ClaimableIn(rs) : \A s \in ClaimableIn(rs) : r <= s

\* Mutant of Claimed: only the first claim counts as an attempt.
ClaimedOnce(rs, r) ==
    [rs EXCEPT ![r] =
        [st |-> "sending", att |-> IF rs[r].att = 0 THEN 1 ELSE rs[r].att,
         replied |-> rs[r].replied]]
Claimed(rs, r) ==
    [rs EXCEPT ![r] =
        [st |-> "sending", att |-> rs[r].att + 1, replied |-> rs[r].replied]]

Answered(rs, r, outcome) == [rs EXCEPT ![r] = WithStatus(rs[r], outcome)]
Replied(rs, r) ==
    [rs EXCEPT ![r] = [st |-> rs[r].st, att |-> rs[r].att, replied |-> TRUE]]

\* Mutant of CanceledAll: recipients with an outcome are canceled too.
CanceledAllDone(rs) == [r \in Recipients |-> WithStatus(rs[r], "canceled")]
CanceledAll(rs) ==
    [r \in Recipients |->
        IF rs[r].st \in Pending THEN WithStatus(rs[r], "canceled") ELSE rs[r]]

\* finalCampaignStatus, reached when no recipient is pending
FinalStatus(rs) ==
    LET s == Summary(rs) IN
    IF s.failed > 0 /\ s.sent = 0 THEN "failed"
    ELSE IF s.failed > 0 THEN "completed_with_errors" ELSE "completed"

\* Where a worker that holds document d goes next in one loop iteration of
\* processCampaign: the name of its next database operation.
\* (first its mutant: unanswered claims do not keep the campaign running)
ClaimOrFinishEarly(rs) ==
    IF ClaimableIn(rs) # {} THEN "saveClaim" ELSE "saveFinal"

ClaimOrFinish(rs) ==
    IF ClaimableIn(rs) # {} THEN "saveClaim"
    ELSE IF \E r \in Recipients : rs[r].st = "sending" THEN "saveRunning"
    ELSE "saveFinal"

AfterWindow(d) ==
    IF ~inWindow THEN "saveDefer"
    ELSE IF StaleSending(d) # {} THEN "saveRecover"
    ELSE ClaimOrFinish(d.rcp)

\* Mutant of StopsWorker: a completed campaign is processed again.
StopsWorkerUnlessCompleted(d) ==
    \/ d.status \in {"paused", "canceled", "failed"}
    \/ d.status = "scheduled" /\ d.nextRunAt = "future"
StopsWorker(d) ==
    \/ d.status \in Finished \cup {"paused"}
    \/ d.status = "scheduled" /\ d.nextRunAt = "future"

AfterLoad(d) ==
    IF StopsWorker(d) THEN "release"
    ELSE IF d.status = "scheduled" /\ inWindow THEN "saveQueued"
    ELSE AfterWindow(d)

-----------------------------------------------------------------------------
(* createCampaign saved the document; its process has scheduleCampaign to  *)
(* run, unless it stopped first or autostart was off.                      *)

\* resolveCampaignTiming: the schedule and the sending window decide when the
\* campaign runs first.
InitialStatus == IF Scheduled THEN "scheduled" ELSE "queued"
InitialRunAt ==
    IF Scheduled THEN "future" ELSE IF HasWindow THEN "past" ELSE "null"

Init ==
    /\ rcp = NewRecipients /\ ver = 0 /\ counts = NoCounts
    /\ lease = NoLease
    /\ series = IF Recurring THEN "open" ELSE "none"
    /\ status = InitialStatus /\ nextRunAt = InitialRunAt
    /\ stale = {} /\ inWindow = TRUE
    /\ pc = [p \in Procs |-> "idle"]
    /\ mem = [p \in Procs |-> NoDoc]
    /\ idx = [p \in Procs |-> 0]
    /\ result = [p \in Procs |-> "none"]
    /\ inc = [p \in Procs |-> 0]
    /\ scheduled \in [Procs -> BOOLEAN]
    /\ Cardinality({p \in Procs : scheduled[p]}) <= 1
    /\ call = [h \in Handlers |-> NoCall]
    /\ calls = [r \in Recipients |-> [n \in 1 .. MaxAttempts |-> 0]]
    /\ successors = 0
    /\ faults = 0 /\ ops = 0

-----------------------------------------------------------------------------
(* What starts a worker in process p                                       *)

\* processCampaign: the activeCampaigns guard admits one worker per process.
StartWorker(p) == pc' = [pc EXCEPT ![p] = IF @ = "idle" THEN "acquire" ELSE @]

\* scheduleCampaign: a campaign still in the future re-arms its timer, any
\* other is handed to processCampaign.
ScheduleCampaign(p) ==
    /\ scheduled[p]
    /\ ~(status = "scheduled" /\ nextRunAt = "future")
    /\ scheduled' = [scheduled EXCEPT ![p] = FALSE]
    /\ StartWorker(p)
    /\ UNCHANGED <<stored, clock, mem, idx, result, inc, call, calls, successors,
                   bounds>>

\* Mutant of SweepMatches: stale sending recipients are not looked for.
SweepMatchesClaimable ==
    \/ status = "scheduled" /\ nextRunAt = "past"
    \/ status = "running" /\ ClaimableIn(rcp) # {}

\* What findDueScheduledCampaigns matches.
SweepMatches ==
    \/ status = "scheduled" /\ nextRunAt = "past"
    \/ status = "running" /\ \E r \in Recipients :
            rcp[r].st \in Claimable \/ (rcp[r].st = "sending" /\ r \in stale)

\* runScheduledCampaignSweep hands what it found to processCampaign.
Sweep(p) ==
    /\ SweepMatches
    /\ StartWorker(p)
    /\ UNCHANGED <<stored, clock, mem, idx, result, inc, scheduled, call, calls,
                   successors, bounds>>

-----------------------------------------------------------------------------
(* The worker of process p                                                 *)

Goto(p, label) == pc' = [pc EXCEPT ![p] = label]

\* The end of processCampaign's finally block.
Exit(p) ==
    /\ Goto(p, "idle")
    /\ mem' = [mem EXCEPT ![p] = NoDoc]
    /\ idx' = [idx EXCEPT ![p] = 0]
    /\ result' = [result EXCEPT ![p] = "none"]

AcquireLease(p) ==
    /\ pc[p] = "acquire"
    /\ IF LeaseFree(p)
       THEN lease' = [owner |-> Owner(p), live |-> TRUE] /\ Goto(p, "ensureTop")
       ELSE Goto(p, "idle") /\ UNCHANGED lease
    /\ UNCHANGED <<status, rcp, ver, counts, series, nextRunAt, clock, mem, idx,
                   result, inc, scheduled, call, calls, successors, bounds>>

\* renewProcessingLease succeeds for the owner in the document, expired or not.
RenewLease(p) == lease' = IF HoldsLease(p) THEN [lease EXCEPT !.live = TRUE] ELSE lease

\* ensureProcessingLease at label from; the worker goes on at label to, or
\* leaves when it lost the lease.
Ensure(p, from, to) ==
    /\ pc[p] = from
    /\ RenewLease(p)
    /\ Goto(p, IF HoldsLease(p) THEN to ELSE "release")
    /\ UNCHANGED <<status, rcp, ver, counts, series, nextRunAt, clock, mem, idx,
                   result, inc, scheduled, call, calls, successors, bounds>>

EnsureTop(p) == Ensure(p, "ensureTop", "load")
EnsureQueued(p) == Ensure(p, "ensureQueued", AfterWindow(mem[p]))
EnsureRecover(p) == Ensure(p, "ensureRecover", ClaimOrFinish(mem[p].rcp))
EnsureResult(p) == Ensure(p, "ensureResult", "reload")
EnsureNext(p) == Ensure(p, "ensureNext", "delay")
EnsureEnd(p) == Ensure(p, "ensureEnd", "release")

DelayOver(p) ==
    /\ pc[p] = "delay"
    /\ Goto(p, "ensureTop")
    /\ UNCHANGED <<stored, clock, mem, idx, result, inc, scheduled, call, calls,
                   successors, bounds>>

Load(p) ==
    /\ pc[p] = "load"
    /\ mem' = [mem EXCEPT ![p] = Snapshot]
    /\ Goto(p, AfterLoad(Snapshot))
    /\ UNCHANGED <<stored, clock, idx, result, inc, scheduled, call, calls,
                   successors, bounds>>

\* deferCampaignOutsideSendingWindow and its save.  campaign.nextRunAt is set
\* on the loaded object without markModified: only status reaches the store.
SaveDefer(p) ==
    /\ pc[p] = "saveDefer"
    /\ status' = IF mem[p].status = "scheduled" THEN status ELSE "scheduled"
    /\ Goto(p, "release")
    /\ UNCHANGED <<rcp, ver, counts, lease, series, nextRunAt, clock, mem, idx,
                   result, inc, scheduled, call, calls, successors, bounds>>

SaveQueued(p) ==
    /\ pc[p] = "saveQueued"
    /\ status' = "queued"
    /\ mem' = [mem EXCEPT ![p] = [mem[p] EXCEPT !.status = "queued"]]
    /\ Goto(p, "ensureQueued")
    /\ UNCHANGED <<rcp, ver, counts, lease, series, nextRunAt, clock, idx,
                   result, inc, scheduled, call, calls, successors, bounds>>

\* The document in memory after a save of recipients rs as version v.
Written(d, st, rs, v) ==
    [status |-> st, rcp |-> rs, ver |-> v, counts |-> d.counts,
     lease |-> d.lease, series |-> d.series, nextRunAt |-> d.nextRunAt,
     stale |-> {}]

\* A versioned save of recipients rs by process p.
SaveRecipients(p, rs) ==
    /\ Current(mem[p])
    /\ rcp' = rs
    /\ ver' = ver + 1
    /\ stale' = {r \in stale : rs[r] = mem[p].rcp[r]}

SaveRecover(p) ==
    /\ pc[p] = "saveRecover"
    /\ SaveRecipients(p, Recovered(mem[p]))
    /\ mem' = [mem EXCEPT ![p] = Written(mem[p], mem[p].status, rcp', ver')]
    /\ Goto(p, "ensureRecover")
    /\ UNCHANGED <<status, counts, lease, series, nextRunAt, inWindow, idx,
                   result, inc, scheduled, call, calls, successors, bounds>>

\* The claim: the recipient becomes sending and its attempt is counted
\* before the provider is called.
SaveClaim(p) ==
    /\ pc[p] = "saveClaim"
    /\ idx' = [idx EXCEPT ![p] = NextIndex(mem[p].rcp)]
    /\ SaveRecipients(p, Claimed(mem[p].rcp, idx'[p]))
    /\ status' = IF mem[p].status = "running" THEN status ELSE "running"
    /\ mem' = [mem EXCEPT ![p] = Written(mem[p], "running", rcp', ver')]
    /\ Goto(p, "ensureClaim")
    /\ UNCHANGED <<counts, lease, series, nextRunAt, inWindow, result, inc,
                   scheduled, call, calls, successors, bounds>>

\* The attempt that the claim of process p counted.
Attempt(p) == mem[p].rcp[idx[p]].att
SendAttempt(r, n) ==
    calls' = [calls EXCEPT ![r] = [calls[r] EXCEPT ![n] = calls[r][n] + 1]]

\* The lease is renewed and dispatchBoundWabaTemplate is called at once.
EnsureClaim(p) ==
    /\ pc[p] = "ensureClaim"
    /\ RenewLease(p)
    /\ IF HoldsLease(p)
       THEN /\ Goto(p, "dispatch")
            /\ SendAttempt(idx[p], Attempt(p))
       ELSE Goto(p, "release") /\ UNCHANGED calls
    /\ UNCHANGED <<status, rcp, ver, counts, series, nextRunAt, clock, mem, idx,
                   result, inc, scheduled, call, successors, bounds>>

\* The provider answers; a rejected or failed call counts as failed.
DispatchResult(p) ==
    /\ pc[p] = "dispatch"
    /\ \E o \in {"accepted", "failed"} : result' = [result EXCEPT ![p] = o]
    /\ Goto(p, "ensureResult")
    /\ UNCHANGED <<stored, clock, mem, idx, inc, scheduled, call, calls, successors,
                   bounds>>

Reload(p) ==
    /\ pc[p] = "reload"
    /\ mem' = [mem EXCEPT ![p] = Snapshot]
    /\ Goto(p, "saveResult")
    /\ UNCHANGED <<stored, clock, idx, result, inc, scheduled, call, calls,
                   successors, bounds>>

\* Whatever the reloaded recipient says, it takes the provider's answer.
SaveResult(p) ==
    /\ pc[p] = "saveResult"
    /\ SaveRecipients(p, Answered(mem[p].rcp, idx[p], result[p]))
    /\ counts' = MergedCounts(mem[p].counts, Summary(rcp'))
    /\ mem' = [mem EXCEPT ![p] = Written(mem[p], mem[p].status, rcp', ver')]
    /\ Goto(p, "ensureNext")
    /\ UNCHANGED <<status, lease, series, nextRunAt, inWindow, idx, result, inc,
                   scheduled, call, calls, successors, bounds>>

\* A save whose document changed since it was loaded throws.
VersionError(p) ==
    /\ pc[p] \in {"saveRecover", "saveClaim", "saveResult"}
    /\ ~Current(mem[p])
    /\ Goto(p, "release")
    /\ UNCHANGED <<stored, clock, mem, idx, result, inc, scheduled, call, calls,
                   successors, bounds>>

\* Another worker's claim is unanswered: leave the campaign running.
SaveRunning(p) ==
    /\ pc[p] = "saveRunning"
    /\ status' = IF mem[p].status = "running" THEN status ELSE "running"
    /\ counts' = MergedCounts(mem[p].counts, Summary(mem[p].rcp))
    /\ Goto(p, "ensureEnd")
    /\ UNCHANGED <<rcp, ver, lease, series, nextRunAt, clock, mem, idx, result,
                   inc, scheduled, call, calls, successors, bounds>>

\* markCampaignModified: the whole campaign object is written back, the
\* lease as it was when the document was loaded included.
WriteCampaign(d) == lease' = d.lease /\ series' = d.series

SaveFinal(p) ==
    /\ pc[p] = "saveFinal"
    /\ status' = FinalStatus(mem[p].rcp)
    /\ counts' = MergedCounts(mem[p].counts, Summary(mem[p].rcp))
    /\ WriteCampaign(mem[p])
    /\ Goto(p, IF mem[p].series \in {"open", "next_scheduled"}
               THEN "createNext" ELSE "ensureEnd")
    /\ UNCHANGED <<rcp, ver, nextRunAt, clock, mem, idx, result, inc, scheduled,
                   call, calls, successors, bounds>>

\* createNextRecurringCampaign: the next occurrence is saved, then the parent
\* that names it; past the end date only the parent is saved.
SaveNextOccurrence(p) ==
    /\ pc[p] = "createNext"
    /\ successors' = successors + 1
    /\ mem' = [mem EXCEPT ![p] = [mem[p] EXCEPT !.series = "next_scheduled"]]
    /\ Goto(p, "saveParent")
    /\ UNCHANGED <<stored, clock, idx, result, inc, scheduled, call, calls, bounds>>

SeriesOver(p) ==
    /\ pc[p] = "createNext"
    /\ mem' = [mem EXCEPT ![p] = [mem[p] EXCEPT !.series = "finished"]]
    /\ Goto(p, "saveParent")
    /\ UNCHANGED <<stored, clock, idx, result, inc, scheduled, call, calls,
                   successors, bounds>>

SaveParent(p) ==
    /\ pc[p] = "saveParent"
    /\ WriteCampaign(mem[p])
    /\ Goto(p, "ensureEnd")
    /\ UNCHANGED <<status, rcp, ver, counts, nextRunAt, clock, mem, idx, result,
                   inc, scheduled, call, calls, successors, bounds>>

ReleaseLease(p) ==
    /\ pc[p] = "release"
    /\ lease' = IF HoldsLease(p) THEN NoLease ELSE lease
    /\ Exit(p)
    /\ UNCHANGED <<status, rcp, ver, counts, series, nextRunAt, clock, inc,
                   scheduled, call, calls, successors, bounds>>

\* The heartbeat timer renews the lease while the worker waits.
Heartbeat(p) ==
    /\ pc[p] \in {"dispatch", "delay"}
    /\ HoldsLease(p)
    /\ RenewLease(p)
    /\ UNCHANGED <<status, rcp, ver, counts, series, nextRunAt, clock, worker,
                   call, calls, successors, bounds>>

-----------------------------------------------------------------------------
(* API handlers and the reply webhook: findOne, then save                  *)

Respond(h) == call' = [call EXCEPT ![h] = NoCall]

\* The handler found the document and its check lets it go on to the save.
HandlerLoad(h, op, r, enabled) ==
    /\ op \in Ops /\ ops < MaxOps
    /\ call[h].op = "none"
    /\ enabled
    /\ call' = [call EXCEPT ![h] = [op |-> op, r |-> r, doc |-> Snapshot]]
    /\ ops' = ops + 1
    /\ UNCHANGED <<stored, clock, worker, calls, successors, faults>>

PauseLoad(h) == HandlerLoad(h, "pause", 0, status \notin Finished)
ResumeLoad(h) == HandlerLoad(h, "resume", 0, status = "paused")
CancelLoad(h) == HandlerLoad(h, "cancel", 0, status \notin Finished)
ReplyLoad(h, r) ==
    HandlerLoad(h, "reply", r, rcp[r].st = "accepted" /\ ~rcp[r].replied)

PauseSave(h) ==
    /\ call[h].op = "pause"
    /\ status' = IF call[h].doc.status = "paused" THEN status ELSE "paused"
    /\ Respond(h)
    /\ UNCHANGED <<rcp, ver, counts, lease, series, nextRunAt, clock, worker,
                   calls, successors, bounds>>

\* Process p, which serves the call, then runs scheduleCampaign.
ResumeSave(h, p) ==
    /\ call[h].op = "resume"
    /\ status' = IF call[h].doc.nextRunAt = "future" THEN "scheduled" ELSE "queued"
    /\ scheduled' = [scheduled EXCEPT ![p] = TRUE]
    /\ Respond(h)
    /\ UNCHANGED <<rcp, ver, counts, lease, series, nextRunAt, clock, pc, mem,
                   idx, result, inc, calls, successors, bounds>>

CancelSave(h) ==
    LET d == call[h].doc IN
    /\ call[h].op = "cancel"
    /\ Current(d)
    /\ rcp' = CanceledAll(d.rcp)
    /\ ver' = ver + 1
    /\ status' = "canceled"
    /\ counts' = MergedCounts(d.counts, Summary(rcp'))
    /\ stale' = {}
    /\ Respond(h)
    /\ UNCHANGED <<lease, series, nextRunAt, inWindow, worker, calls, successors,
                   bounds>>

\* markCampaignReplyConversion writes the recipients and the whole campaign.
ReplySave(h) ==
    LET d == call[h].doc IN
    /\ call[h].op = "reply"
    /\ Current(d)
    /\ rcp' = Replied(d.rcp, call[h].r)
    /\ ver' = ver + 1
    /\ WriteCampaign(d)
    /\ Respond(h)
    /\ UNCHANGED <<status, counts, nextRunAt, clock, worker, calls, successors,
                   bounds>>

\* The versioned save of a handler throws: the route answers with an error.
HandlerFails(h) ==
    /\ call[h].op \in {"cancel", "reply"}
    /\ ~Current(call[h].doc)
    /\ Respond(h)
    /\ UNCHANGED <<stored, clock, worker, calls, successors, bounds>>

-----------------------------------------------------------------------------
(* Time and faults                                                         *)

Working(o) ==
    \E p \in Procs : Owner(p) = o /\ pc[p] \notin {"idle", "acquire"}

LeaseExpires ==
    /\ lease.live
    /\ MayLapse \/ ~Working(lease.owner)
    /\ lease' = [lease EXCEPT !.live = FALSE]
    /\ UNCHANGED <<status, rcp, ver, counts, series, nextRunAt, clock, worker,
                   call, calls, successors, bounds>>

SendingGrowsStale(r) ==
    /\ rcp[r].st = "sending" /\ r \notin stale
    /\ stale' = stale \cup {r}
    /\ UNCHANGED <<stored, inWindow, worker, call, calls, successors, bounds>>

RunTimeComes ==
    /\ nextRunAt = "future"
    /\ nextRunAt' = "past"
    /\ UNCHANGED <<status, rcp, ver, counts, lease, series, clock, worker, call,
                   calls, successors, bounds>>

WindowTurns ==
    /\ HasWindow
    /\ inWindow' = ~inWindow
    /\ UNCHANGED <<stored, stale, worker, call, calls, successors, bounds>>

\* A database operation of the worker throws; the finally block releases the
\* lease, and logs a release that throws itself.
DbError(p) ==
    /\ pc[p] \notin {"idle", "dispatch", "delay"}
    /\ faults < MaxFaults
    /\ faults' = faults + 1
    /\ IF pc[p] \in {"acquire", "release"} THEN Exit(p)
       ELSE Goto(p, "release") /\ UNCHANGED <<mem, idx, result>>
    /\ UNCHANGED <<stored, clock, inc, scheduled, call, calls, successors, ops>>

\* Process p stops and starts again: timers and callbacks are gone, and
\* PROCESS_OWNER is a new uuid.
Crash(p) ==
    /\ faults < MaxFaults
    /\ faults' = faults + 1
    /\ Exit(p)
    /\ inc' = [inc EXCEPT ![p] = @ + 1]
    /\ scheduled' = [scheduled EXCEPT ![p] = FALSE]
    /\ UNCHANGED <<stored, clock, call, calls, successors, ops>>

-----------------------------------------------------------------------------
WorkerStep(p) ==
    \/ AcquireLease(p) \/ EnsureTop(p) \/ Load(p) \/ SaveDefer(p)
    \/ SaveQueued(p) \/ EnsureQueued(p) \/ SaveRecover(p) \/ EnsureRecover(p)
    \/ SaveClaim(p) \/ EnsureClaim(p) \/ DispatchResult(p) \/ EnsureResult(p)
    \/ Reload(p) \/ SaveResult(p) \/ EnsureNext(p) \/ DelayOver(p)
    \/ VersionError(p) \/ SaveRunning(p) \/ SaveFinal(p)
    \/ SaveNextOccurrence(p) \/ SeriesOver(p) \/ SaveParent(p) \/ EnsureEnd(p)
    \/ ReleaseLease(p)

HandlerSaves(h) ==
    \/ PauseSave(h) \/ CancelSave(h) \/ ReplySave(h) \/ HandlerFails(h)
    \/ \E p \in Procs : ResumeSave(h, p)

HandlerStep(h) ==
    \/ PauseLoad(h) \/ ResumeLoad(h) \/ CancelLoad(h)
    \/ \E r \in Recipients : ReplyLoad(h, r)
    \/ HandlerSaves(h)

ProcessStep(p) ==
    \/ ScheduleCampaign(p) \/ Sweep(p)
    \/ WorkerStep(p) \/ Heartbeat(p) \/ DbError(p) \/ Crash(p)

Environment ==
    \/ LeaseExpires \/ RunTimeComes \/ WindowTurns
    \/ \E r \in Recipients : SendingGrowsStale(r)

Next ==
    \/ \E p \in Procs : ProcessStep(p)
    \/ \E h \in Handlers : HandlerStep(h)
    \/ Environment

Spec == Init /\ [][Next]_vars

\* The event loop runs what is ready, the database and the provider answer,
\* the sweep's interval timer fires, and time passes.  Nothing is assumed of
\* the callers of the API, of faults or of the sending window.
Fairness ==
    /\ \A p \in Procs :
        /\ WF_vars(WorkerStep(p)) /\ WF_vars(ScheduleCampaign(p))
        /\ WF_vars(Sweep(p))
    /\ WF_vars(LeaseExpires) /\ WF_vars(RunTimeComes)
    /\ \A r \in Recipients : WF_vars(SendingGrowsStale(r))
    /\ \A h \in Handlers : WF_vars(HandlerSaves(h))

FairSpec == Spec /\ Fairness

-----------------------------------------------------------------------------
(* Properties                                                              *)

Statuses == {"queued", "scheduled", "running", "paused"} \cup Finished
Labels ==
    {"idle", "acquire", "ensureTop", "load", "saveDefer", "saveQueued",
     "ensureQueued", "saveRecover", "ensureRecover", "saveClaim", "ensureClaim",
     "dispatch", "ensureResult", "reload", "saveResult", "ensureNext", "delay",
     "saveRunning", "saveFinal", "createNext", "saveParent", "ensureEnd",
     "release"}
Owners == {<<>>} \cup (Procs \X Nat)
Leases == [owner : Owners, live : BOOLEAN]
RecipientType ==
    [st : Pending \cup Done, att : 0 .. MaxAttempts, replied : BOOLEAN]
CountsType == [sent : 0 .. N, failed : 0 .. N, skipped : 0 .. N]
SeriesType == {"none", "open", "next_scheduled", "finished"}
Docs ==
    [status : Statuses \cup {"none"}, rcp : [Recipients -> RecipientType],
     ver : Nat \cup {-1}, counts : CountsType, lease : Leases,
     series : SeriesType, nextRunAt : {"null", "future", "past"},
     stale : SUBSET Recipients]

\* Types: the attempts of a recipient never pass MaxAttempts.
TypeOK ==
    /\ status \in Statuses
    /\ rcp \in [Recipients -> RecipientType]
    /\ ver \in Nat
    /\ counts \in CountsType
    /\ lease \in Leases
    /\ series \in SeriesType
    /\ nextRunAt \in {"null", "future", "past"}
    /\ stale \in SUBSET Recipients
    /\ inWindow \in BOOLEAN
    /\ pc \in [Procs -> Labels]
    /\ mem \in [Procs -> Docs]
    /\ idx \in [Procs -> 0 .. N]
    /\ result \in [Procs -> {"none", "accepted", "failed"}]
    /\ inc \in [Procs -> Nat]
    /\ scheduled \in [Procs -> BOOLEAN]
    /\ call \in [Handlers -> [op : {"none", "pause", "resume", "cancel", "reply"},
                              r : 0 .. N, doc : Docs]]
    /\ calls \in [Recipients -> [1 .. MaxAttempts -> Nat]]
    /\ successors \in Nat
    /\ faults \in Nat /\ ops \in Nat

\* The provider is called at most once for each attempt of a recipient, and
\* only for an attempt the store has counted: however leases lapse, workers
\* race and processes stop, no recipient is sent more than MaxAttempts
\* templates.
EachAttemptSentOnce ==
    \A r \in Recipients : \A n \in 1 .. MaxAttempts :
        calls[r][n] <= (IF n <= rcp[r].att THEN 1 ELSE 0)

PhaseOf(st) ==
    IF st \in Claimable THEN "waiting"
    ELSE IF st = "sending" THEN "claimed" ELSE "settled"

Delivery ==
    INSTANCE CampaignDelivery WITH
        phase <- [r \in Recipients |-> PhaseOf(rcp[r].st)],
        attempts <- [r \in Recipients |-> rcp[r].att],
        called <- [r \in Recipients |->
                    {n \in 1 .. MaxAttempts : calls[r][n] > 0}]

\* The campaign implements CampaignDelivery: no save of a stale document
\* gives a settled recipient back to the workers, skips or repeats an
\* attempt, or lets an uncounted call out.
ImplementsDelivery == Delivery!Spec

\* A campaign shown as finished or canceled has no recipient left to send to.
FinishedHasNoPending ==
    status \in Finished => \A r \in Recipients : rcp[r].st \in Done

\* The stored counters of a finished campaign are those of its recipients,
\* although several saves write only the counters they changed.
FinishedCountsAgree == status \in Finished => counts = Summary(rcp)

\* While leases outlive the work they cover, one process at a time works on
\* the campaign: activeCampaigns only guards a process against itself.
ActiveLeaseExcludesOthers ==
    \A p, q \in Procs :
        pc[p] \notin {"idle", "acquire"} /\ pc[q] \notin {"idle", "acquire"} => p = q

\* A template the provider accepted is not recorded as anything else later,
\* by a late answer or by a cancel, while leases outlive the work and no reply
\* writes an old one back.
AcceptedIsKept ==
    [][\A r \in Recipients :
        rcp[r].st = "accepted" => rcp'[r].st = "accepted"]_vars

\* A recurring campaign is followed by one next occurrence: a second one
\* would send every later template of the series twice.
AtMostOneNextOccurrence == successors <= 1

\* A recipient that a running campaign has still to serve gets an outcome,
\* whichever worker stopped on the way.
PendingIsSettled ==
    \A r \in Recipients :
        status = "running" /\ rcp[r].st \in Pending ~> rcp[r].st \in Done
=============================================================================
