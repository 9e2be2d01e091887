-------------------------- MODULE WabaCampaignProofs --------------------------
(***************************************************************************)
(* Proofs about WabaCampaign for every number of processes, recipients,    *)
(* attempts and handlers, every interleaving, lapsing leases and faults;   *)
(* and, from "While leases outlive the work they cover" on, what holds     *)
(* only while the heartbeat comes in time and no reply is marked.          *)
(***************************************************************************)
EXTENDS WabaCampaign, FiniteSetTheorems, WellFoundedInduction, TLAPS

-----------------------------------------------------------------------------
(* The inductive invariant                                                 *)

\* A loaded document is old, or its recipients are the stored ones; what was
\* settled when it was loaded is settled now.
DocAt(d, rs, v) ==
    /\ d.ver <= v
    /\ d.ver = v => d.rcp = rs
    /\ \A r \in Recipients : d.rcp[r].st \in Done => rs[r].st \in Done

DocsOK ==
    /\ \A p \in Procs : DocAt(mem[p], rcp, ver)
    /\ \A h \in Handlers : DocAt(call[h].doc, rcp, ver)

\* A recipient that may be claimed has an attempt left.
AttemptsLeft ==
    \A r \in Recipients : rcp[r].st \in Claimable => rcp[r].att < MaxAttempts

\* What a worker at label l knows of the recipients it has in memory, of the
\* index it claimed and of the provider's answer.
LabelAt(l, rs, i, o) ==
    /\ l = "saveClaim" => ClaimableIn(rs) # {}
    /\ l = "saveFinal" => \A r \in Recipients : rs[r].st \in Done
    /\ l \in {"ensureClaim", "dispatch", "ensureResult", "reload", "saveResult"}
        => i \in Recipients
    /\ l \in {"ensureResult", "reload", "saveResult"} => o \in {"accepted", "failed"}

LabelsOK == \A p \in Procs : LabelAt(pc[p], mem[p].rcp, idx[p], result[p])

\* A claim that is saved and not yet sent holds a counted attempt that the
\* provider has not seen and that no other worker holds.
ClaimsOK ==
    \A p \in Procs : pc[p] = "ensureClaim" =>
        /\ Attempt(p) \in 1 .. rcp[idx[p]].att
        /\ calls[idx[p]][Attempt(p)] = 0
        /\ \A q \in Procs \ {p} :
            pc[q] = "ensureClaim" /\ idx[q] = idx[p] => Attempt(q) # Attempt(p)

IInv ==
    /\ TypeOK
    /\ DocsOK
    /\ AttemptsLeft
    /\ LabelsOK
    /\ ClaimsOK
    /\ EachAttemptSentOnce
    /\ FinishedHasNoPending

-----------------------------------------------------------------------------
(* Lemmas about the operators                                              *)

RcpType == [Recipients -> RecipientType]

(* A nonempty set of naturals has a least element.                         *)
LEMMA LeastNatural ==
    ASSUME NEW S, S \subseteq Nat, S # {}
    PROVE  \E m \in S : \A n \in S : m <= n
<1>1. PICK m \in S : \A n \in S : ~(<<n, m>> \in OpToRel(<, Nat))
    BY NatLessThanWellFounded, WFMin, Zenon
<1>2. \A n \in S : ~(n < m)
    BY <1>1, Zenon DEF OpToRel
<1> QED  BY <1>2

(* The recipient that findIndex returns is one that may be claimed.        *)
LEMMA NextIndexClaimable ==
    ASSUME NEW rs, ClaimableIn(rs) # {}
    PROVE  NextIndex(rs) \in ClaimableIn(rs)
<1>1. ClaimableIn(rs) \subseteq Nat
    BY ConstantsAssumption DEF ClaimableIn, Recipients
<1>2. \E m \in ClaimableIn(rs) : \A n \in ClaimableIn(rs) : m <= n
    BY <1>1, LeastNatural
<1> QED  BY <1>2 DEF NextIndex

(* The counters of a summary lie between 0 and N.                          *)
LEMMA SummaryType == \A rs : Summary(rs) \in CountsType
<1>1. ASSUME NEW rs, NEW S PROVE CountOf(rs, S) \in 0 .. N
    <2>1. IsFiniteSet(Recipients) /\ Cardinality(Recipients) = N
        BY FS_Interval, ConstantsAssumption DEF Recipients
    <2>2. {r \in Recipients : rs[r].st \in S} \in SUBSET Recipients
        OBVIOUS
    <2>3. /\ IsFiniteSet({r \in Recipients : rs[r].st \in S})
          /\ Cardinality({r \in Recipients : rs[r].st \in S}) <= N
        BY <2>1, <2>2, FS_Subset
    <2> QED  BY <2>3, FS_CardinalityType, ConstantsAssumption DEF CountOf
<1> QED  BY <1>1 DEF Summary, CountsType

(* The counters a save leaves in the store lie between 0 and N.            *)
LEMMA MergedCountsType ==
    ASSUME NEW old \in CountsType, NEW new \in CountsType, counts \in CountsType
    PROVE  MergedCounts(old, new) \in CountsType
BY DEF MergedCounts, CountsType

(* A loaded document has the types of the stored one.                      *)
LEMMA SnapshotType == TypeOK => Snapshot \in Docs
BY DEF TypeOK, Snapshot, Docs, Statuses, RecipientType

LEMMA NoDocType == NoDoc \in Docs
BY ConstantsAssumption DEF NoDoc, Docs, NewRecipients, NewRecipient, RecipientType,
    NoCounts, CountsType, NoLease, Leases, Owners, SeriesType, Pending, Done, Claimable

(* Recovering, claiming and canceling keep the recipients well typed.      *)
LEMMA RecoveredType ==
    ASSUME NEW d \in Docs
    PROVE  Recovered(d) \in RcpType
BY DEF Recovered, RecoveredStatus, WithStatus, Docs, RcpType, RecipientType, Pending, Done, Claimable

LEMMA ClaimedType ==
    ASSUME NEW rs \in RcpType, NEW r \in Recipients, rs[r].att < MaxAttempts
    PROVE  Claimed(rs, r) \in RcpType
BY ConstantsAssumption DEF Claimed, RcpType, RecipientType, Pending, Done, Claimable

LEMMA CanceledType ==
    ASSUME NEW rs \in RcpType
    PROVE  CanceledAll(rs) \in RcpType
BY DEF CanceledAll, WithStatus, RcpType, RecipientType, Pending, Done, Claimable

(* Counting one more call keeps the calls of a recipient naturals.         *)
LEMMA BumpType ==
    ASSUME NEW S, NEW f \in [S -> Nat], NEW n \in S
    PROVE  [f EXCEPT ![n] = f[n] + 1] \in [S -> Nat]
OBVIOUS

(* The next operation of a worker is one of its labels.                    *)
LEMMA NextLabels ==
    ASSUME NEW d
    PROVE  /\ ClaimOrFinish(d.rcp) \in Labels
           /\ AfterWindow(d) \in Labels
           /\ AfterLoad(d) \in Labels
BY DEF ClaimOrFinish, AfterWindow, AfterLoad, Labels

-----------------------------------------------------------------------------
(* Type correctness                                                        *)

(* Every step keeps the types, given the rest of the invariant.            *)
LEMMA TypeStep ==
    ASSUME IInv, Next
    PROVE  TypeOK'
<1> USE DEF stored, clock, worker, bounds
<1>t. TypeOK /\ Snapshot \in Docs /\ NoDoc \in Docs
    BY SnapshotType, NoDocType DEF IInv
<1>n. ASSUME NEW d PROVE /\ ClaimOrFinish(d.rcp) \in Labels
                        /\ AfterWindow(d) \in Labels /\ AfterLoad(d) \in Labels
    BY NextLabels
<1>o. \A p \in Procs : Owner(p) \in Owners
    BY <1>t DEF TypeOK, Owner, Owners
<1>1. ASSUME NEW p \in Procs, ScheduleCampaign(p) \/ Sweep(p) PROVE TypeOK'
    BY <1>t, <1>1 DEF ScheduleCampaign, Sweep, StartWorker, TypeOK, Labels
<1>2. ASSUME NEW p \in Procs, AcquireLease(p) PROVE TypeOK'
    <2>1. [owner |-> Owner(p), live |-> TRUE] \in Leases
        BY <1>o DEF Leases
    <2>2. lease' \in Leases /\ pc' \in [Procs -> Labels]
        BY <1>t, <1>2, <2>1 DEF AcquireLease, Goto, TypeOK, Labels
    <2> QED  BY <1>t, <1>2, <2>2 DEF AcquireLease, TypeOK
<1>3. ASSUME NEW p \in Procs, NEW from, NEW to \in Labels, Ensure(p, from, to)
      PROVE TypeOK'
    BY <1>t, <1>3 DEF Ensure, RenewLease, Goto, TypeOK, Labels, Leases
<1>4. ASSUME NEW p \in Procs,
             \/ EnsureTop(p) \/ EnsureQueued(p) \/ EnsureRecover(p)
             \/ EnsureResult(p) \/ EnsureNext(p) \/ EnsureEnd(p)
      PROVE TypeOK'
    <2>1. {"load", "reload", "delay", "release"} \subseteq Labels
        BY DEF Labels
    <2> QED  BY <1>3, <1>4, <1>n, <2>1 DEF EnsureTop, EnsureQueued, EnsureRecover,
                EnsureResult, EnsureNext, EnsureEnd
<1>5. ASSUME NEW p \in Procs, DelayOver(p) \/ VersionError(p) PROVE TypeOK'
    BY <1>t, <1>5 DEF DelayOver, VersionError, Goto, TypeOK, Labels
<1>6. ASSUME NEW p \in Procs, Load(p) PROVE TypeOK'
    BY <1>t, <1>n, <1>6 DEF Load, Goto, TypeOK
<1>7. ASSUME NEW p \in Procs, Reload(p) PROVE TypeOK'
    BY <1>t, <1>7 DEF Reload, Goto, TypeOK, Labels
<1>8. ASSUME NEW p \in Procs, SaveDefer(p) PROVE TypeOK'
    BY <1>t, <1>8 DEF SaveDefer, Goto, TypeOK, Labels, Statuses
<1>9. ASSUME NEW p \in Procs, SaveQueued(p) PROVE TypeOK'
    <2>1. [mem[p] EXCEPT !.status = "queued"] \in Docs
        BY <1>t DEF TypeOK, Docs, Statuses
    <2> QED  BY <1>t, <1>9, <2>1 DEF SaveQueued, Goto, TypeOK, Labels, Statuses
<1>10. ASSUME NEW p \in Procs, NEW rs, SaveRecipients(p, rs), rs \in RcpType,
             NEW st \in Statuses \cup {"none"}
      PROVE /\ rcp' = rs /\ ver' \in Nat /\ stale' \in SUBSET Recipients
            /\ mem[p].rcp = rcp /\ Written(mem[p], st, rcp', ver') \in Docs
    <2>1. rcp' = rs /\ ver' \in Nat /\ stale' \in SUBSET Recipients
        BY <1>t, <1>10 DEF SaveRecipients, TypeOK
    <2>2. mem[p].rcp = rcp
        BY <1>10 DEF SaveRecipients, Current, IInv, DocsOK, DocAt
    <2>3. Written(mem[p], st, rcp', ver') \in Docs
        BY <1>t, <1>10, <2>1 DEF TypeOK, Written, Docs, RcpType
    <2> QED  BY <2>1, <2>2, <2>3
<1>m. ASSUME NEW p \in Procs PROVE mem[p] \in Docs /\ mem[p].rcp \in RcpType
    BY <1>t DEF TypeOK, Docs, RcpType
<1>11. ASSUME NEW p \in Procs, SaveRecover(p) PROVE TypeOK'
    <2>1. Recovered(mem[p]) \in RcpType
        BY <1>m, RecoveredType
    <2>2. mem[p].status \in Statuses \cup {"none"}
        BY <1>m DEF Docs
    <2> QED  BY <1>t, <1>10, <1>11, <2>1, <2>2
              DEF SaveRecover, Goto, TypeOK, Labels, RcpType
<1>12. ASSUME NEW p \in Procs, SaveClaim(p) PROVE TypeOK'
    <2>1. idx'[p] = NextIndex(mem[p].rcp) /\ idx'[p] \in Recipients
          /\ mem[p].rcp[idx'[p]].att < MaxAttempts
        <3>1. mem[p].rcp = rcp /\ NextIndex(mem[p].rcp) \in ClaimableIn(mem[p].rcp)
            BY <1>12, NextIndexClaimable DEF SaveClaim, SaveRecipients, Current, IInv,
                DocsOK, DocAt, LabelsOK, LabelAt
        <3>2. idx'[p] = NextIndex(mem[p].rcp)
            BY <1>t, <1>12 DEF SaveClaim, TypeOK
        <3> QED  BY <3>1, <3>2 DEF ClaimableIn, IInv, AttemptsLeft
    <2>2. Claimed(mem[p].rcp, idx'[p]) \in RcpType
        BY <1>m, <2>1, ClaimedType
    <2>3. "running" \in Statuses /\ "ensureClaim" \in Labels
        BY DEF Statuses, Labels
    <2>4. idx' \in [Procs -> 0 .. N]
        BY <1>t, <1>12, <2>1, ConstantsAssumption DEF SaveClaim, TypeOK, Recipients
    <2> QED  BY <1>t, <1>10, <1>12, <2>2, <2>3, <2>4
              DEF SaveClaim, Goto, TypeOK, RcpType
<1>13. ASSUME NEW p \in Procs, EnsureClaim(p) PROVE TypeOK'
    <2>1. calls' \in [Recipients -> [1 .. MaxAttempts -> Nat]]
        <3>1. CASE HoldsLease(p)
            <4>1. idx[p] \in Recipients /\ calls[idx[p]] \in [1 .. MaxAttempts -> Nat]
                BY <1>t, <1>13 DEF EnsureClaim, IInv, LabelsOK, LabelAt, TypeOK
            <4>2. Attempt(p) \in 1 .. MaxAttempts
                <5>1. rcp[idx[p]].att \in 0 .. MaxAttempts
                    BY <1>t, <4>1 DEF TypeOK, RecipientType
                <5>2. Attempt(p) \in 1 .. rcp[idx[p]].att
                    BY <1>13 DEF EnsureClaim, IInv, ClaimsOK
                <5> QED  BY <5>1, <5>2, ConstantsAssumption
            <4>3. [calls[idx[p]] EXCEPT ![Attempt(p)] = calls[idx[p]][Attempt(p)] + 1]
                    \in [1 .. MaxAttempts -> Nat]
                BY <4>1, <4>2, BumpType
            <4> QED  BY <1>t, <1>13, <3>1, <4>1, <4>3 DEF EnsureClaim, SendAttempt, TypeOK
        <3>2. CASE ~HoldsLease(p)
            BY <1>t, <1>13, <3>2 DEF EnsureClaim, TypeOK
        <3> QED  BY <3>1, <3>2
    <2> QED  BY <1>t, <1>13, <2>1 DEF EnsureClaim, RenewLease, Goto, TypeOK, Labels, Leases
<1>14. ASSUME NEW p \in Procs, DispatchResult(p) PROVE TypeOK'
    BY <1>t, <1>14 DEF DispatchResult, Goto, TypeOK, Labels
<1>s. ASSUME NEW old \in CountsType, NEW rs
      PROVE MergedCounts(old, Summary(rs)) \in CountsType
    BY <1>t, SummaryType, MergedCountsType DEF TypeOK
<1>c. \A p \in Procs : mem[p].counts \in CountsType
    BY <1>t DEF TypeOK, Docs
<1>15. ASSUME NEW p \in Procs, SaveResult(p) PROVE TypeOK'
    <2>1. idx[p] \in Recipients /\ result[p] \in {"accepted", "failed"}
        BY <1>15 DEF SaveResult, IInv, LabelsOK, LabelAt
    <2>2. Answered(mem[p].rcp, idx[p], result[p]) \in RcpType
        BY <1>m, <2>1 DEF Answered, WithStatus, RcpType, RecipientType, Done
    <2>3. counts' \in CountsType
        BY <1>s, <1>c, <1>15 DEF SaveResult
    <2>4. mem[p].status \in Statuses \cup {"none"}
        BY <1>m DEF Docs
    <2> QED  BY <1>t, <1>10, <1>15, <2>2, <2>3, <2>4
              DEF SaveResult, Goto, TypeOK, Labels, RcpType
<1>16. ASSUME NEW p \in Procs, SaveRunning(p) PROVE TypeOK'
    <2>1. counts' \in CountsType
        BY <1>s, <1>c, <1>16 DEF SaveRunning
    <2> QED  BY <1>t, <1>16, <2>1 DEF SaveRunning, Goto, TypeOK, Labels, Statuses
<1>17. ASSUME NEW p \in Procs, SaveFinal(p) PROVE TypeOK'
    <2>1. counts' \in CountsType /\ lease' \in Leases /\ series' \in SeriesType
        BY <1>t, <1>s, <1>c, <1>17 DEF SaveFinal, WriteCampaign, TypeOK, Docs
    <2>2. status' \in Statuses
        BY <1>17 DEF SaveFinal, FinalStatus, Statuses, Finished
    <2>3. pc' \in [Procs -> Labels]
        BY <1>t, <1>17 DEF SaveFinal, Goto, TypeOK, Labels
    <2> QED  BY <1>t, <1>17, <2>1, <2>2, <2>3 DEF SaveFinal, TypeOK
<1>18. ASSUME NEW p \in Procs, SaveNextOccurrence(p) \/ SeriesOver(p) PROVE TypeOK'
    <2>1. /\ [mem[p] EXCEPT !.series = "next_scheduled"] \in Docs
          /\ [mem[p] EXCEPT !.series = "finished"] \in Docs
        BY <1>m DEF Docs, SeriesType
    <2>2. mem' \in [Procs -> Docs]
        BY <1>t, <1>18, <2>1 DEF SaveNextOccurrence, SeriesOver, TypeOK
    <2>3. pc' \in [Procs -> Labels]
        BY <1>t, <1>18 DEF SaveNextOccurrence, SeriesOver, Goto, TypeOK, Labels
    <2> QED  BY <1>t, <1>18, <2>2, <2>3 DEF SaveNextOccurrence, SeriesOver, TypeOK
<1>19. ASSUME NEW p \in Procs, SaveParent(p) PROVE TypeOK'
    BY <1>t, <1>m, <1>19 DEF SaveParent, WriteCampaign, Goto, TypeOK, Labels, Docs
<1>20. NoLease \in Leases
    BY DEF NoLease, Leases, Owners
<1>e. ASSUME NEW p \in Procs, Exit(p)
      PROVE /\ pc' \in [Procs -> Labels] /\ mem' \in [Procs -> Docs]
            /\ idx' \in [Procs -> 0 .. N]
            /\ result' \in [Procs -> {"none", "accepted", "failed"}]
    <2>1. pc' \in [Procs -> Labels]
        BY <1>t, <1>e DEF Exit, Goto, TypeOK, Labels
    <2>2. mem' \in [Procs -> Docs]
        BY <1>t, <1>e DEF Exit, TypeOK
    <2>3. idx' \in [Procs -> 0 .. N]
        BY <1>t, <1>e, ConstantsAssumption DEF Exit, TypeOK
    <2>4. result' \in [Procs -> {"none", "accepted", "failed"}]
        BY <1>t, <1>e DEF Exit, TypeOK
    <2> QED  BY <2>1, <2>2, <2>3, <2>4
<1>21. ASSUME NEW p \in Procs, ReleaseLease(p) PROVE TypeOK'
    <2>1. lease' \in Leases
        BY <1>t, <1>20, <1>21 DEF ReleaseLease, TypeOK
    <2> QED  BY <1>t, <1>e, <1>21, <2>1 DEF ReleaseLease, TypeOK
<1>22. ASSUME NEW p \in Procs, Heartbeat(p) PROVE TypeOK'
    BY <1>t, <1>22 DEF Heartbeat, RenewLease, TypeOK, Leases
<1>23. ASSUME NEW p \in Procs, DbError(p) PROVE TypeOK'
    <2>1. CASE pc[p] \in {"acquire", "release"}
        BY <1>t, <1>e, <1>23, <2>1 DEF DbError, TypeOK
    <2>2. CASE pc[p] \notin {"acquire", "release"}
        <3>1. pc' \in [Procs -> Labels]
            BY <1>t, <1>23, <2>2 DEF DbError, Goto, TypeOK, Labels
        <3> QED  BY <1>t, <1>23, <2>2, <3>1 DEF DbError, TypeOK
    <2> QED  BY <2>1, <2>2
<1>24. ASSUME NEW p \in Procs, Crash(p) PROVE TypeOK'
    BY <1>t, <1>e, <1>24 DEF Crash, TypeOK
<1>25. ASSUME NEW h \in Handlers, HandlerStep(h) PROVE TypeOK'
    <2>c. ASSUME NEW op \in {"none", "pause", "resume", "cancel", "reply"},
                 NEW r \in 0 .. N, NEW d \in Docs,
                 call' = [call EXCEPT ![h] = [op |-> op, r |-> r, doc |-> d]]
          PROVE call' \in [Handlers -> [op : {"none", "pause", "resume", "cancel", "reply"},
                                        r : 0 .. N, doc : Docs]]
        BY <1>t, <2>c DEF TypeOK
    <2>d. call[h].doc \in Docs /\ call[h].doc.rcp \in RcpType
        BY <1>t DEF TypeOK, Docs, RcpType
    <2>0. 0 \in 0 .. N
        BY ConstantsAssumption
    <2>1. ASSUME NEW op \in {"pause", "resume", "cancel", "reply"}, NEW r \in 0 .. N,
                 NEW enabled, HandlerLoad(h, op, r, enabled)
          PROVE TypeOK'
        <3>1. call' = [call EXCEPT ![h] = [op |-> op, r |-> r, doc |-> Snapshot]]
            BY <2>1 DEF HandlerLoad
        <3>2. call' \in [Handlers -> [op : {"none", "pause", "resume", "cancel", "reply"},
                                      r : 0 .. N, doc : Docs]]
            BY <1>t, <2>c, <3>1
        <3> QED  BY <1>t, <2>1, <3>2 DEF HandlerLoad, TypeOK
    <2>2. CASE PauseLoad(h) \/ ResumeLoad(h) \/ CancelLoad(h)
        BY <2>0, <2>1, <2>2 DEF PauseLoad, ResumeLoad, CancelLoad
    <2>3. ASSUME NEW r \in Recipients, ReplyLoad(h, r) PROVE TypeOK'
        <3>1. r \in 0 .. N
            BY ConstantsAssumption DEF Recipients
        <3> QED  BY <2>1, <2>3, <3>1 DEF ReplyLoad
    <2>4. ASSUME Respond(h)
          PROVE call' \in [Handlers -> [op : {"none", "pause", "resume", "cancel", "reply"},
                                        r : 0 .. N, doc : Docs]]
        BY <1>t, <2>0, <2>c, <2>4 DEF Respond, NoCall
    <2>5. CASE PauseSave(h)
        BY <1>t, <2>4, <2>5 DEF PauseSave, TypeOK, Statuses
    <2>6. ASSUME NEW p \in Procs, ResumeSave(h, p) PROVE TypeOK'
        BY <1>t, <2>4, <2>6 DEF ResumeSave, TypeOK, Statuses
    <2>7. CASE CancelSave(h)
        <3>1. rcp' \in RcpType
            BY <2>7, <2>d, CanceledType DEF CancelSave
        <3>2. counts' \in CountsType
            BY <1>s, <2>7, <2>d DEF CancelSave, Docs
        <3> QED  BY <1>t, <2>4, <2>7, <3>1, <3>2
                  DEF CancelSave, TypeOK, Statuses, Finished, RcpType
    <2>8. CASE ReplySave(h)
        <3>1. rcp' \in RcpType
            BY <2>8, <2>d DEF ReplySave, Replied, RcpType, RecipientType
        <3>2. lease' \in Leases /\ series' \in SeriesType
            BY <2>8, <2>d DEF ReplySave, WriteCampaign, Docs
        <3> QED  BY <1>t, <2>4, <2>8, <3>1, <3>2 DEF ReplySave, TypeOK, RcpType
    <2>9. CASE HandlerFails(h)
        BY <1>t, <2>4, <2>9 DEF HandlerFails, TypeOK
    <2> QED  BY <1>25, <2>2, <2>3, <2>5, <2>6, <2>7, <2>8, <2>9
              DEF HandlerStep, HandlerSaves
<1>26. ASSUME Environment PROVE TypeOK'
    BY <1>t, <1>26 DEF Environment, LeaseExpires, RunTimeComes, WindowTurns,
        SendingGrowsStale, TypeOK, Leases
<1> QED
    BY <1>1, <1>2, <1>4, <1>5, <1>6, <1>7, <1>8, <1>9, <1>11, <1>12, <1>13, <1>14,
       <1>15, <1>16, <1>17, <1>18, <1>19, <1>21, <1>22, <1>23, <1>24, <1>25, <1>26
    DEF Next, ProcessStep, WorkerStep

-----------------------------------------------------------------------------
(* How one step changes the recipients                                     *)

\* What happened to one recipient: nothing that counts here, a stale sending
\* was recovered, a claim, or an outcome.
RecipientStep(old, new) ==
    \/ new.st = old.st /\ new.att = old.att
    \/ old.st = "sending" /\ new = WithStatus(old, RecoveredStatus(old))
    \/ old.st \in Claimable /\ new.st = "sending" /\ new.att = old.att + 1
    \/ new.st \in Done /\ new.att = old.att

(* Only a versioned save of the stored recipients changes them.            *)
LEMMA RecipientsStep ==
    ASSUME IInv, Next
    PROVE  \/ rcp' = rcp /\ ver' = ver
           \/ /\ ver' = ver + 1
              /\ \A r \in Recipients : RecipientStep(rcp[r], rcp'[r])
<1> USE DEF stored, clock, worker, bounds
<1>t. TypeOK
    BY DEF IInv
<1>1. ASSUME NEW p \in Procs, ProcessStep(p)
      PROVE  \/ rcp' = rcp /\ ver' = ver
             \/ SaveRecover(p) \/ SaveClaim(p) \/ SaveResult(p)
    BY <1>1 DEF ProcessStep, WorkerStep, ScheduleCampaign, Sweep, AcquireLease, Ensure,
        EnsureTop, EnsureQueued, EnsureRecover, EnsureResult, EnsureNext, EnsureEnd,
        DelayOver, VersionError, Load, Reload, SaveDefer, SaveQueued, EnsureClaim,
        DispatchResult, SaveRunning, SaveFinal, SaveNextOccurrence, SeriesOver,
        SaveParent, ReleaseLease, Heartbeat, DbError, Crash
<1>2. ASSUME NEW h \in Handlers, HandlerStep(h)
      PROVE  (rcp' = rcp /\ ver' = ver) \/ CancelSave(h) \/ ReplySave(h)
    BY <1>2 DEF HandlerStep, HandlerSaves, HandlerLoad, PauseLoad, ResumeLoad,
        CancelLoad, ReplyLoad, PauseSave, ResumeSave, HandlerFails
<1>3. Environment => rcp' = rcp /\ ver' = ver
    BY DEF Environment, LeaseExpires, RunTimeComes, WindowTurns, SendingGrowsStale
<1>4. ASSUME NEW p \in Procs, NEW rs, SaveRecipients(p, rs)
      PROVE  rcp' = rs /\ ver' = ver + 1 /\ mem[p].rcp = rcp
    BY <1>4 DEF SaveRecipients, Current, IInv, DocsOK, DocAt
<1>5. ASSUME NEW p \in Procs, SaveRecover(p)
      PROVE  ver' = ver + 1 /\ \A r \in Recipients : RecipientStep(rcp[r], rcp'[r])
    <2>1. rcp' = Recovered(mem[p]) /\ ver' = ver + 1 /\ mem[p].rcp = rcp
        BY <1>4, <1>5 DEF SaveRecover
    <2> QED  BY <2>1 DEF Recovered, StaleSending, RecipientStep
<1>6. ASSUME NEW p \in Procs, SaveClaim(p)
      PROVE  ver' = ver + 1 /\ \A r \in Recipients : RecipientStep(rcp[r], rcp'[r])
    <2>1. rcp' = Claimed(mem[p].rcp, idx'[p]) /\ ver' = ver + 1 /\ mem[p].rcp = rcp
        BY <1>4, <1>6 DEF SaveClaim
    <2>2. idx'[p] = NextIndex(rcp) /\ NextIndex(rcp) \in ClaimableIn(rcp)
        BY <1>t, <1>6, <2>1, NextIndexClaimable DEF SaveClaim, TypeOK, IInv, LabelsOK, LabelAt
    <2> QED  BY <1>t, <2>1, <2>2 DEF Claimed, ClaimableIn, RecipientStep, TypeOK
<1>7. ASSUME NEW p \in Procs, SaveResult(p)
      PROVE  ver' = ver + 1 /\ \A r \in Recipients : RecipientStep(rcp[r], rcp'[r])
    <2>1. /\ rcp' = Answered(mem[p].rcp, idx[p], result[p])
          /\ ver' = ver + 1 /\ mem[p].rcp = rcp
        BY <1>4, <1>7 DEF SaveResult
    <2>2. result[p] \in Done
        BY <1>7 DEF SaveResult, IInv, LabelsOK, LabelAt, Done
    <2> QED  BY <1>t, <2>1, <2>2 DEF Answered, WithStatus, RecipientStep, TypeOK
<1>8. ASSUME NEW h \in Handlers, CancelSave(h)
      PROVE  ver' = ver + 1 /\ \A r \in Recipients : RecipientStep(rcp[r], rcp'[r])
    <2>1. rcp' = CanceledAll(rcp) /\ ver' = ver + 1
        BY <1>8 DEF CancelSave, Current, IInv, DocsOK, DocAt
    <2> QED  BY <2>1 DEF CanceledAll, WithStatus, RecipientStep, Done
<1>9. ASSUME NEW h \in Handlers, ReplySave(h)
      PROVE  ver' = ver + 1 /\ \A r \in Recipients : RecipientStep(rcp[r], rcp'[r])
    <2>1. rcp' = Replied(rcp, call[h].r) /\ ver' = ver + 1
        BY <1>9 DEF ReplySave, Current, IInv, DocsOK, DocAt
    <2> QED  BY <1>t, <2>1 DEF Replied, RecipientStep, TypeOK
<1> QED  BY <1>1, <1>2, <1>3, <1>5, <1>6, <1>7, <1>8, <1>9 DEF Next

(* What is settled stays settled, attempts are only counted up, and the    *)
(* version grows with every change.                                        *)
LEMMA RecipientsGrow ==
    ASSUME IInv, Next
    PROVE  /\ ver' >= ver /\ (ver' = ver => rcp' = rcp)
           /\ \A r \in Recipients :
                /\ rcp[r].st \in Done => rcp'[r].st \in Done
                /\ rcp[r].att <= rcp'[r].att
<1>1. ver \in Nat /\ \A r \in Recipients : rcp[r].att \in Nat
    BY ConstantsAssumption DEF IInv, TypeOK, RecipientType
<1>2. ASSUME NEW r \in Recipients, RecipientStep(rcp[r], rcp'[r])
      PROVE  /\ rcp[r].st \in Done => rcp'[r].st \in Done
             /\ rcp[r].att <= rcp'[r].att
    BY <1>1, <1>2 DEF RecipientStep, WithStatus, Done, Claimable
<1> QED  BY <1>1, <1>2, RecipientsStep

(* A recipient that may be claimed keeps an attempt: recovery hands back   *)
(* only what has one left, and no other step makes a recipient claimable.  *)
LEMMA AttemptsLeftStep ==
    ASSUME IInv, Next
    PROVE  AttemptsLeft'
<1>1. \A r \in Recipients : rcp[r].att \in Nat
    BY ConstantsAssumption DEF IInv, TypeOK, RecipientType
<1>2. ASSUME NEW r \in Recipients, RecipientStep(rcp[r], rcp'[r]), rcp'[r].st \in Claimable
      PROVE  rcp'[r].att < MaxAttempts
    BY <1>1, <1>2, ConstantsAssumption
    DEF RecipientStep, WithStatus, RecoveredStatus, Done, Claimable, IInv, AttemptsLeft
<1> QED  BY <1>2, RecipientsStep DEF IInv, AttemptsLeft

-----------------------------------------------------------------------------
(* The documents in memory                                                 *)

(* A document that a step leaves alone stays related to the stored one.    *)
LEMMA DocKept ==
    ASSUME IInv, Next
    PROVE  \A d \in Docs : DocAt(d, rcp, ver) => DocAt(d, rcp', ver')
<1>1. ver \in Nat /\ ver' \in Nat /\ \A d \in Docs : d.ver \in Nat \cup {-1}
    BY TypeStep DEF IInv, TypeOK, Docs
<1> QED  BY <1>1, RecipientsGrow DEF DocAt

(* Every process holds no document, a fresh copy of the store, what it     *)
(* saved itself, or the recipients it held before.                         *)
LEMMA MemStep ==
    ASSUME IInv, Next, NEW p \in Procs
    PROVE  \/ mem'[p] = NoDoc
           \/ mem'[p] = Snapshot /\ rcp' = rcp /\ ver' = ver
           \/ mem'[p].rcp = rcp' /\ mem'[p].ver = ver'
           \/ mem'[p].rcp = mem[p].rcp /\ mem'[p].ver = mem[p].ver
<1> USE DEF stored, clock, worker, bounds
<1>t. mem \in [Procs -> Docs]
    BY DEF IInv, TypeOK
<1>1. ASSUME NEW q \in Procs, ProcessStep(q)
      PROVE  \/ mem' = mem
             \/ mem' = [mem EXCEPT ![q] = NoDoc]
             \/ mem' = [mem EXCEPT ![q] = Snapshot] /\ rcp' = rcp /\ ver' = ver
             \/ \E st : mem' = [mem EXCEPT ![q] = Written(mem[q], st, rcp', ver')]
             \/ \E v : mem' = [mem EXCEPT ![q] = [mem[q] EXCEPT !.status = v]]
             \/ \E v : mem' = [mem EXCEPT ![q] = [mem[q] EXCEPT !.series = v]]
    BY <1>1 DEF ProcessStep, WorkerStep, ScheduleCampaign, Sweep, AcquireLease, Ensure,
        EnsureTop, EnsureQueued, EnsureRecover, EnsureResult, EnsureNext, EnsureEnd,
        DelayOver, VersionError, Load, Reload, SaveDefer, SaveQueued, EnsureClaim,
        DispatchResult, SaveRunning, SaveFinal, SaveNextOccurrence, SeriesOver,
        SaveParent, ReleaseLease, Heartbeat, DbError, Crash, Exit, SaveRecover,
        SaveClaim, SaveResult
<1>2. ASSUME NEW h \in Handlers, HandlerStep(h) PROVE mem' = mem
    BY <1>2 DEF HandlerStep, HandlerSaves, HandlerLoad, PauseLoad, ResumeLoad,
        CancelLoad, ReplyLoad, PauseSave, ResumeSave, HandlerFails, CancelSave, ReplySave
<1>3. Environment => mem' = mem
    BY DEF Environment, LeaseExpires, RunTimeComes, WindowTurns, SendingGrowsStale
<1>4. ASSUME NEW q \in Procs, ProcessStep(q)
      PROVE  \/ mem'[p] = NoDoc
             \/ mem'[p] = Snapshot /\ rcp' = rcp /\ ver' = ver
             \/ mem'[p].rcp = rcp' /\ mem'[p].ver = ver'
             \/ mem'[p].rcp = mem[p].rcp /\ mem'[p].ver = mem[p].ver
    BY <1>1, <1>4, <1>t DEF Written, Docs
<1> QED  BY <1>2, <1>3, <1>4 DEF Next

(* No document in memory or in flight misleads a save that passes.         *)
LEMMA DocsStep ==
    ASSUME IInv, Next
    PROVE  DocsOK'
<1> USE DEF stored, clock, worker, bounds
<1>t. TypeOK /\ ver' \in Nat
    BY TypeStep DEF IInv, TypeOK
<1>0. \A d \in Docs : DocAt(d, rcp, ver) => DocAt(d, rcp', ver')
    BY DocKept
<1>n. DocAt(NoDoc, rcp', ver')
    BY <1>t DEF DocAt, NoDoc, NewRecipients, NewRecipient, Done
<1>s. rcp' = rcp /\ ver' = ver => DocAt(Snapshot, rcp', ver')
    BY <1>t DEF DocAt, Snapshot, TypeOK
<1>1. ASSUME NEW p \in Procs PROVE DocAt(mem'[p], rcp', ver')
    <2>1. mem[p] \in Docs /\ DocAt(mem[p], rcp, ver)
        BY <1>t DEF TypeOK, IInv, DocsOK
    <2>2. DocAt(mem[p], rcp', ver')
        BY <1>0, <2>1
    <2>3. CASE mem'[p] = NoDoc
        BY <1>n, <2>3
    <2>4. CASE mem'[p] = Snapshot /\ rcp' = rcp /\ ver' = ver
        BY <1>s, <2>4
    <2>5. CASE mem'[p].rcp = rcp' /\ mem'[p].ver = ver'
        BY <1>t, <2>5 DEF DocAt
    <2>6. CASE mem'[p].rcp = mem[p].rcp /\ mem'[p].ver = mem[p].ver
        BY <2>2, <2>6 DEF DocAt
    <2> QED  BY <2>3, <2>4, <2>5, <2>6, MemStep
<1>2. ASSUME NEW h \in Handlers PROVE DocAt(call'[h].doc, rcp', ver')
    <2>1. call[h].doc \in Docs /\ DocAt(call[h].doc, rcp, ver)
        BY <1>t DEF TypeOK, IInv, DocsOK
    <2>2. DocAt(call[h].doc, rcp', ver')
        BY <1>0, <2>1
    <2>3. ASSUME NEW q \in Procs, ProcessStep(q) PROVE call' = call
        BY <2>3 DEF ProcessStep, WorkerStep, ScheduleCampaign, Sweep, AcquireLease,
            Ensure, EnsureTop, EnsureQueued, EnsureRecover, EnsureResult, EnsureNext,
            EnsureEnd, DelayOver, VersionError, Load, Reload, SaveDefer, SaveQueued,
            EnsureClaim, DispatchResult, SaveRunning, SaveFinal, SaveNextOccurrence,
            SeriesOver, SaveParent, ReleaseLease, Heartbeat, DbError, Crash,
            SaveRecover, SaveClaim, SaveResult
    <2>4. Environment => call' = call
        BY DEF Environment, LeaseExpires, RunTimeComes, WindowTurns, SendingGrowsStale
    <2>5. ASSUME NEW g \in Handlers, HandlerStep(g)
          PROVE  \/ call' = [call EXCEPT ![g] = NoCall]
                 \/ /\ \E op, r : call' = [call EXCEPT ![g] = [op |-> op, r |-> r, doc |-> Snapshot]]
                    /\ rcp' = rcp /\ ver' = ver
        BY <2>5 DEF HandlerStep, HandlerSaves, HandlerLoad, PauseLoad, ResumeLoad,
            CancelLoad, ReplyLoad, PauseSave, ResumeSave, HandlerFails, CancelSave,
            ReplySave, Respond
    <2>6. ASSUME NEW g \in Handlers, HandlerStep(g)
          PROVE  \/ call'[h].doc = call[h].doc \/ call'[h].doc = NoDoc
                 \/ call'[h].doc = Snapshot /\ rcp' = rcp /\ ver' = ver
        <3>1. DOMAIN call = Handlers
            BY <1>t DEF TypeOK
        <3>2. CASE g # h
            BY <2>5, <2>6, <3>1, <3>2
        <3>3. CASE g = h /\ call' = [call EXCEPT ![g] = NoCall]
            BY <3>1, <3>3 DEF NoCall
        <3>4. CASE /\ g = h /\ rcp' = rcp /\ ver' = ver
                   /\ \E op, r : call' = [call EXCEPT ![g] = [op |-> op, r |-> r, doc |-> Snapshot]]
            BY <3>1, <3>4
        <3> QED  BY <2>5, <2>6, <3>2, <3>3, <3>4
    <2> QED  BY <1>n, <1>s, <2>2, <2>3, <2>4, <2>6 DEF Next
<1> QED  BY <1>1, <1>2 DEF DocsOK

-----------------------------------------------------------------------------
(* What a worker knows at its label                                        *)

\* Labels at which LabelAt says nothing.
PlainLabels ==
    Labels \ {"saveClaim", "saveFinal", "ensureClaim", "dispatch", "ensureResult",
              "reload", "saveResult"}

(* A worker that goes on from recipients rs knows what its label needs.    *)
LEMMA NextLabelAt ==
    ASSUME NEW d \in Docs, NEW i, NEW o
    PROVE  /\ LabelAt(ClaimOrFinish(d.rcp), d.rcp, i, o)
           /\ LabelAt(AfterWindow(d), d.rcp, i, o)
           /\ LabelAt(AfterLoad(d), d.rcp, i, o)
<1>1. \A r \in Recipients : d.rcp[r].st \in Claimable \cup {"sending"} \cup Done
    BY DEF Docs, RecipientType, Pending
<1>2. LabelAt(ClaimOrFinish(d.rcp), d.rcp, i, o)
    <2>1. CASE ClaimableIn(d.rcp) # {}
        BY <2>1 DEF ClaimOrFinish, LabelAt
    <2>2. CASE ClaimableIn(d.rcp) = {} /\ \E r \in Recipients : d.rcp[r].st = "sending"
        BY <2>2 DEF ClaimOrFinish, LabelAt
    <2>3. CASE /\ ClaimableIn(d.rcp) = {}
               /\ ~ \E r \in Recipients : d.rcp[r].st = "sending"
        BY <1>1, <2>3 DEF ClaimOrFinish, ClaimableIn, LabelAt
    <2> QED  BY <2>1, <2>2, <2>3
<1>3. AfterWindow(d) \in {"saveDefer", "saveRecover"} \/ AfterWindow(d) = ClaimOrFinish(d.rcp)
    BY DEF AfterWindow
<1>4. LabelAt(AfterWindow(d), d.rcp, i, o)
    BY <1>2, <1>3 DEF LabelAt
<1>5. AfterLoad(d) \in {"release", "saveQueued"} \/ AfterLoad(d) = AfterWindow(d)
    BY DEF AfterLoad
<1>6. LabelAt(AfterLoad(d), d.rcp, i, o)
    BY <1>4, <1>5 DEF LabelAt
<1> QED  BY <1>2, <1>4, <1>6

(* A step moves at most one worker.                                        *)
LEMMA OneWorker ==
    ASSUME IInv, NEW p \in Procs, ProcessStep(p), NEW q \in Procs \ {p}
    PROVE  /\ pc'[q] = pc[q] /\ mem'[q] = mem[q]
           /\ idx'[q] = idx[q] /\ result'[q] = result[q]
<1> USE DEF stored, clock, worker, bounds
<1>1. /\ DOMAIN pc = Procs /\ DOMAIN mem = Procs
      /\ DOMAIN idx = Procs /\ DOMAIN result = Procs
    BY DEF IInv, TypeOK
<1>2. pc'[q] = pc[q]
    BY <1>1 DEF ProcessStep, WorkerStep, ScheduleCampaign, Sweep, StartWorker,
        AcquireLease, Ensure, EnsureTop, EnsureQueued, EnsureRecover, EnsureResult,
        EnsureNext, EnsureEnd, DelayOver, VersionError, Load, Reload, SaveDefer,
        SaveQueued, EnsureClaim, DispatchResult, SaveRunning, SaveFinal,
        SaveNextOccurrence, SeriesOver, SaveParent, ReleaseLease, Heartbeat, DbError,
        Crash, Exit, Goto, SaveRecover, SaveClaim, SaveResult
<1>3. mem'[q] = mem[q]
    BY <1>1 DEF ProcessStep, WorkerStep, ScheduleCampaign, Sweep,
        AcquireLease, Ensure, EnsureTop, EnsureQueued, EnsureRecover, EnsureResult,
        EnsureNext, EnsureEnd, DelayOver, VersionError, Load, Reload, SaveDefer,
        SaveQueued, EnsureClaim, DispatchResult, SaveRunning, SaveFinal,
        SaveNextOccurrence, SeriesOver, SaveParent, ReleaseLease, Heartbeat, DbError,
        Crash, Exit, SaveRecover, SaveClaim, SaveResult
<1>4. idx'[q] = idx[q] /\ result'[q] = result[q]
    BY <1>1 DEF ProcessStep, WorkerStep, ScheduleCampaign, Sweep,
        AcquireLease, Ensure, EnsureTop, EnsureQueued, EnsureRecover, EnsureResult,
        EnsureNext, EnsureEnd, DelayOver, VersionError, Load, Reload, SaveDefer,
        SaveQueued, EnsureClaim, DispatchResult, SaveRunning, SaveFinal,
        SaveNextOccurrence, SeriesOver, SaveParent, ReleaseLease, Heartbeat, DbError,
        Crash, Exit, SaveRecover, SaveClaim, SaveResult
<1> QED  BY <1>2, <1>3, <1>4

(* Handlers, time and the sending window move no worker.                   *)
LEMMA NoWorker ==
    ASSUME Environment \/ \E h \in Handlers : HandlerStep(h)
    PROVE  UNCHANGED <<pc, mem, idx, result, calls>>
<1> USE DEF stored, clock, worker, bounds
<1>1. Environment => UNCHANGED <<pc, mem, idx, result, calls>>
    BY DEF Environment, LeaseExpires, RunTimeComes, WindowTurns, SendingGrowsStale
<1>2. ASSUME NEW h \in Handlers, HandlerStep(h)
      PROVE  UNCHANGED <<pc, mem, idx, result, calls>>
    BY <1>2 DEF HandlerStep, HandlerSaves, HandlerLoad, PauseLoad, ResumeLoad,
        CancelLoad, ReplyLoad, PauseSave, ResumeSave, HandlerFails, CancelSave, ReplySave
<1> QED  BY <1>1, <1>2

(* The worker that moves knows what its next label needs.                  *)
LEMMA LabelsStep ==
    ASSUME IInv, Next
    PROVE  LabelsOK'
<1> USE DEF stored, clock, worker, bounds
<1>t. TypeOK /\ TypeOK'
    BY TypeStep DEF IInv
<1>l. \A p \in Procs : LabelAt(pc[p], mem[p].rcp, idx[p], result[p])
    BY DEF IInv, LabelsOK
<1>p. \A l \in PlainLabels : \A rs, i, o : LabelAt(l, rs, i, o)
    BY DEF PlainLabels, LabelAt
<1>1. ASSUME NEW p \in Procs, ProcessStep(p)
      PROVE  LabelAt(pc'[p], mem'[p].rcp, idx'[p], result'[p])
    <2>m. mem[p] \in Docs /\ Snapshot \in Docs
        BY <1>t, SnapshotType DEF TypeOK
    <2>1. CASE ScheduleCampaign(p) \/ Sweep(p)
        <3>1. /\ pc'[p] = "acquire" \/ pc'[p] = pc[p]
              /\ mem' = mem /\ idx' = idx /\ result' = result
            BY <1>t, <2>1 DEF ScheduleCampaign, Sweep, StartWorker, TypeOK
        <3> QED  BY <1>l, <3>1 DEF LabelAt
    <2>2. ASSUME pc'[p] \in PlainLabels
          PROVE  LabelAt(pc'[p], mem'[p].rcp, idx'[p], result'[p])
        BY <1>p, <2>2
    <2>3. CASE \/ AcquireLease(p) \/ EnsureTop(p) \/ EnsureNext(p) \/ EnsureEnd(p)
               \/ DelayOver(p) \/ SaveDefer(p) \/ SaveQueued(p) \/ SaveRecover(p)
               \/ SaveResult(p) \/ VersionError(p) \/ SaveRunning(p) \/ SaveFinal(p)
               \/ SaveNextOccurrence(p) \/ SeriesOver(p) \/ SaveParent(p)
               \/ ReleaseLease(p) \/ DbError(p) \/ Crash(p)
        <3>1. pc'[p] \in PlainLabels
            BY <1>t, <2>3 DEF AcquireLease, Ensure, EnsureTop, EnsureNext, EnsureEnd,
                DelayOver, SaveDefer, SaveQueued, SaveRecover, SaveResult, VersionError,
                SaveRunning, SaveFinal, SaveNextOccurrence, SeriesOver, SaveParent,
                ReleaseLease, DbError, Crash, Exit, Goto, TypeOK, PlainLabels, Labels
        <3> QED  BY <2>2, <3>1
    <2>4. CASE EnsureQueued(p) \/ EnsureRecover(p)
        <3>1. /\ mem' = mem /\ idx' = idx /\ result' = result
              /\ pc'[p] \in {"release", AfterWindow(mem[p]), ClaimOrFinish(mem[p].rcp)}
            BY <1>t, <2>4 DEF EnsureQueued, EnsureRecover, Ensure, Goto, TypeOK
        <3>2. LabelAt("release", mem[p].rcp, idx[p], result[p])
            BY DEF LabelAt
        <3> QED  BY <2>m, <3>1, <3>2, NextLabelAt
    <2>5. CASE Load(p)
        <3>1. mem'[p] = Snapshot /\ pc'[p] = AfterLoad(Snapshot)
            BY <1>t, <2>5 DEF Load, Goto, TypeOK
        <3> QED  BY <2>m, <3>1, NextLabelAt
    <2>6. CASE SaveClaim(p)
        <3>1. pc'[p] = "ensureClaim" /\ idx'[p] = NextIndex(mem[p].rcp)
            BY <1>t, <2>6 DEF SaveClaim, Goto, TypeOK
        <3>2. idx'[p] \in Recipients
            BY <1>l, <2>6, <3>1, NextIndexClaimable DEF SaveClaim, LabelAt, ClaimableIn
        <3> QED  BY <3>1, <3>2 DEF LabelAt
    <2>7. CASE EnsureClaim(p) \/ EnsureResult(p) \/ Reload(p) \/ Heartbeat(p)
        <3>1. idx'[p] = idx[p] /\ result'[p] = result[p]
            BY <2>7 DEF EnsureClaim, EnsureResult, Ensure, Reload, Heartbeat
        <3>2. \/ pc'[p] \in PlainLabels
              \/ pc[p] = "ensureClaim" /\ pc'[p] = "dispatch"
              \/ pc[p] = "ensureResult" /\ pc'[p] = "reload"
              \/ pc[p] = "reload" /\ pc'[p] = "saveResult"
              \/ pc'[p] = pc[p] /\ pc[p] \in {"dispatch", "delay"}
            BY <1>t, <2>7 DEF EnsureClaim, EnsureResult, Ensure, Reload, Heartbeat, Goto,
                TypeOK, PlainLabels, Labels
        <3> QED  BY <1>l, <2>2, <3>1, <3>2 DEF LabelAt
    <2>8. CASE DispatchResult(p)
        <3>1. pc'[p] = "ensureResult" /\ idx'[p] \in Recipients
            BY <1>t, <1>l, <2>8 DEF DispatchResult, Goto, TypeOK, LabelAt
        <3>2. result'[p] \in {"accepted", "failed"}
            BY <1>t, <2>8 DEF DispatchResult, TypeOK
        <3> QED  BY <3>1, <3>2 DEF LabelAt
    <2> QED  BY <1>1, <2>1, <2>3, <2>4, <2>5, <2>6, <2>7, <2>8 DEF ProcessStep, WorkerStep
<1>2. ASSUME NEW p \in Procs, ProcessStep(p), NEW q \in Procs
      PROVE  LabelAt(pc'[q], mem'[q].rcp, idx'[q], result'[q])
    BY <1>1, <1>2, <1>l, OneWorker
<1>3. ASSUME Environment \/ \E h \in Handlers : HandlerStep(h), NEW q \in Procs
      PROVE  LabelAt(pc'[q], mem'[q].rcp, idx'[q], result'[q])
    BY <1>3, <1>l, NoWorker
<1> QED  BY <1>2, <1>3 DEF Next, LabelsOK

-----------------------------------------------------------------------------
(* Calls of the provider                                                   *)

(* Only a worker that holds the lease at its claim calls the provider.     *)
LEMMA CallsStep ==
    ASSUME IInv, Next
    PROVE  \/ calls' = calls
           \/ \E p \in Procs :
                EnsureClaim(p) /\ SendAttempt(idx[p], Attempt(p)) /\ rcp' = rcp
<1> USE DEF stored, clock, worker, bounds
<1>1. ASSUME NEW p \in Procs, ProcessStep(p)
      PROVE  calls' = calls \/ (EnsureClaim(p) /\ SendAttempt(idx[p], Attempt(p)) /\ rcp' = rcp)
    <2>1. CASE EnsureClaim(p)
        BY <2>1 DEF EnsureClaim
    <2>2. CASE ~EnsureClaim(p)
        BY <1>1, <2>2 DEF ProcessStep, WorkerStep, ScheduleCampaign, Sweep,
            AcquireLease, Ensure, EnsureTop, EnsureQueued, EnsureRecover, EnsureResult,
            EnsureNext, EnsureEnd, DelayOver, VersionError, Load, Reload, SaveDefer,
            SaveQueued, DispatchResult, SaveRunning, SaveFinal, SaveNextOccurrence,
            SeriesOver, SaveParent, ReleaseLease, Heartbeat, DbError, Crash,
            SaveRecover, SaveClaim, SaveResult
    <2> QED  BY <2>1, <2>2
<1> QED  BY <1>1, NoWorker DEF Next

(* A saved claim stays a counted attempt of its own: later claims count    *)
(* higher, and a call is made for this attempt by this worker alone.       *)
LEMMA ClaimsStep ==
    ASSUME IInv, Next
    PROVE  ClaimsOK'
<1> DEFINE Claim(p) == pc[p] = "ensureClaim"
           NewAttempt(p) == mem'[p].rcp[idx'[p]].att
           Held(p) == Claim(p) /\ idx'[p] = idx[p] /\ mem'[p] = mem[p]
<1>t. TypeOK /\ TypeOK'
    BY TypeStep DEF IInv
<1>c. \A p \in Procs : Claim(p) =>
        /\ idx[p] \in Recipients
        /\ Attempt(p) \in 1 .. rcp[idx[p]].att
        /\ calls[idx[p]][Attempt(p)] = 0
        /\ \A q \in Procs \ {p} : Claim(q) /\ idx[q] = idx[p] => Attempt(q) # Attempt(p)
    BY DEF IInv, ClaimsOK, LabelsOK, LabelAt
<1>a. \A r \in Recipients : /\ rcp[r].att \in 0 .. MaxAttempts
                            /\ rcp'[r].att \in 0 .. MaxAttempts
                            /\ rcp[r].att <= rcp'[r].att
    BY <1>t, RecipientsGrow DEF TypeOK, RecipientType
\* A worker that holds a claim after its step held it before or saved it.
<1>1. ASSUME NEW p \in Procs, ProcessStep(p), pc'[p] = "ensureClaim"
      PROVE  SaveClaim(p) \/ Held(p)
    <2> USE DEF stored, clock, worker, bounds
    <2>0. /\ ClaimOrFinish(mem[p].rcp) # "ensureClaim" /\ AfterWindow(mem[p]) # "ensureClaim"
          /\ AfterLoad(Snapshot) # "ensureClaim"
        BY DEF ClaimOrFinish, AfterWindow, AfterLoad
    <2>1. CASE ScheduleCampaign(p) \/ Sweep(p)
        BY <1>t, <1>1, <2>1 DEF ScheduleCampaign, Sweep, StartWorker, TypeOK
    <2>2. CASE ~SaveClaim(p) /\ ~ScheduleCampaign(p) /\ ~Sweep(p)
        BY <1>t, <1>1, <2>0, <2>2 DEF ProcessStep, WorkerStep,
            AcquireLease, Ensure, EnsureTop, EnsureQueued, EnsureRecover, EnsureResult,
            EnsureNext, EnsureEnd, DelayOver, VersionError, Load, Reload, SaveDefer,
            SaveQueued, DispatchResult, SaveRunning, SaveFinal, SaveNextOccurrence,
            SeriesOver, SaveParent, ReleaseLease, Heartbeat, DbError, Crash, Exit, Goto,
            SaveRecover, EnsureClaim, SaveResult, TypeOK
    <2> QED  BY <2>1, <2>2
\* A new claim counts an attempt above every earlier one.
<1>2. ASSUME NEW p \in Procs, SaveClaim(p)
      PROVE  /\ idx'[p] \in Recipients /\ calls' = calls
             /\ NewAttempt(p) = rcp[idx'[p]].att + 1
             /\ NewAttempt(p) = rcp'[idx'[p]].att
             /\ calls[idx'[p]][NewAttempt(p)] = 0
    <2>1. /\ mem[p].rcp = rcp /\ rcp' = Claimed(rcp, idx'[p])
          /\ idx'[p] = NextIndex(mem[p].rcp)
        BY <1>t, <1>2 DEF SaveClaim, SaveRecipients, Current, IInv, DocsOK, DocAt, TypeOK
    <2>2. idx'[p] \in Recipients
        BY <1>2, <2>1, NextIndexClaimable DEF SaveClaim, IInv, LabelsOK, LabelAt, ClaimableIn
    <2>3. mem'[p].rcp = rcp' /\ calls' = calls
        BY <1>t, <1>2 DEF SaveClaim, Written, TypeOK
    <2>4. rcp'[idx'[p]].att = rcp[idx'[p]].att + 1
        BY <1>t, <2>1, <2>2 DEF Claimed, TypeOK
    <2>5. NewAttempt(p) \in 1 .. MaxAttempts /\ NewAttempt(p) > rcp[idx'[p]].att
        BY <1>a, <2>2, <2>3, <2>4
    <2>6. calls[idx'[p]][NewAttempt(p)] <= 0 /\ calls[idx'[p]][NewAttempt(p)] \in Nat
        <3>1. ~(NewAttempt(p) <= rcp[idx'[p]].att)
            BY <1>a, <2>2, <2>5
        <3>2. calls[idx'[p]] \in [1 .. MaxAttempts -> Nat]
            BY <1>t, <2>2 DEF TypeOK
        <3> QED  BY <2>2, <2>5, <3>1, <3>2 DEF IInv, EachAttemptSentOnce
    <2> QED  BY <2>2, <2>3, <2>4, <2>6
\* A claim that is held is not called for by a step that leaves it there.
<1>3. ASSUME NEW p \in Procs, Held(p), pc'[p] = "ensureClaim"
      PROVE  calls'[idx[p]][Attempt(p)] = 0
    <2>1. calls[idx[p]][Attempt(p)] = 0 /\ idx[p] \in Recipients
        BY <1>c, <1>3
    <2>2. ASSUME NEW q \in Procs, EnsureClaim(q), SendAttempt(idx[q], Attempt(q))
          PROVE  calls'[idx[p]][Attempt(p)] = 0
        <3>1. q # p /\ Claim(q)
            BY <1>t, <1>3, <2>2 DEF EnsureClaim, Goto, TypeOK
        <3>2. idx[q] = idx[p] => Attempt(q) # Attempt(p)
            BY <1>c, <1>3, <3>1
        <3>3. calls' = [calls EXCEPT ![idx[q]] =
                            [calls[idx[q]] EXCEPT ![Attempt(q)] = calls[idx[q]][Attempt(q)] + 1]]
            BY <2>2 DEF SendAttempt
        <3>4. DOMAIN calls = Recipients
            BY <1>t DEF TypeOK
        <3>5. CASE idx[q] = idx[p]
            BY <2>1, <3>2, <3>3, <3>4, <3>5
        <3>6. CASE idx[q] # idx[p]
            BY <2>1, <3>3, <3>4, <3>6
        <3> QED  BY <3>5, <3>6
    <2> QED  BY <2>1, <2>2, CallsStep
<1>4. ASSUME NEW p \in Procs, pc'[p] = "ensureClaim"
      PROVE  SaveClaim(p) \/ Held(p)
    <2>1. ASSUME NEW q \in Procs, ProcessStep(q) PROVE SaveClaim(p) \/ Held(p)
        BY <1>1, <1>4, <2>1, OneWorker
    <2>2. ASSUME Environment \/ \E h \in Handlers : HandlerStep(h) PROVE Held(p)
        BY <1>4, <2>2, NoWorker
    <2> QED  BY <2>1, <2>2 DEF Next
\* Claims stay below the attempts counted in the store.
<1>5. ASSUME NEW p \in Procs, pc'[p] = "ensureClaim"
      PROVE  /\ NewAttempt(p) \in 1 .. rcp'[idx'[p]].att
             /\ calls'[idx'[p]][NewAttempt(p)] = 0
    <2>1. CASE SaveClaim(p)
        BY <1>2, <1>a, <2>1
    <2>2. CASE Held(p)
        <3>1. NewAttempt(p) = Attempt(p) /\ idx'[p] = idx[p] /\ idx[p] \in Recipients
            BY <1>c, <2>2 DEF Attempt
        <3>2. Attempt(p) \in 1 .. rcp[idx[p]].att
            BY <1>c, <2>2
        <3>3. Attempt(p) \in 1 .. rcp'[idx[p]].att
            BY <1>a, <3>1, <3>2
        <3> QED  BY <1>3, <1>5, <2>2, <3>1, <3>3
    <2> QED  BY <1>4, <1>5, <2>1, <2>2
\* No two workers hold the same attempt.
<1>6. ASSUME NEW p \in Procs, NEW q \in Procs, SaveClaim(p), Held(q), idx'[q] = idx'[p]
      PROVE  NewAttempt(q) < NewAttempt(p)
    <2>1. NewAttempt(q) = Attempt(q) /\ idx'[q] = idx[q]
        BY <1>6 DEF Attempt
    <2>2. Attempt(q) \in 1 .. rcp[idx[q]].att
        BY <1>c, <1>6
    <2>3. NewAttempt(p) = rcp[idx'[p]].att + 1 /\ idx'[p] \in Recipients
        BY <1>2, <1>6
    <2> QED  BY <1>a, <1>6, <2>1, <2>2, <2>3
<1>7. ASSUME NEW p \in Procs, NEW q \in Procs \ {p}, SaveClaim(p)
      PROVE  ~SaveClaim(q) \/ pc'[q] # "ensureClaim"
    <2>1. pc'[q] = pc[q] \/ pc'[q] # "ensureClaim"
        BY <1>7, OneWorker DEF ProcessStep, WorkerStep
    <2> QED  BY <2>1 DEF SaveClaim
<1>8. ASSUME NEW p \in Procs, NEW q \in Procs \ {p},
             pc'[p] = "ensureClaim", pc'[q] = "ensureClaim", idx'[q] = idx'[p]
      PROVE  NewAttempt(q) # NewAttempt(p)
    <2>0. NewAttempt(p) \in Int /\ NewAttempt(q) \in Int
        BY <1>5, <1>8
    <2>1. CASE SaveClaim(p) /\ Held(q)
        <3>1. NewAttempt(q) < NewAttempt(p)
            BY <1>6, <1>8, <2>1
        <3> QED  BY <2>0, <3>1
    <2>2. CASE SaveClaim(q) /\ Held(p)
        <3>1. NewAttempt(p) < NewAttempt(q)
            BY <1>6, <1>8, <2>2
        <3> QED  BY <2>0, <3>1
    <2>3. CASE Held(p) /\ Held(q)
        BY <1>c, <1>8, <2>3 DEF Attempt
    <2> QED  BY <1>4, <1>7, <1>8, <2>1, <2>2, <2>3
<1> QED  BY <1>5, <1>8 DEF ClaimsOK, Attempt

(* A call is made for a saved claim, whose attempt was never called for.   *)
LEMMA SentStep ==
    ASSUME IInv, Next
    PROVE  EachAttemptSentOnce'
<1>t. TypeOK
    BY DEF IInv
<1>a. \A r \in Recipients : /\ rcp[r].att \in Nat /\ rcp'[r].att \in Nat
                            /\ rcp[r].att <= rcp'[r].att
    BY <1>t, TypeStep, RecipientsGrow, ConstantsAssumption DEF TypeOK, RecipientType
<1>b. \A r \in Recipients : \A n \in 1 .. MaxAttempts :
        /\ calls[r][n] \in Nat
        /\ calls[r][n] <= (IF n <= rcp[r].att THEN 1 ELSE 0)
    BY <1>t DEF IInv, EachAttemptSentOnce, TypeOK
<1>1. CASE calls' = calls
    BY <1>1, <1>a, <1>b DEF EachAttemptSentOnce
<1>2. ASSUME NEW p \in Procs, EnsureClaim(p), SendAttempt(idx[p], Attempt(p)), rcp' = rcp,
             NEW r \in Recipients, NEW n \in 1 .. MaxAttempts
      PROVE  calls'[r][n] <= (IF n <= rcp'[r].att THEN 1 ELSE 0)
    <2>1. /\ idx[p] \in Recipients /\ Attempt(p) \in 1 .. rcp[idx[p]].att
          /\ calls[idx[p]][Attempt(p)] = 0
        BY <1>2 DEF EnsureClaim, IInv, LabelsOK, LabelAt, ClaimsOK
    <2>2. calls' = [calls EXCEPT ![idx[p]] =
                        [calls[idx[p]] EXCEPT ![Attempt(p)] = calls[idx[p]][Attempt(p)] + 1]]
        BY <1>2 DEF SendAttempt
    <2>3. DOMAIN calls = Recipients /\ DOMAIN calls[r] = 1 .. MaxAttempts
        BY <1>t DEF TypeOK
    <2>4. CASE r = idx[p] /\ n = Attempt(p)
        <3>1. calls'[r][n] = 1
            <4>1. calls' = [calls EXCEPT ![r] = [calls[r] EXCEPT ![n] = calls[r][n] + 1]]
                BY <2>2, <2>4
            <4>2. calls'[r] = [calls[r] EXCEPT ![n] = calls[r][n] + 1]
                BY <2>3, <4>1
            <4>3. calls[r][n] = 0
                BY <2>1, <2>4
            <4> QED  BY <2>3, <4>2, <4>3
        <3>2. n <= rcp'[r].att
            BY <1>2, <1>a, <2>1, <2>4
        <3> QED  BY <3>1, <3>2
    <2>5. CASE ~(r = idx[p] /\ n = Attempt(p))
        <3>1. calls'[r][n] = calls[r][n]
            BY <2>1, <2>2, <2>3, <2>5
        <3> QED  BY <1>2, <1>b, <3>1
    <2> QED  BY <2>4, <2>5
<1> QED  BY <1>1, <1>2, CallsStep DEF EachAttemptSentOnce

-----------------------------------------------------------------------------
(* Finished campaigns                                                      *)

(* A campaign gets a final status from a worker that saw every recipient   *)
(* settled or from a cancel that settles them, and they stay settled.      *)
LEMMA FinishedStep ==
    ASSUME IInv, Next
    PROVE  FinishedHasNoPending'
<1> USE DEF stored, clock, worker, bounds
<1>g. \A r \in Recipients : rcp[r].st \in Done => rcp'[r].st \in Done
    BY RecipientsGrow
<1>1. ASSUME NEW p \in Procs, ProcessStep(p)
      PROVE  status' = status \/ status' \notin Finished \/ SaveFinal(p)
    BY <1>1 DEF ProcessStep, WorkerStep, ScheduleCampaign, Sweep, AcquireLease, Ensure,
        EnsureTop, EnsureQueued, EnsureRecover, EnsureResult, EnsureNext, EnsureEnd,
        DelayOver, VersionError, Load, Reload, SaveDefer, SaveQueued, EnsureClaim,
        DispatchResult, SaveRunning, SaveNextOccurrence, SeriesOver, SaveParent,
        ReleaseLease, Heartbeat, DbError, Crash, SaveRecover, SaveClaim, SaveResult,
        Finished
<1>2. ASSUME NEW h \in Handlers, HandlerStep(h)
      PROVE  status' = status \/ status' \notin Finished \/ CancelSave(h)
    BY <1>2 DEF HandlerStep, HandlerSaves, HandlerLoad, PauseLoad, ResumeLoad,
        CancelLoad, ReplyLoad, PauseSave, ResumeSave, HandlerFails, ReplySave, Finished
<1>3. Environment => status' = status
    BY DEF Environment, LeaseExpires, RunTimeComes, WindowTurns, SendingGrowsStale
<1>4. ASSUME status' = status \/ status' \notin Finished PROVE FinishedHasNoPending'
    BY <1>4, <1>g DEF IInv, FinishedHasNoPending
<1>5. ASSUME NEW p \in Procs, SaveFinal(p) PROVE FinishedHasNoPending'
    <2>1. \A r \in Recipients : rcp[r].st \in Done
        BY <1>5 DEF SaveFinal, IInv, LabelsOK, LabelAt, DocsOK, DocAt
    <2> QED  BY <1>g, <2>1 DEF FinishedHasNoPending
<1>6. ASSUME NEW h \in Handlers, CancelSave(h) PROVE FinishedHasNoPending'
    <2>1. rcp' = CanceledAll(rcp)
        BY <1>6 DEF CancelSave, Current, IInv, DocsOK, DocAt
    <2>2. \A r \in Recipients : rcp[r].st \in Pending \cup Done
        BY DEF IInv, TypeOK, RecipientType
    <2> QED  BY <2>1, <2>2 DEF FinishedHasNoPending, CanceledAll, WithStatus, Done
<1> QED  BY <1>1, <1>2, <1>3, <1>4, <1>5, <1>6 DEF Next

-----------------------------------------------------------------------------
(* The invariant and the theorems                                          *)

(* A campaign that createCampaign saved satisfies the invariant.           *)
LEMMA IInvInit == Init => IInv
<1> SUFFICES ASSUME Init PROVE IInv
    OBVIOUS
<1>c. 0 \in 0 .. N /\ 0 \in 0 .. MaxAttempts /\ MaxAttempts > 0
    BY ConstantsAssumption
<1>n. NewRecipients \in RcpType
    BY <1>c DEF NewRecipients, NewRecipient, RcpType, RecipientType, Pending, Claimable
<1>0. NoCounts \in CountsType /\ NoLease \in Leases /\ NoDoc \in Docs
    BY <1>c, NoDocType DEF NoCounts, CountsType, NoLease, Leases, Owners
<1>1. TypeOK
    <2>1. call \in [Handlers -> [op : {"none", "pause", "resume", "cancel", "reply"},
                                 r : 0 .. N, doc : Docs]]
        BY <1>c, <1>0 DEF Init, NoCall
    <2>2. calls \in [Recipients -> [1 .. MaxAttempts -> Nat]]
        BY DEF Init
    <2>3. status \in Statuses /\ series \in SeriesType /\ nextRunAt \in {"null", "future", "past"}
        BY DEF Init, InitialStatus, InitialRunAt, Statuses, SeriesType
    <2>4. pc \in [Procs -> Labels] /\ mem \in [Procs -> Docs] /\ idx \in [Procs -> 0 .. N]
        BY <1>c, <1>0 DEF Init, Labels
    <2> QED  BY <1>n, <1>0, <2>1, <2>2, <2>3, <2>4 DEF Init, TypeOK, RcpType
<1>2. DocsOK
    BY DEF Init, DocsOK, DocAt, NoCall, NoDoc, NewRecipients, NewRecipient, Done
<1>3. AttemptsLeft
    BY <1>c DEF Init, AttemptsLeft, NewRecipients, NewRecipient
<1>4. LabelsOK /\ ClaimsOK
    BY DEF Init, LabelsOK, LabelAt, ClaimsOK
<1>5. EachAttemptSentOnce
    BY ConstantsAssumption DEF Init, EachAttemptSentOnce, NewRecipients, NewRecipient
<1>6. FinishedHasNoPending
    BY DEF Init, InitialStatus, FinishedHasNoPending, Finished
<1> QED  BY <1>1, <1>2, <1>3, <1>4, <1>5, <1>6 DEF IInv

(* Every step of the system keeps the invariant.                           *)
LEMMA IInvStep == IInv /\ [Next]_vars => IInv'
<1>1. ASSUME IInv, Next PROVE IInv'
    BY <1>1, TypeStep, DocsStep, AttemptsLeftStep, LabelsStep, ClaimsStep, SentStep,
       FinishedStep DEF IInv
<1>2. ASSUME IInv, UNCHANGED vars PROVE IInv'
    BY <1>2 DEF IInv, TypeOK, DocsOK, DocAt, AttemptsLeft, LabelsOK, LabelAt, ClaimsOK,
        Attempt, EachAttemptSentOnce, FinishedHasNoPending, vars, stored, clock, worker,
        bounds
<1> QED  BY <1>1, <1>2

(* The inductive invariant holds in every state.                           *)
THEOREM Invariant == Spec => []IInv
BY IInvInit, IInvStep, PTL DEF Spec

(* Every state is well typed: no recipient passes MaxAttempts.             *)
THEOREM TypeCorrect == Spec => []TypeOK
<1>1. IInv => TypeOK
    BY DEF IInv
<1> QED  BY <1>1, Invariant, PTL

(* The provider is called at most once for each counted attempt, for every *)
(* number of processes and recipients, however leases lapse, saves race    *)
(* and processes stop.                                                     *)
THEOREM AttemptsSentOnce == Spec => []EachAttemptSentOnce
<1>1. IInv => EachAttemptSentOnce
    BY DEF IInv
<1> QED  BY <1>1, Invariant, PTL

(* A finished or canceled campaign has no recipient left to send to,       *)
(* whichever worker or handler wrote its status from however old a copy.   *)
THEOREM FinishedSettled == Spec => []FinishedHasNoPending
<1>1. IInv => FinishedHasNoPending
    BY DEF IInv
<1> QED  BY <1>1, Invariant, PTL

-----------------------------------------------------------------------------
(* While leases outlive the work they cover                                *)

\* A worker that is past its acquisition.
Busy(p) == pc[p] \notin {"idle", "acquire"}
Live(o) == [owner |-> o, live |-> TRUE]

\* Labels of a worker that holds a document it loaded under its lease.
Loaded ==
    Labels \ {"idle", "acquire", "ensureTop", "load", "release"}

\* A worker past its acquisition holds the lease, and so does the copy that
\* its final saves write back; no call marks a reply, which would write back
\* a lease of somebody else.
LeasesOK ==
    /\ \A p \in Procs : Busy(p) => lease = Live(Owner(p))
    /\ \A p \in Procs : pc[p] \in Loaded => mem[p].lease = Live(Owner(p))
    /\ \A h \in Handlers : call[h].op \in Ops \cup {"none"}

(* Processes whose leases name the same owner are one process.              *)
LEMMA OwnersDiffer ==
    ASSUME NEW p \in Procs, NEW q \in Procs
    PROVE  /\ Owner(p) = Owner(q) => p = q
           /\ Live(Owner(p)) = Live(Owner(q)) => p = q
           /\ Owner(p) # <<>>
BY DEF Owner, Live

(* Of two workers past their acquisition one does not hold the lease.       *)
LEMMA Excluded == LeasesOK => ActiveLeaseExcludesOthers
BY OwnersDiffer DEF LeasesOK, ActiveLeaseExcludesOthers, Busy

(* While one worker is past its acquisition, no other step of a process      *)
(* than its own gets past it, or writes anything.                          *)
LEMMA OnlyWorker ==
    ASSUME IInv, LeasesOK, NEW p \in Procs, Busy(p), NEW q \in Procs \ {p}, ProcessStep(q)
    PROVE  /\ ~Busy(q) /\ pc'[q] \in {"idle", "acquire"}
           /\ UNCHANGED <<stored, clock, call, successors>>
<1> USE DEF stored, clock, worker, bounds
<1>1. pc[q] \in {"idle", "acquire"}
    BY Excluded DEF ActiveLeaseExcludesOthers, Busy
<1>2. ~LeaseFree(q) /\ DOMAIN pc = Procs
    BY OwnersDiffer DEF LeasesOK, LeaseFree, HoldsLease, Live, IInv, TypeOK
<1>3. \/ ScheduleCampaign(q) \/ Sweep(q) \/ AcquireLease(q) \/ DbError(q) \/ Crash(q)
    BY <1>1 DEF ProcessStep, WorkerStep, Ensure,
        EnsureTop, EnsureQueued, EnsureRecover, EnsureResult, EnsureNext, EnsureEnd,
        DelayOver, VersionError, Load, Reload, SaveDefer, SaveQueued, EnsureClaim,
        DispatchResult, SaveRunning, SaveFinal, SaveNextOccurrence, SeriesOver,
        SaveParent, ReleaseLease, Heartbeat, SaveRecover, SaveClaim, SaveResult
<1>4. pc'[q] \in {"idle", "acquire"}
    BY <1>1, <1>2, <1>3 DEF ScheduleCampaign, Sweep, StartWorker, AcquireLease, DbError,
        Crash, Exit, Goto
<1>5. UNCHANGED <<stored, clock, call, successors>>
    BY <1>1, <1>2, <1>3 DEF ScheduleCampaign, Sweep, AcquireLease, DbError, Crash
<1> QED  BY <1>1, <1>4, <1>5 DEF Busy

(* A worker past its acquisition renews its lease or leaves.                *)
LEMMA HolderStep ==
    ASSUME IInv, LeasesOK, NEW p \in Procs, Busy(p), ProcessStep(p)
    PROVE  /\ pc'[p] = "idle" \/ (lease' = lease /\ inc' = inc /\ pc'[p] # "acquire")
           /\ pc'[p] \in Loaded => mem'[p].lease = lease
<1> USE DEF stored, clock, worker, bounds
<1>t. /\ DOMAIN pc = Procs /\ mem \in [Procs -> Docs] /\ pc[p] \in Labels
      /\ lease = Live(Owner(p)) /\ HoldsLease(p)
    BY DEF IInv, TypeOK, LeasesOK, HoldsLease, Live
<1>l. pc[p] \in Loaded => mem[p].lease = lease
    BY DEF LeasesOK
<1>r. RenewLease(p) => lease' = lease
    BY <1>t DEF RenewLease, Live
<1>1. CASE ScheduleCampaign(p) \/ Sweep(p)
    BY <1>t, <1>l, <1>1 DEF ScheduleCampaign, Sweep, StartWorker, Busy
<1>2. CASE \/ EnsureTop(p) \/ EnsureQueued(p) \/ EnsureRecover(p)
           \/ EnsureResult(p) \/ EnsureNext(p) \/ EnsureEnd(p) \/ EnsureClaim(p)
    <2>1. /\ lease' = lease /\ inc' = inc /\ mem' = mem
        BY <1>r, <1>2 DEF EnsureTop, EnsureQueued, EnsureRecover, EnsureResult,
            EnsureNext, EnsureEnd, EnsureClaim, Ensure
    <2>2. pc[p] \notin Loaded => pc'[p] = "load"
        BY <1>t, <1>2 DEF EnsureTop, EnsureQueued, EnsureRecover, EnsureResult,
            EnsureNext, EnsureEnd, EnsureClaim, Ensure, Goto, Loaded
    <2>3. pc'[p] # "acquire"
        BY <1>t, <1>2 DEF EnsureTop, EnsureQueued, EnsureRecover, EnsureResult,
            EnsureNext, EnsureEnd, EnsureClaim, Ensure, Goto, AfterWindow, ClaimOrFinish
    <2> QED  BY <1>l, <2>1, <2>2, <2>3 DEF Loaded
<1>3. CASE Load(p) \/ Reload(p)
    BY <1>t, <1>3 DEF Load, Reload, Goto, Snapshot, AfterLoad, AfterWindow, ClaimOrFinish
<1>4. CASE \/ SaveDefer(p) \/ VersionError(p) \/ DelayOver(p) \/ DispatchResult(p)
           \/ SaveRunning(p) \/ Heartbeat(p)
    <2>1. lease' = lease /\ inc' = inc /\ mem' = mem /\ pc[p] \in Loaded
        BY <1>t, <1>r, <1>4 DEF SaveDefer, VersionError, DelayOver, DispatchResult,
            SaveRunning, Heartbeat, Loaded
    <2>2. pc'[p] # "acquire"
        BY <1>t, <1>4 DEF SaveDefer, VersionError, DelayOver, DispatchResult,
            SaveRunning, Heartbeat, Goto, Busy
    <2> QED  BY <1>l, <2>1, <2>2
<1>5. CASE \/ SaveQueued(p) \/ SaveNextOccurrence(p) \/ SeriesOver(p)
           \/ SaveRecover(p) \/ SaveClaim(p) \/ SaveResult(p)
    <2>1. lease' = lease /\ inc' = inc /\ pc[p] \in Loaded /\ pc'[p] # "acquire"
        BY <1>t, <1>5 DEF SaveQueued, SaveNextOccurrence, SeriesOver, SaveRecover,
            SaveClaim, SaveResult, Goto, Loaded
    <2>2. \/ \E v : mem'[p] = [mem[p] EXCEPT !.status = v]
          \/ \E v : mem'[p] = [mem[p] EXCEPT !.series = v]
          \/ \E st : mem'[p] = Written(mem[p], st, rcp', ver')
        BY <1>t, <1>5 DEF SaveQueued, SaveNextOccurrence, SeriesOver, SaveRecover,
            SaveClaim, SaveResult
    <2>3. mem'[p].lease = mem[p].lease
        <3>1. \A v : /\ [mem[p] EXCEPT !.status = v].lease = mem[p].lease
                     /\ [mem[p] EXCEPT !.series = v].lease = mem[p].lease
            BY <1>t DEF Docs
        <3>2. \A st : Written(mem[p], st, rcp', ver').lease = mem[p].lease
            BY DEF Written
        <3> QED  BY <2>2, <3>1, <3>2
    <2> QED  BY <1>l, <2>1, <2>3
<1>6. CASE SaveFinal(p) \/ SaveParent(p)
    <2>1. lease' = lease /\ inc' = inc /\ mem' = mem
        BY <1>l, <1>t, <1>6 DEF SaveFinal, SaveParent, WriteCampaign, Loaded
    <2>2. pc'[p] # "acquire" /\ pc[p] \in Loaded
        BY <1>t, <1>6 DEF SaveFinal, SaveParent, Goto, Loaded
    <2> QED  BY <1>l, <2>1, <2>2
<1>7. CASE ReleaseLease(p) \/ Crash(p)
    BY <1>t, <1>7 DEF ReleaseLease, Crash, Exit, Goto, Loaded
<1>8. CASE DbError(p)
    BY <1>t, <1>8 DEF DbError, Exit, Goto, Loaded
<1>9. ~AcquireLease(p)
    BY DEF AcquireLease, Busy
<1> QED  BY <1>1, <1>2, <1>3, <1>4, <1>5, <1>6, <1>7, <1>8, <1>9
          DEF ProcessStep, WorkerStep

(* A step of a process changes its own incarnation only, and no call.       *)
LEMMA OwnIncarnation ==
    ASSUME IInv, NEW p \in Procs, ProcessStep(p)
    PROVE  call' = call /\ \A q \in Procs \ {p} : inc'[q] = inc[q]
<1> USE DEF stored, clock, worker, bounds
<1>1. inc \in [Procs -> Nat]
    BY DEF IInv, TypeOK
<1>2. call' = call /\ (inc' = inc \/ inc' = [inc EXCEPT ![p] = inc[p] + 1])
    BY DEF ProcessStep, WorkerStep, ScheduleCampaign, Sweep, AcquireLease,
        Ensure, EnsureTop, EnsureQueued, EnsureRecover, EnsureResult, EnsureNext,
        EnsureEnd, DelayOver, VersionError, Load, Reload, SaveDefer, SaveQueued,
        EnsureClaim, DispatchResult, SaveRunning, SaveFinal, SaveNextOccurrence,
        SeriesOver, SaveParent, ReleaseLease, Heartbeat, DbError, Crash,
        SaveRecover, SaveClaim, SaveResult
<1> QED  BY <1>1, <1>2

(* A worker gets past its acquisition with the lease in its name.           *)
LEMMA AcquireStep ==
    ASSUME IInv, NEW p \in Procs, ~Busy(p), ProcessStep(p)
    PROVE  /\ pc'[p] \in {"idle", "acquire"} \/ (pc'[p] = "ensureTop" /\ lease' = Live(Owner(p)))
           /\ pc'[p] = "ensureTop" => inc' = inc
<1> USE DEF stored, clock, worker, bounds
<1>t. DOMAIN pc = Procs /\ pc[p] \in {"idle", "acquire"}
    BY DEF IInv, TypeOK, Busy
<1>3. \/ ScheduleCampaign(p) \/ Sweep(p) \/ AcquireLease(p) \/ DbError(p) \/ Crash(p)
    BY <1>t DEF ProcessStep, WorkerStep, Ensure,
        EnsureTop, EnsureQueued, EnsureRecover, EnsureResult, EnsureNext, EnsureEnd,
        DelayOver, VersionError, Load, Reload, SaveDefer, SaveQueued, EnsureClaim,
        DispatchResult, SaveRunning, SaveFinal, SaveNextOccurrence, SeriesOver,
        SaveParent, ReleaseLease, Heartbeat, SaveRecover, SaveClaim, SaveResult
<1> QED  BY <1>t, <1>3 DEF ScheduleCampaign, Sweep, StartWorker, AcquireLease, DbError,
          Crash, Exit, Goto, Live

(* What handlers hold is an operation that was called, and of those only a  *)
(* marked reply writes a lease.                                            *)
LEMMA HandlerLease ==
    ASSUME "reply" \notin Ops, IInv, LeasesOK, NEW h \in Handlers, HandlerStep(h)
    PROVE  /\ lease' = lease /\ inc' = inc
           /\ \A g \in Handlers : call'[g].op \in Ops \cup {"none"}
<1> USE DEF stored, clock, worker, bounds
<1>t. DOMAIN call = Handlers /\ \A g \in Handlers : call[g].op \in Ops \cup {"none"}
    BY DEF IInv, TypeOK, LeasesOK
<1>1. ~ReplySave(h)
    BY <1>t DEF ReplySave
<1>2. lease' = lease /\ inc' = inc
    BY <1>1 DEF HandlerStep, HandlerSaves, HandlerLoad, PauseLoad, ResumeLoad,
        CancelLoad, ReplyLoad, PauseSave, ResumeSave, HandlerFails, CancelSave
<1>3. \/ call' = [call EXCEPT ![h] = NoCall]
      \/ \E op \in Ops : \E r, d : call' = [call EXCEPT ![h] = [op |-> op, r |-> r, doc |-> d]]
    BY <1>1 DEF HandlerStep, HandlerSaves, HandlerLoad, PauseLoad, ResumeLoad,
        CancelLoad, ReplyLoad, PauseSave, ResumeSave, HandlerFails, CancelSave, Respond
<1>4. \A g \in Handlers : call'[g].op \in Ops \cup {"none"}
    BY <1>t, <1>3 DEF NoCall
<1> QED  BY <1>2, <1>4

(* No step takes the lease from the worker that holds it.                   *)
LEMMA LeasesStep ==
    ASSUME ~MayLapse, "reply" \notin Ops, IInv, LeasesOK, Next
    PROVE  LeasesOK'
<1> USE DEF stored, clock, worker, bounds
<1>l. /\ \A q \in Procs : Busy(q) => lease = Live(Owner(q))
      /\ \A q \in Procs : pc[q] \in Loaded => mem[q].lease = Live(Owner(q))
      /\ \A h \in Handlers : call[h].op \in Ops \cup {"none"}
    BY DEF LeasesOK
<1>d. \A q \in Procs : pc[q] \in Loaded => Busy(q)
    BY DEF Loaded, Busy
<1>1. ASSUME NEW p \in Procs, ProcessStep(p) PROVE LeasesOK'
    <2>1. call' = call /\ \A q \in Procs \ {p} : inc'[q] = inc[q]
        BY <1>1, OwnIncarnation
    <2>2. ASSUME NEW q \in Procs \ {p}
          PROVE  /\ pc'[q] \notin {"idle", "acquire"} => lease' = Live(<<q, inc'[q]>>)
                 /\ pc'[q] \in Loaded => mem'[q].lease = Live(<<q, inc'[q]>>)
        <3>1. pc'[q] = pc[q] /\ mem'[q] = mem[q] /\ inc'[q] = inc[q]
            BY <1>1, <2>1, OneWorker
        <3>2. Busy(q) => lease' = lease
            BY <1>1, OnlyWorker
        <3> QED  BY <1>l, <3>1, <3>2 DEF Busy, Owner
    <2>3. /\ pc'[p] \notin {"idle", "acquire"} => lease' = Live(<<p, inc'[p]>>)
          /\ pc'[p] \in Loaded => mem'[p].lease = Live(<<p, inc'[p]>>)
        <3>1. CASE Busy(p)
            BY <1>1, <1>l, <3>1, HolderStep DEF Owner, Loaded
        <3>2. CASE ~Busy(p)
            BY <1>1, <3>2, AcquireStep DEF Owner, Loaded
        <3> QED  BY <3>1, <3>2
    <2> QED  BY <1>l, <2>1, <2>2, <2>3 DEF LeasesOK, Busy, Owner
<1>2. ASSUME NEW h \in Handlers, HandlerStep(h) PROVE LeasesOK'
    <2>1. pc' = pc /\ mem' = mem
        BY <1>2, NoWorker
    <2> QED  BY <1>2, <1>l, <2>1, HandlerLease DEF LeasesOK, Busy, Owner
<1>3. ASSUME Environment PROVE LeasesOK'
    <2>1. pc' = pc /\ mem' = mem /\ inc' = inc /\ call' = call
        BY <1>3 DEF Environment, LeaseExpires, RunTimeComes, WindowTurns, SendingGrowsStale
    <2>2. ASSUME NEW q \in Procs, Busy(q) PROVE lease' = lease
        <3>1. Working(lease.owner)
            BY <1>l, <2>2 DEF Working, Busy, Live
        <3> QED  BY <1>3, <3>1 DEF Environment, LeaseExpires, RunTimeComes, WindowTurns,
                  SendingGrowsStale
    <2> QED  BY <1>l, <2>1, <2>2 DEF LeasesOK, Busy, Owner
<1> QED  BY <1>1, <1>2, <1>3 DEF Next

(* At first nobody works on the campaign.                                   *)
LEMMA LeasesInit == Init => LeasesOK
BY DEF Init, LeasesOK, Busy, Loaded, NoCall

-----------------------------------------------------------------------------
(* Answers and accepted templates                                          *)

\* Labels of a worker whose claim is not settled yet.
Claiming == {"ensureClaim", "dispatch", "ensureResult", "reload", "saveResult"}

\* A claimed recipient waits for its answer, or was canceled meanwhile.
AnswersOK ==
    \A p \in Procs : pc[p] \in Claiming => rcp[idx[p]].st \in {"sending", "canceled"}

(* A worker that goes on from a document claims nothing in doing so.        *)
LEMMA NotClaiming ==
    ASSUME NEW d
    PROVE  /\ ClaimOrFinish(d.rcp) \notin Claiming
           /\ AfterWindow(d) \notin Claiming
           /\ AfterLoad(d) \notin Claiming
BY DEF ClaimOrFinish, AfterWindow, AfterLoad, Claiming

(* A worker gets to a claim by saving one.                                  *)
LEMMA ClaimKept ==
    ASSUME IInv, NEW p \in Procs, ProcessStep(p), pc'[p] \in Claiming
    PROVE  \/ SaveClaim(p)
           \/ pc[p] \in Claiming /\ idx' = idx /\ rcp' = rcp
<1> USE DEF stored, clock, worker, bounds
<1>t. DOMAIN pc = Procs
    BY DEF IInv, TypeOK
<1>1. CASE EnsureClaim(p) \/ DispatchResult(p) \/ EnsureResult(p) \/ Reload(p) \/ Heartbeat(p)
    BY <1>t, <1>1 DEF EnsureClaim, DispatchResult, EnsureResult, Ensure, Reload,
        Heartbeat, Goto, Claiming
<1>2. CASE ScheduleCampaign(p) \/ Sweep(p)
    BY <1>t, <1>2 DEF ScheduleCampaign, Sweep, StartWorker, Claiming
<1>3. CASE Load(p) \/ EnsureQueued(p) \/ EnsureRecover(p)
    <2>1. pc'[p] \in {"release", AfterLoad(Snapshot), AfterWindow(mem[p]),
                      ClaimOrFinish(mem[p].rcp)}
        BY <1>t, <1>3 DEF Load, EnsureQueued, EnsureRecover, Ensure, Goto
    <2> QED  BY <2>1, NotClaiming DEF Claiming
<1>4. CASE \/ AcquireLease(p) \/ EnsureTop(p) \/ EnsureNext(p) \/ EnsureEnd(p)
           \/ DelayOver(p) \/ SaveDefer(p) \/ SaveQueued(p) \/ SaveRecover(p)
           \/ SaveResult(p) \/ VersionError(p) \/ SaveRunning(p) \/ SaveFinal(p)
           \/ SaveNextOccurrence(p) \/ SeriesOver(p) \/ SaveParent(p)
           \/ ReleaseLease(p) \/ DbError(p) \/ Crash(p)
    <2>1. pc'[p] \notin Claiming
        BY <1>t, <1>4 DEF AcquireLease, Ensure, EnsureTop, EnsureNext, EnsureEnd,
            DelayOver, SaveDefer, SaveQueued, SaveRecover, SaveResult, VersionError,
            SaveRunning, SaveFinal, SaveNextOccurrence, SeriesOver, SaveParent,
            ReleaseLease, DbError, Crash, Exit, Goto, Claiming
    <2> QED  BY <2>1
<1> QED  BY <1>1, <1>2, <1>3, <1>4 DEF ProcessStep, WorkerStep

(* A claim sets its recipient to sending.                                   *)
LEMMA ClaimSends ==
    ASSUME IInv, NEW p \in Procs, SaveClaim(p)
    PROVE  /\ idx'[p] \in ClaimableIn(rcp) /\ rcp' = Claimed(rcp, idx'[p])
           /\ rcp'[idx'[p]].st = "sending"
<1>1. mem[p].rcp = rcp /\ rcp' = Claimed(mem[p].rcp, idx'[p]) /\ DOMAIN idx = Procs
    BY DEF SaveClaim, SaveRecipients, Current, IInv, TypeOK, DocsOK, DocAt
<1>2. idx'[p] \in ClaimableIn(rcp)
    BY <1>1, NextIndexClaimable DEF SaveClaim, IInv, LabelsOK, LabelAt
<1>3. DOMAIN rcp = Recipients /\ idx'[p] \in Recipients
    BY <1>2 DEF IInv, TypeOK, ClaimableIn
<1> QED  BY <1>1, <1>2, <1>3 DEF Claimed

(* Handlers and time cancel a claimed recipient or leave it.                *)
LEMMA ClaimedOrCanceled ==
    ASSUME IInv, Environment \/ \E h \in Handlers : HandlerStep(h), NEW r \in Recipients
    PROVE  /\ rcp[r].st \in {"sending", "canceled"} => rcp'[r].st \in {"sending", "canceled"}
           /\ rcp[r].st \in {"accepted", "failed"} <=> rcp'[r].st \in {"accepted", "failed"}
           /\ rcp[r].st = "accepted" => rcp'[r].st = "accepted"
<1> USE DEF stored, clock, worker, bounds
<1>1. Environment => rcp' = rcp
    BY DEF Environment, LeaseExpires, RunTimeComes, WindowTurns, SendingGrowsStale
<1>2. ASSUME NEW h \in Handlers, HandlerStep(h)
      PROVE  rcp' = rcp \/ CancelSave(h) \/ ReplySave(h)
    BY <1>2 DEF HandlerStep, HandlerSaves, HandlerLoad, PauseLoad, ResumeLoad,
        CancelLoad, ReplyLoad, PauseSave, ResumeSave, HandlerFails
<1>3. ASSUME NEW h \in Handlers, CancelSave(h) PROVE rcp' = CanceledAll(rcp)
    BY <1>3 DEF CancelSave, Current, IInv, DocsOK, DocAt
<1>4. ASSUME NEW h \in Handlers, ReplySave(h) PROVE rcp' = Replied(rcp, call[h].r)
    BY <1>4 DEF ReplySave, Current, IInv, DocsOK, DocAt
<1>5. rcp[r].st \in Pending \cup Done
    BY DEF IInv, TypeOK, RecipientType
<1>6. rcp' = CanceledAll(rcp) =>
        rcp'[r].st = IF rcp[r].st \in Pending THEN "canceled" ELSE rcp[r].st
    BY DEF CanceledAll, WithStatus
<1>7. \A s : rcp' = Replied(rcp, s) => rcp'[r].st = rcp[r].st
    BY DEF Replied, IInv, TypeOK
<1> QED  BY <1>1, <1>2, <1>3, <1>4, <1>5, <1>6, <1>7 DEF Pending, Claimable, Done

(* Only the worker itself and a cancel change a recipient it has claimed.   *)
LEMMA AnswersStep ==
    ASSUME IInv, LeasesOK, AnswersOK, Next
    PROVE  AnswersOK'
<1>i. \A q \in Procs : pc[q] \in Claiming => Busy(q) /\ idx[q] \in Recipients
    BY DEF Claiming, Busy, IInv, LabelsOK, LabelAt
<1>1. ASSUME NEW p \in Procs, ProcessStep(p), NEW q \in Procs, pc'[q] \in Claiming
      PROVE  rcp'[idx'[q]].st \in {"sending", "canceled"}
    <2>1. CASE q = p
        BY <1>1, <2>1, ClaimKept, ClaimSends DEF AnswersOK
    <2>2. CASE q # p
        <3>1. pc'[q] = pc[q] /\ idx'[q] = idx[q]
            BY <1>1, <2>2, OneWorker
        <3>2. rcp' = rcp
            BY <1>1, <1>i, <2>2, <3>1, OnlyWorker DEF stored
        <3> QED  BY <1>1, <3>1, <3>2 DEF AnswersOK
    <2> QED  BY <2>1, <2>2
<1>2. ASSUME Environment \/ \E h \in Handlers : HandlerStep(h), NEW q \in Procs,
             pc'[q] \in Claiming
      PROVE  rcp'[idx'[q]].st \in {"sending", "canceled"}
    BY <1>2, <1>i, NoWorker, ClaimedOrCanceled DEF AnswersOK
<1> QED  BY <1>1, <1>2 DEF Next, AnswersOK

(* What is accepted stays accepted: the answer of a worker is for a         *)
(* recipient that waits for one.                                           *)
LEMMA AcceptedStep ==
    ASSUME IInv, LeasesOK, AnswersOK, Next, NEW r \in Recipients, rcp[r].st = "accepted"
    PROVE  rcp'[r].st = "accepted"
<1> USE DEF stored, clock, worker, bounds
<1>1. ASSUME NEW p \in Procs, ProcessStep(p) PROVE rcp'[r].st = "accepted"
    <2>0. DOMAIN rcp = Recipients
        BY DEF IInv, TypeOK
    <2>1. rcp' = rcp \/ SaveRecover(p) \/ SaveClaim(p) \/ SaveResult(p)
        BY <1>1 DEF ProcessStep, WorkerStep, ScheduleCampaign, Sweep, AcquireLease, Ensure,
            EnsureTop, EnsureQueued, EnsureRecover, EnsureResult, EnsureNext, EnsureEnd,
            DelayOver, VersionError, Load, Reload, SaveDefer, SaveQueued, EnsureClaim,
            DispatchResult, SaveRunning, SaveFinal, SaveNextOccurrence, SeriesOver,
            SaveParent, ReleaseLease, Heartbeat, DbError, Crash
    <2>2. CASE SaveRecover(p)
        <3>1. mem[p].rcp = rcp /\ rcp' = Recovered(mem[p])
            BY <2>2 DEF SaveRecover, SaveRecipients, Current, IInv, DocsOK, DocAt
        <3> QED  BY <3>1 DEF Recovered, StaleSending
    <2>3. CASE SaveClaim(p)
        <3>1. idx'[p] \in ClaimableIn(rcp) /\ rcp' = Claimed(rcp, idx'[p])
            BY <2>3, ClaimSends
        <3> QED  BY <2>0, <3>1 DEF Claimed, ClaimableIn, Claimable
    <2>4. CASE SaveResult(p)
        <3>1. mem[p].rcp = rcp /\ rcp' = Answered(mem[p].rcp, idx[p], result[p])
            BY <2>4 DEF SaveResult, SaveRecipients, Current, IInv, DocsOK, DocAt
        <3>2. rcp[idx[p]].st \in {"sending", "canceled"}
            BY <2>4 DEF SaveResult, AnswersOK, Claiming
        <3> QED  BY <2>0, <3>1, <3>2 DEF Answered
    <2> QED  BY <2>1, <2>2, <2>3, <2>4
<1>2. Environment \/ (\E h \in Handlers : HandlerStep(h)) => rcp'[r].st = "accepted"
    BY ClaimedOrCanceled
<1> QED  BY <1>1, <1>2 DEF Next

-----------------------------------------------------------------------------
(* The next occurrence                                                     *)

\* The campaign has its next occurrence, or a worker is about to save it.
Over == successors > 0 \/ \E p \in Procs : pc[p] \in {"createNext", "saveParent"}
\* Labels of a worker that claims nothing any more.
Ending ==
    {"idle", "acquire", "ensureTop", "load", "createNext", "saveParent", "ensureEnd",
     "release"}

\* A campaign that is over has a final status, and every worker leaves it.
NextsOK ==
    /\ \A p \in Procs : pc[p] = "createNext" => successors = 0
    /\ successors <= 1
    /\ Over => status \in Finished /\ \A p \in Procs : pc[p] \in Ending

(* A worker of a campaign that is over stays among those labels and keeps   *)
(* the final status.                                                       *)
LEMMA EndingStep ==
    ASSUME IInv, status \in Finished, NEW p \in Procs, pc[p] \in Ending, ProcessStep(p)
    PROVE  /\ pc'[p] \in Ending /\ status' = status
           /\ pc'[p] = "createNext" => pc[p] = "createNext" /\ successors' = successors
           /\ successors' = successors \/ (pc[p] = "createNext" /\ successors' = successors + 1)
<1> USE DEF stored, clock, worker, bounds, Ending
<1>t. DOMAIN pc = Procs
    BY DEF IInv, TypeOK
<1>1. \/ ScheduleCampaign(p) \/ Sweep(p) \/ AcquireLease(p) \/ EnsureTop(p) \/ Load(p)
      \/ SaveNextOccurrence(p) \/ SeriesOver(p) \/ SaveParent(p) \/ EnsureEnd(p)
      \/ ReleaseLease(p) \/ DbError(p) \/ Crash(p)
    BY DEF ProcessStep, WorkerStep, Ensure, EnsureQueued, EnsureRecover, EnsureResult,
        EnsureNext, DelayOver, VersionError, Reload, SaveDefer, SaveQueued, EnsureClaim,
        DispatchResult, SaveRunning, SaveFinal, Heartbeat, SaveRecover, SaveClaim, SaveResult
<1>2. status' = status
    BY <1>1 DEF ScheduleCampaign, Sweep, AcquireLease, EnsureTop, Ensure, Load,
        SaveNextOccurrence, SeriesOver, SaveParent, EnsureEnd, ReleaseLease, DbError, Crash
<1>3. successors' = successors \/ (pc[p] = "createNext" /\ successors' = successors + 1)
    BY <1>1 DEF ScheduleCampaign, Sweep, AcquireLease, EnsureTop, Ensure, Load,
        SaveNextOccurrence, SeriesOver, SaveParent, EnsureEnd, ReleaseLease, DbError, Crash
<1>4. AfterLoad(Snapshot) = "release"
    BY DEF AfterLoad, StopsWorker, Snapshot
<1>5. /\ pc'[p] \in Ending
      /\ pc'[p] = "createNext" => pc[p] = "createNext" /\ successors' = successors
    <2>1. CASE ScheduleCampaign(p) \/ Sweep(p)
        <3>1. pc'[p] \in {pc[p], "acquire"} /\ successors' = successors
            BY <1>t, <2>1 DEF ScheduleCampaign, Sweep, StartWorker
        <3> QED  BY <3>1
    <2>2. CASE Load(p) \/ EnsureTop(p) \/ EnsureEnd(p) \/ AcquireLease(p)
        BY <1>t, <1>4, <2>2 DEF Load, EnsureTop, EnsureEnd, Ensure, AcquireLease, Goto
    <2>3. CASE \/ SaveNextOccurrence(p) \/ SeriesOver(p) \/ SaveParent(p)
               \/ ReleaseLease(p) \/ DbError(p) \/ Crash(p)
        BY <1>t, <2>3 DEF SaveNextOccurrence, SeriesOver, SaveParent, ReleaseLease, DbError,
            Crash, Exit, Goto
    <2> QED  BY <1>1, <2>1, <2>2, <2>3
<1> QED  BY <1>2, <1>3, <1>5

(* A worker is to save the next occurrence after a final save only.         *)
LEMMA IntoNext ==
    ASSUME IInv, NEW p \in Procs, ProcessStep(p), pc[p] \notin {"createNext", "saveParent"}
    PROVE  /\ successors' = successors
           /\ pc'[p] \in {"createNext", "saveParent"} => SaveFinal(p) /\ pc'[p] = "createNext"
<1> USE DEF stored, clock, worker, bounds
<1>t. DOMAIN pc = Procs
    BY DEF IInv, TypeOK
<1>1. successors' = successors
    BY DEF ProcessStep, WorkerStep, ScheduleCampaign, Sweep, AcquireLease, Ensure,
        EnsureTop, EnsureQueued, EnsureRecover, EnsureResult, EnsureNext, EnsureEnd,
        DelayOver, VersionError, Load, Reload, SaveDefer, SaveQueued, EnsureClaim,
        DispatchResult, SaveRunning, SaveFinal, SaveNextOccurrence, SeriesOver,
        SaveParent, ReleaseLease, Heartbeat, DbError, Crash, SaveRecover, SaveClaim,
        SaveResult
<1>2. CASE Load(p) \/ EnsureQueued(p) \/ EnsureRecover(p)
    <2>1. pc'[p] \in {"release", AfterLoad(Snapshot), AfterWindow(mem[p]),
                      ClaimOrFinish(mem[p].rcp)}
        BY <1>t, <1>2 DEF Load, EnsureQueued, EnsureRecover, Ensure, Goto
    <2>2. pc'[p] \notin {"createNext", "saveParent"}
        BY <2>1 DEF AfterLoad, AfterWindow, ClaimOrFinish
    <2> QED  BY <1>1, <2>2
<1>3. CASE ScheduleCampaign(p) \/ Sweep(p)
    BY <1>t, <1>1, <1>3 DEF ScheduleCampaign, Sweep, StartWorker
<1>4. CASE SaveFinal(p)
    BY <1>t, <1>1, <1>4 DEF SaveFinal, Goto
<1>5. CASE \/ AcquireLease(p) \/ EnsureTop(p) \/ EnsureResult(p) \/ EnsureNext(p)
           \/ EnsureEnd(p) \/ DelayOver(p) \/ VersionError(p) \/ Reload(p) \/ SaveDefer(p)
           \/ SaveQueued(p) \/ EnsureClaim(p) \/ DispatchResult(p) \/ SaveRunning(p)
           \/ SaveNextOccurrence(p) \/ SeriesOver(p) \/ SaveParent(p) \/ ReleaseLease(p)
           \/ Heartbeat(p) \/ DbError(p) \/ Crash(p) \/ SaveRecover(p) \/ SaveClaim(p)
           \/ SaveResult(p)
    <2>1. pc'[p] \notin {"createNext", "saveParent"}
        BY <1>t, <1>5 DEF AcquireLease, Ensure, EnsureTop, EnsureResult, EnsureNext,
            EnsureEnd, DelayOver, VersionError, Reload, SaveDefer, SaveQueued, EnsureClaim,
            DispatchResult, SaveRunning, SaveNextOccurrence, SeriesOver, SaveParent,
            ReleaseLease, Heartbeat, DbError, Crash, SaveRecover, SaveClaim, SaveResult,
            Exit, Goto
    <2> QED  BY <1>1, <2>1
<1> QED  BY <1>2, <1>3, <1>4, <1>5 DEF ProcessStep, WorkerStep

(* Handlers and time save no next occurrence.                               *)
LEMMA SuccessorsKept ==
    ASSUME Environment \/ \E h \in Handlers : HandlerStep(h)
    PROVE  successors' = successors
BY DEF Environment, LeaseExpires, RunTimeComes, WindowTurns, SendingGrowsStale,
    HandlerStep, HandlerSaves, HandlerLoad, PauseLoad, ResumeLoad, CancelLoad, ReplyLoad,
    PauseSave, ResumeSave, HandlerFails, CancelSave, ReplySave

(* A final status stays while nobody pauses or resumes the campaign.        *)
LEMMA FinalStays ==
    ASSUME Ops \subseteq {"cancel"}, LeasesOK, status \in Finished,
           Environment \/ \E h \in Handlers : HandlerStep(h)
    PROVE  status' \in Finished
<1> USE DEF stored, clock, worker, bounds
<1>1. Environment => status' = status
    BY DEF Environment, LeaseExpires, RunTimeComes, WindowTurns, SendingGrowsStale
<1>2. ASSUME NEW h \in Handlers, HandlerStep(h)
      PROVE  status' \in {status, "canceled"}
    <2>1. call[h].op \in {"cancel", "none"} /\ \A op \in Ops : op = "cancel"
        BY DEF LeasesOK
    <2> QED  BY <1>2, <2>1 DEF HandlerStep, HandlerSaves, HandlerLoad, PauseLoad, ResumeLoad,
              CancelLoad, ReplyLoad, PauseSave, ResumeSave, HandlerFails, CancelSave,
              ReplySave
<1> QED  BY <1>1, <1>2 DEF Finished

(* One worker saves one next occurrence, and none begins after it.          *)
LEMMA NextsStep ==
    ASSUME Ops \subseteq {"cancel"}, IInv, LeasesOK, NextsOK, Next
    PROVE  NextsOK'
<1>t. successors \in Nat
    BY DEF IInv, TypeOK
<1>x. \A p, q \in Procs : pc[p] \notin {"idle", "acquire"} /\ pc[q] \notin {"idle", "acquire"} => p = q
    BY Excluded DEF ActiveLeaseExcludesOthers
<1>1. ASSUME NEW p \in Procs, ProcessStep(p), Over PROVE NextsOK'
    <2>0. status \in Finished /\ \A q \in Procs : pc[q] \in Ending
        BY <1>1 DEF NextsOK
    <2>o. \A q \in Procs \ {p} : pc'[q] = pc[q]
        BY <1>1, OneWorker
    <2>1. /\ pc'[p] \in Ending /\ status' = status
          /\ pc'[p] = "createNext" => successors' = successors /\ pc[p] = "createNext"
          /\ successors' = successors \/ (pc[p] = "createNext" /\ successors' = successors + 1)
        BY <1>1, <2>0, EndingStep
    <2>2. ASSUME NEW q \in Procs, pc'[q] = "createNext" PROVE successors' = 0
        <3>1. pc[q] = "createNext" /\ successors = 0
            BY <2>o, <2>1, <2>2 DEF NextsOK
        <3>2. CASE q = p
            BY <2>1, <2>2, <3>1, <3>2
        <3>3. CASE q # p
            BY <1>x, <2>1, <3>1, <3>3
        <3> QED  BY <3>2, <3>3
    <2>3. successors' <= 1
        BY <1>t, <2>1 DEF NextsOK
    <2> QED  BY <2>0, <2>o, <2>1, <2>2, <2>3 DEF NextsOK
<1>2. ASSUME NEW p \in Procs, ProcessStep(p), ~Over PROVE NextsOK'
    <2>0. successors = 0 /\ \A q \in Procs : pc[q] \notin {"createNext", "saveParent"}
        BY <1>2, <1>t DEF Over
    <2>o. \A q \in Procs \ {p} : pc'[q] = pc[q]
        BY <1>2, OneWorker
    <2>1. /\ successors' = 0
          /\ pc'[p] \in {"createNext", "saveParent"} => SaveFinal(p) /\ pc'[p] = "createNext"
        BY <1>2, <2>0, IntoNext
    <2>2. CASE pc'[p] \in {"createNext", "saveParent"}
        <3>1. SaveFinal(p) /\ pc'[p] = "createNext"
            BY <2>1, <2>2
        <3>2. status' \in Finished /\ pc[p] = "saveFinal"
            BY <3>1 DEF SaveFinal, FinalStatus, Finished
        <3>3. \A q \in Procs : pc'[q] \in Ending
            BY <1>x, <2>o, <3>1, <3>2 DEF Ending
        <3> QED  BY <2>1, <3>2, <3>3 DEF NextsOK
    <2>3. CASE pc'[p] \notin {"createNext", "saveParent"}
        <3>1. ~Over'
            BY <2>0, <2>o, <2>1, <2>3 DEF Over
        <3> QED  BY <2>0, <2>o, <2>1, <2>3, <3>1 DEF NextsOK
    <2> QED  BY <2>2, <2>3
<1>3. ASSUME Environment \/ \E h \in Handlers : HandlerStep(h) PROVE NextsOK'
    <2>1. pc' = pc /\ successors' = successors
        BY <1>3, NoWorker, SuccessorsKept
    <2>2. Over => status' \in Finished
        BY <1>3, FinalStays DEF NextsOK
    <2> QED  BY <2>1, <2>2 DEF NextsOK, Over
<1> QED  BY <1>1, <1>2, <1>3 DEF Next

-----------------------------------------------------------------------------
(* The counters                                                            *)

\* Counters that agree with recipients rs on what was sent and skipped, and on
\* what failed: recovery fails recipients and leaves that to a later save.
SentRight(cs, rs) == cs.sent = Summary(rs).sent /\ cs.skipped = Summary(rs).skipped
FailedRight(cs, rs) == cs.failed = Summary(rs).failed

SameOutcomes(rs, ss) ==
    \A r \in Recipients : \A s \in {"accepted", "failed"} : rs[r].st = s <=> ss[r].st = s

\* Labels at which a worker saves, or decides on, a document it read under its
\* lease; at the first of them the campaign was not finished.
Deciding == {"saveQueued", "ensureQueued", "saveRecover"}
Fresh ==
    Deciding \cup {"ensureRecover", "saveClaim", "saveResult", "saveRunning", "saveFinal"}

\* What worker document d says at label l when the store has recipients rs,
\* version v, counters cs and status st: it is the stored one, or a cancel,
\* which counts all recipients, came after it.
WorkerCounts(l, d, rs, v, cs, st) ==
    l \in Fresh =>
        /\ SentRight(d.counts, d.rcp) /\ SameOutcomes(d.rcp, rs)
        /\ d.ver = v => d.counts = cs
        /\ d.ver # v => FailedRight(cs, rs)
        /\ l \in Deciding /\ d.ver = v => st \notin Finished

\* The same for the document of a handler, which a worker's final saves may
\* overtake without a new version: they leave the failures counted.
CallCounts(d, rs, v, cs) ==
    d.ver = v =>
        /\ SentRight(d.counts, d.rcp)
        /\ d.counts.failed = cs.failed \/ FailedRight(cs, rs)

CountsOK ==
    /\ SentRight(counts, rcp)
    /\ status \in Finished => FailedRight(counts, rcp)
    /\ \A p \in Procs : WorkerCounts(pc[p], mem[p], rcp, ver, counts, status)
    /\ \A h \in Handlers : CallCounts(call[h].doc, rcp, ver, counts)

(* Recipients with the same members of a set of statuses count the same.    *)
LEMMA CountSame ==
    ASSUME NEW rs, NEW ss, NEW S,
           \A r \in Recipients : rs[r].st \in S <=> ss[r].st \in S
    PROVE  CountOf(rs, S) = CountOf(ss, S)
<1>1. {r \in Recipients : rs[r].st \in S} = {r \in Recipients : ss[r].st \in S}
    OBVIOUS
<1> QED  BY <1>1 DEF CountOf

(* Outcomes that stay leave the sent and the failed counts.                 *)
LEMMA OutcomesCount ==
    ASSUME NEW rs, NEW ss, SameOutcomes(rs, ss)
    PROVE  Summary(rs).sent = Summary(ss).sent /\ Summary(rs).failed = Summary(ss).failed
<1>1. CountOf(rs, {"accepted"}) = CountOf(ss, {"accepted"})
    BY CountSame DEF SameOutcomes
<1>2. CountOf(rs, {"failed"}) = CountOf(ss, {"failed"})
    BY CountSame DEF SameOutcomes
<1> QED  BY <1>1, <1>2 DEF Summary

(* What a save leaves in the counters, one by one.                          *)
LEMMA Merged ==
    ASSUME NEW old, NEW rs, NEW new, new = MergedCounts(old, Summary(rs))
    PROVE  /\ new.sent = IF Summary(rs).sent = old.sent THEN counts.sent ELSE Summary(rs).sent
           /\ new.failed = IF Summary(rs).failed = old.failed THEN counts.failed
                           ELSE Summary(rs).failed
           /\ new.skipped = IF Summary(rs).skipped = old.skipped THEN counts.skipped
                            ELSE Summary(rs).skipped
<1> DEFINE s == Summary(rs)
<1>1. DOMAIN s = {"sent", "failed", "skipped"}
    BY DEF Summary
<1>2. MergedCounts(old, s) = [f \in DOMAIN s |-> IF s[f] = old[f] THEN counts[f] ELSE s[f]]
    BY DEF MergedCounts
<1> HIDE DEF s
<1> QED  BY <1>1, <1>2 DEF s

(* The final saves of a worker, from whatever copy, leave all counters       *)
(* right: sent and skipped are those of the copy and are not written.      *)
LEMMA FinalCounts ==
    ASSUME CountsOK, NEW p \in Procs, pc[p] \in Fresh,
           counts' = MergedCounts(mem[p].counts, Summary(mem[p].rcp))
    PROVE  SentRight(counts', rcp) /\ FailedRight(counts', rcp)
<1>w. WorkerCounts(pc[p], mem[p], rcp, ver, counts, status) /\ SentRight(counts, rcp)
    BY DEF CountsOK
<1>1. /\ counts'.sent = counts.sent /\ counts'.skipped = counts.skipped
      /\ counts'.failed = IF Summary(mem[p].rcp).failed = mem[p].counts.failed THEN counts.failed
                          ELSE Summary(mem[p].rcp).failed
    BY <1>w, Merged DEF WorkerCounts, SentRight
<1>2. Summary(mem[p].rcp).failed = Summary(rcp).failed
    BY <1>w, OutcomesCount DEF WorkerCounts
<1>3. mem[p].counts = counts \/ counts.failed = Summary(rcp).failed
    BY <1>w DEF WorkerCounts, FailedRight
<1> QED  BY <1>w, <1>1, <1>2, <1>3 DEF SentRight, FailedRight

(* An answer is counted from the stored document, so all counters are       *)
(* those of the recipients.                                                *)
LEMMA AnswerCounts ==
    ASSUME CountsOK, NEW p \in Procs, SaveResult(p)
    PROVE  ver' = ver + 1 /\ SentRight(counts', rcp') /\ FailedRight(counts', rcp')
<1>1. mem[p].counts = counts /\ ver' = ver + 1
    BY DEF SaveResult, SaveRecipients, Current, CountsOK, WorkerCounts, Fresh
<1>2. counts' = MergedCounts(counts, Summary(rcp'))
    BY <1>1 DEF SaveResult
<1> QED  BY <1>1, <1>2, Merged DEF SentRight, FailedRight

(* A cancel that passes counts all recipients too.                          *)
LEMMA CancelCounts ==
    ASSUME IInv, CountsOK, NEW h \in Handlers, CancelSave(h)
    PROVE  /\ ver' = ver + 1 /\ SameOutcomes(rcp, rcp')
           /\ SentRight(counts', rcp') /\ FailedRight(counts', rcp')
<1> DEFINE d == call[h].doc
<1>1. /\ d.rcp = rcp /\ d.ver = ver /\ ver' = ver + 1 /\ rcp' = CanceledAll(rcp)
      /\ counts' = MergedCounts(d.counts, Summary(rcp'))
    BY DEF CancelSave, Current, IInv, DocsOK, DocAt
<1>2. SameOutcomes(rcp, rcp')
    <2>1. \A r \in Recipients :
            rcp'[r].st = IF rcp[r].st \in Pending THEN "canceled" ELSE rcp[r].st
        BY <1>1 DEF CanceledAll, WithStatus
    <2> QED  BY <2>1 DEF SameOutcomes, Pending, Claimable
<1>3. Summary(rcp).sent = Summary(rcp').sent /\ Summary(rcp).failed = Summary(rcp').failed
    BY <1>2, OutcomesCount
<1>4. /\ d.counts.sent = Summary(rcp).sent /\ d.counts.skipped = Summary(rcp).skipped
      /\ d.counts.failed = counts.failed \/ counts.failed = Summary(rcp).failed
      /\ counts.sent = Summary(rcp).sent /\ counts.skipped = Summary(rcp).skipped
    BY <1>1 DEF CountsOK, CallCounts, SentRight, FailedRight
<1> HIDE DEF d
<1>5. /\ counts'.sent = IF Summary(rcp').sent = d.counts.sent THEN counts.sent
                        ELSE Summary(rcp').sent
      /\ counts'.failed = IF Summary(rcp').failed = d.counts.failed THEN counts.failed
                          ELSE Summary(rcp').failed
      /\ counts'.skipped = IF Summary(rcp').skipped = d.counts.skipped THEN counts.skipped
                           ELSE Summary(rcp').skipped
    BY <1>1, Merged
<1> QED  BY <1>1, <1>2, <1>3, <1>4, <1>5 DEF SentRight, FailedRight

(* Recovery and claims are not counted: they make nobody sent or skipped.    *)
LEMMA UncountedSaves ==
    ASSUME IInv, CountsOK, NEW p \in Procs, SaveRecover(p) \/ SaveClaim(p)
    PROVE  /\ ver' = ver + 1 /\ SentRight(counts', rcp')
           /\ status' \in Finished => FailedRight(counts', rcp')
<1>0. /\ mem[p].ver = ver /\ mem[p].rcp = rcp /\ ver' = ver + 1 /\ counts' = counts
      /\ \A r \in Recipients : rcp[r].st \in Pending \cup Done
      /\ SentRight(counts, rcp) /\ DOMAIN rcp = Recipients
    BY DEF SaveRecover, SaveClaim, SaveRecipients, Current, IInv, DocsOK, DocAt, TypeOK,
        RecipientType, CountsOK
<1>1. CASE SaveRecover(p)
    <2>1. \A r \in Recipients : rcp'[r].st # rcp[r].st =>
            rcp[r].st = "sending" /\ rcp'[r].st \in {"failed", "retry"}
        BY <1>0, <1>1 DEF SaveRecover, SaveRecipients, Recovered, StaleSending, WithStatus,
            RecoveredStatus
    <2>2. /\ CountOf(rcp, {"accepted"}) = CountOf(rcp', {"accepted"})
          /\ CountOf(rcp, {"canceled"}) = CountOf(rcp', {"canceled"})
        BY <2>1, CountSame
    <2>3. status' \notin Finished
        <3>1. status \notin Finished
            BY <1>0, <1>1 DEF SaveRecover, CountsOK, WorkerCounts, Fresh, Deciding
        <3> QED  BY <1>1, <3>1 DEF SaveRecover
    <2> QED  BY <1>0, <2>2, <2>3 DEF SentRight, Summary
<1>2. CASE SaveClaim(p)
    <2>1. \A r \in Recipients : rcp'[r].st # rcp[r].st =>
            rcp[r].st \in Claimable /\ rcp'[r].st = "sending"
        BY <1>0, <1>2, ClaimSends DEF Claimed, ClaimableIn
    <2>2. /\ CountOf(rcp, {"accepted"}) = CountOf(rcp', {"accepted"})
          /\ CountOf(rcp, {"canceled"}) = CountOf(rcp', {"canceled"})
          /\ CountOf(rcp, {"failed"}) = CountOf(rcp', {"failed"})
        BY <2>1, CountSame DEF Claimable
    <2>3. status' = status \/ status' = "running"
        BY <1>2 DEF SaveClaim
    <2>4. status' \in Finished => status \in Finished
        BY <2>3 DEF Finished
    <2>5. status \in Finished => FailedRight(counts, rcp)
        BY DEF CountsOK
    <2> QED  BY <1>0, <2>2, <2>4, <2>5 DEF SentRight, FailedRight, Summary
<1> QED  BY <1>1, <1>2

\* A step that leaves recipients, version and counters alone and finishes
\* nothing; one that leaves all counters right; one that makes every loaded
\* document old.
Quiet ==
    /\ rcp' = rcp /\ ver' = ver /\ counts' = counts
    /\ status' = status \/ status' \notin Finished
Counted == rcp' = rcp /\ ver' = ver /\ SentRight(counts', rcp') /\ FailedRight(counts', rcp')
Renewed ==
    /\ ver' = ver + 1 /\ SentRight(counts', rcp')
    /\ status' \in Finished => FailedRight(counts', rcp')

(* Every step of a process is one of the three.                             *)
LEMMA ProcessCounts ==
    ASSUME IInv, CountsOK, NEW p \in Procs, ProcessStep(p)
    PROVE  Quiet \/ Counted \/ Renewed
<1> USE DEF stored, clock, worker, bounds
<1>1. CASE SaveRecover(p) \/ SaveClaim(p)
    BY <1>1, UncountedSaves DEF Renewed
<1>2. CASE SaveResult(p)
    BY <1>2, AnswerCounts DEF Renewed
<1>3. CASE SaveRunning(p) \/ SaveFinal(p)
    <2>1. /\ pc[p] \in Fresh /\ rcp' = rcp /\ ver' = ver
          /\ counts' = MergedCounts(mem[p].counts, Summary(mem[p].rcp))
        BY <1>3 DEF SaveRunning, SaveFinal, Fresh
    <2> QED  BY <2>1, FinalCounts DEF Counted
<1>4. CASE \/ ScheduleCampaign(p) \/ Sweep(p) \/ AcquireLease(p) \/ EnsureTop(p) \/ Load(p)
           \/ EnsureQueued(p) \/ EnsureRecover(p) \/ EnsureClaim(p) \/ DispatchResult(p)
           \/ EnsureResult(p) \/ Reload(p) \/ EnsureNext(p) \/ DelayOver(p) \/ VersionError(p)
           \/ SaveNextOccurrence(p) \/ SeriesOver(p) \/ SaveParent(p) \/ EnsureEnd(p)
           \/ ReleaseLease(p) \/ Heartbeat(p) \/ DbError(p) \/ Crash(p)
    BY <1>4 DEF Quiet, ScheduleCampaign, Sweep, AcquireLease, Ensure,
        EnsureTop, EnsureQueued, EnsureRecover, EnsureResult, EnsureNext, EnsureEnd,
        DelayOver, VersionError, Load, Reload, EnsureClaim, DispatchResult,
        SaveNextOccurrence, SeriesOver, SaveParent, ReleaseLease, Heartbeat, DbError, Crash
<1>5. CASE SaveDefer(p) \/ SaveQueued(p)
    BY <1>5 DEF Quiet, SaveDefer, SaveQueued, Finished
<1> QED  BY <1>1, <1>2, <1>3, <1>4, <1>5 DEF ProcessStep, WorkerStep

(* What a worker holds at its next label, after its own step.               *)
LEMMA OwnCounts ==
    ASSUME IInv, CountsOK, NEW p \in Procs, ProcessStep(p)
    PROVE  WorkerCounts(pc'[p], mem'[p], rcp', ver', counts', status')
<1> USE DEF stored, clock, worker, bounds
<1>t. DOMAIN pc = Procs /\ mem \in [Procs -> Docs]
    BY DEF IInv, TypeOK
<1>w. WorkerCounts(pc[p], mem[p], rcp, ver, counts, status) /\ SentRight(counts, rcp)
    BY DEF CountsOK
<1>0. ASSUME pc'[p] \notin Fresh
      PROVE  WorkerCounts(pc'[p], mem'[p], rcp', ver', counts', status')
    BY <1>0 DEF WorkerCounts
<1>1. CASE Load(p) \/ Reload(p)
    <2>1. /\ mem'[p] = Snapshot /\ rcp' = rcp /\ ver' = ver /\ counts' = counts /\ status' = status
          /\ pc'[p] \in {AfterLoad(Snapshot), "saveResult"}
        BY <1>t, <1>1 DEF Load, Reload, Goto
    <2>2. pc'[p] \in Deciding => status \notin Finished
        BY <2>1 DEF AfterLoad, StopsWorker, Snapshot, Deciding
    <2>3. SameOutcomes(rcp, rcp)
        BY DEF SameOutcomes
    <2> QED  BY <1>w, <2>1, <2>2, <2>3 DEF WorkerCounts, Snapshot
<1>2. CASE SaveQueued(p)
    <2>1. /\ mem'[p] = [mem[p] EXCEPT !.status = "queued"] /\ mem[p] \in Docs
          /\ rcp' = rcp /\ ver' = ver /\ counts' = counts /\ status' = "queued"
          /\ pc[p] = "saveQueued"
        BY <1>t, <1>2 DEF SaveQueued
    <2>2. mem'[p].rcp = mem[p].rcp /\ mem'[p].ver = mem[p].ver /\ mem'[p].counts = mem[p].counts
        BY <2>1 DEF Docs
    <2> QED  BY <1>w, <2>1, <2>2 DEF WorkerCounts, Fresh, Deciding, Finished
<1>3. CASE EnsureQueued(p) \/ EnsureRecover(p)
    <2>1. /\ mem' = mem /\ rcp' = rcp /\ ver' = ver /\ counts' = counts /\ status' = status
          /\ pc[p] \in Fresh
        BY <1>3 DEF EnsureQueued, EnsureRecover, Ensure, Fresh, Deciding
    <2>2. pc'[p] \in Deciding => pc[p] \in Deciding
        BY <1>t, <1>3 DEF EnsureQueued, EnsureRecover, Ensure, Goto, ClaimOrFinish, Deciding
    <2> QED  BY <1>w, <2>1, <2>2 DEF WorkerCounts
<1>4. CASE SaveRecover(p)
    <2>1. /\ mem'[p].rcp = rcp' /\ mem'[p].ver = ver' /\ mem'[p].counts = mem[p].counts
          /\ counts' = counts /\ pc[p] = "saveRecover" /\ pc'[p] = "ensureRecover"
          /\ mem[p].ver = ver
        BY <1>t, <1>4 DEF SaveRecover, SaveRecipients, Current, Written, Goto
    <2>2. SentRight(counts', rcp')
        BY <1>4, UncountedSaves
    <2>3. mem[p].counts = counts
        BY <1>w, <2>1 DEF WorkerCounts, Fresh, Deciding
    <2>4. SameOutcomes(mem'[p].rcp, rcp')
        BY <2>1 DEF SameOutcomes
    <2> QED  BY <2>1, <2>2, <2>3, <2>4 DEF WorkerCounts, Deciding
<1>5. CASE ScheduleCampaign(p) \/ Sweep(p)
    <2>1. /\ mem' = mem /\ rcp' = rcp /\ ver' = ver /\ counts' = counts /\ status' = status
          /\ pc'[p] \in {pc[p], "acquire"}
        BY <1>t, <1>5 DEF ScheduleCampaign, Sweep, StartWorker
    <2> QED  BY <1>w, <2>1 DEF WorkerCounts, Fresh, Deciding
<1>6. CASE \/ AcquireLease(p) \/ EnsureTop(p) \/ EnsureResult(p) \/ EnsureNext(p)
           \/ EnsureEnd(p) \/ DelayOver(p) \/ VersionError(p) \/ SaveDefer(p)
           \/ EnsureClaim(p) \/ DispatchResult(p) \/ SaveRunning(p) \/ SaveFinal(p)
           \/ SaveNextOccurrence(p) \/ SeriesOver(p) \/ SaveParent(p) \/ ReleaseLease(p)
           \/ Heartbeat(p) \/ DbError(p) \/ Crash(p) \/ SaveClaim(p) \/ SaveResult(p)
    <2>1. pc'[p] \notin Fresh
        BY <1>t, <1>6 DEF AcquireLease, Ensure, EnsureTop, EnsureResult, EnsureNext,
            EnsureEnd, DelayOver, VersionError, SaveDefer, EnsureClaim, DispatchResult,
            SaveRunning, SaveFinal, SaveNextOccurrence, SeriesOver, SaveParent,
            ReleaseLease, Heartbeat, DbError, Crash, SaveClaim, SaveResult, Exit, Goto,
            Fresh, Deciding
    <2> QED  BY <1>0, <2>1
<1> QED  BY <1>1, <1>2, <1>3, <1>4, <1>5, <1>6 DEF ProcessStep, WorkerStep

(* A document that a handler holds on to keeps what it says.                *)
LEMMA CallsKept ==
    ASSUME IInv, Quiet \/ Counted \/ Renewed, NEW h \in Handlers,
           CallCounts(call[h].doc, rcp, ver, counts)
    PROVE  CallCounts(call[h].doc, rcp', ver', counts')
<1>1. call[h].doc.ver <= ver /\ ver \in Nat /\ call[h].doc.ver \in Nat \cup {-1}
    BY DEF IInv, DocsOK, DocAt, TypeOK, Docs
<1> QED  BY <1>1 DEF CallCounts, Quiet, Counted, Renewed

(* A handler cancels, or leaves recipients, version and counters alone.     *)
LEMMA HandlerCounts ==
    ASSUME IInv, LeasesOK, "reply" \notin Ops, NEW h \in Handlers, HandlerStep(h), ~CancelSave(h)
    PROVE  /\ Quiet
           /\ \A g \in Handlers : \/ call'[g] = call[g] \/ call'[g].doc = NoDoc
                                  \/ call'[g].doc = Snapshot
<1> USE DEF stored, clock, worker, bounds
<1>t. DOMAIN call = Handlers
    BY DEF IInv, TypeOK
<1>1. ~ReplySave(h)
    BY DEF ReplySave, LeasesOK
<1>2. rcp' = rcp /\ ver' = ver /\ counts' = counts
    BY <1>1 DEF HandlerStep, HandlerSaves, HandlerLoad, PauseLoad, ResumeLoad,
        CancelLoad, ReplyLoad, PauseSave, ResumeSave, HandlerFails
<1>3. status' = status \/ status' \notin Finished
    BY <1>1 DEF HandlerStep, HandlerSaves, HandlerLoad, PauseLoad, ResumeLoad,
        CancelLoad, ReplyLoad, PauseSave, ResumeSave, HandlerFails, Finished
<1>4. \/ call' = [call EXCEPT ![h] = NoCall]
      \/ \E op, r : call' = [call EXCEPT ![h] = [op |-> op, r |-> r, doc |-> Snapshot]]
    BY <1>1 DEF HandlerStep, HandlerSaves, HandlerLoad, PauseLoad, ResumeLoad,
        CancelLoad, ReplyLoad, PauseSave, ResumeSave, HandlerFails, Respond
<1>5. \A g \in Handlers : \/ call'[g] = call[g] \/ call'[g].doc = NoDoc
                          \/ call'[g].doc = Snapshot
    BY <1>t, <1>4 DEF NoCall
<1> QED  BY <1>2, <1>3, <1>5 DEF Quiet

(* The counters of the store agree with its recipients, but for failures     *)
(* that recovery set and no save has counted yet.                          *)
LEMMA CountsStep ==
    ASSUME "reply" \notin Ops, IInv, LeasesOK, CountsOK, Next
    PROVE  CountsOK'
<1> USE DEF stored, clock, worker, bounds
<1>c. /\ SentRight(counts, rcp) /\ (status \in Finished => FailedRight(counts, rcp))
      /\ \A q \in Procs : WorkerCounts(pc[q], mem[q], rcp, ver, counts, status)
      /\ \A h \in Handlers : CallCounts(call[h].doc, rcp, ver, counts)
    BY DEF CountsOK
<1>n. CallCounts(NoDoc, rcp', ver', counts')
    BY TypeStep DEF CallCounts, NoDoc, TypeOK
<1>k. ASSUME Quiet \/ Counted \/ Renewed
      PROVE  SentRight(counts', rcp') /\ (status' \in Finished => FailedRight(counts', rcp'))
    BY <1>c, <1>k DEF Quiet, Counted, Renewed
<1>q. ASSUME Quiet, pc' = pc, mem' = mem
      PROVE  \A q \in Procs : WorkerCounts(pc'[q], mem'[q], rcp', ver', counts', status')
    BY <1>c, <1>q DEF Quiet, WorkerCounts
<1>1. ASSUME NEW p \in Procs, ProcessStep(p) PROVE CountsOK'
    <2>1. Quiet \/ Counted \/ Renewed
        BY <1>1, ProcessCounts
    <2>2. \A h \in Handlers : CallCounts(call'[h].doc, rcp', ver', counts')
        BY <1>1, <1>c, <2>1, CallsKept, OwnIncarnation
    <2>3. ASSUME NEW q \in Procs
          PROVE  WorkerCounts(pc'[q], mem'[q], rcp', ver', counts', status')
        <3>1. CASE q = p
            BY <1>1, <3>1, OwnCounts
        <3>2. CASE q # p /\ pc[q] \in Fresh
            <4>1. Busy(q) /\ pc'[q] = pc[q] /\ mem'[q] = mem[q]
                BY <1>1, <3>2, OneWorker DEF Busy, Fresh, Deciding
            <4>2. rcp' = rcp /\ ver' = ver /\ counts' = counts /\ status' = status
                BY <1>1, <3>2, <4>1, OnlyWorker
            <4> QED  BY <1>c, <4>1, <4>2
        <3>3. CASE q # p /\ pc[q] \notin Fresh
            BY <1>1, <3>3, OneWorker DEF WorkerCounts
        <3> QED  BY <3>1, <3>2, <3>3
    <2> QED  BY <1>k, <2>1, <2>2, <2>3 DEF CountsOK
<1>2. ASSUME NEW h \in Handlers, HandlerStep(h), ~CancelSave(h) PROVE CountsOK'
    <2>1. /\ Quiet
          /\ \A g \in Handlers : \/ call'[g] = call[g] \/ call'[g].doc = NoDoc
                                 \/ call'[g].doc = Snapshot
        BY <1>2, HandlerCounts
    <2>2. CallCounts(Snapshot, rcp', ver', counts')
        BY <1>c, <2>1 DEF Quiet, CallCounts, Snapshot
    <2>3. \A g \in Handlers : CallCounts(call'[g].doc, rcp', ver', counts')
        BY <1>c, <1>n, <2>1, <2>2, CallsKept
    <2>4. pc' = pc /\ mem' = mem
        BY <1>2, NoWorker
    <2> QED  BY <1>k, <1>q, <2>1, <2>3, <2>4 DEF CountsOK
<1>3. ASSUME NEW h \in Handlers, CancelSave(h) PROVE CountsOK'
    <2>1. /\ ver' = ver + 1 /\ SameOutcomes(rcp, rcp')
          /\ SentRight(counts', rcp') /\ FailedRight(counts', rcp')
        BY <1>3, CancelCounts
    <2>2. Renewed /\ pc' = pc /\ mem' = mem /\ ver \in Nat
        BY <1>3, <2>1 DEF Renewed, CancelSave, IInv, TypeOK
    <2>3. ASSUME NEW q \in Procs
          PROVE  WorkerCounts(pc'[q], mem'[q], rcp', ver', counts', status')
        <3>1. mem[q].ver <= ver /\ mem[q].ver \in Nat \cup {-1}
            BY DEF IInv, DocsOK, DocAt, TypeOK, Docs
        <3>2. mem[q].ver # ver'
            BY <2>1, <2>2, <3>1
        <3>3. SameOutcomes(mem[q].rcp, rcp) => SameOutcomes(mem[q].rcp, rcp')
            BY <2>1 DEF SameOutcomes
        <3> QED  BY <1>c, <2>1, <2>2, <3>2, <3>3 DEF WorkerCounts
    <2>4. \A g \in Handlers : call'[g] = call[g] \/ call'[g].doc = NoDoc
        BY <1>3 DEF CancelSave, Respond, NoCall, IInv, TypeOK
    <2>5. \A g \in Handlers : CallCounts(call'[g].doc, rcp', ver', counts')
        BY <1>c, <1>n, <2>2, <2>4, CallsKept
    <2> QED  BY <1>k, <2>2, <2>3, <2>5 DEF CountsOK
<1>4. ASSUME Environment PROVE CountsOK'
    <2>1. Quiet /\ pc' = pc /\ mem' = mem /\ call' = call
        BY <1>4 DEF Quiet, Environment, LeaseExpires, RunTimeComes, WindowTurns,
            SendingGrowsStale
    <2>2. \A g \in Handlers : CallCounts(call'[g].doc, rcp', ver', counts')
        BY <1>c, <2>1, CallsKept
    <2> QED  BY <1>k, <1>q, <2>1, <2>2 DEF CountsOK
<1> QED  BY <1>1, <1>2, <1>3, <1>4 DEF Next

-----------------------------------------------------------------------------
(* The theorems that need leases which outlive the work                    *)

\* The invariant of leases, answers and counters.
HeldInv == IInv /\ LeasesOK /\ AnswersOK /\ CountsOK

(* At first nobody works, nothing is counted and nothing is over.           *)
LEMMA HeldInit == Init => HeldInv /\ NextsOK
<1> SUFFICES ASSUME Init PROVE HeldInv /\ NextsOK
    OBVIOUS
<1>1. LeasesOK /\ AnswersOK
    BY LeasesInit DEF Init, AnswersOK, Claiming
<1>2. Summary(rcp) = NoCounts
    <2>1. \A S : "queued" \notin S => {r \in Recipients : rcp[r].st \in S} = {}
        BY DEF Init, NewRecipients, NewRecipient
    <2>2. \A S : "queued" \notin S => CountOf(rcp, S) = 0
        BY <2>1, FS_EmptySet DEF CountOf
    <2> QED  BY <2>2 DEF Summary, NoCounts
<1>3. CountsOK
    BY <1>2 DEF Init, CountsOK, SentRight, FailedRight, NoCounts, WorkerCounts, CallCounts,
        Fresh, Deciding, NoCall, NoDoc
<1>4. NextsOK
    BY DEF Init, NextsOK, Over
<1> QED  BY <1>1, <1>3, <1>4, IInvInit DEF HeldInv

(* Every step keeps the invariant while leases outlive the work.            *)
LEMMA HeldStep ==
    ASSUME ~MayLapse, "reply" \notin Ops
    PROVE  HeldInv /\ [Next]_vars => HeldInv'
<1>1. ASSUME HeldInv, Next PROVE HeldInv'
    BY <1>1, IInvStep, LeasesStep, AnswersStep, CountsStep DEF HeldInv
<1>2. ASSUME HeldInv, UNCHANGED vars PROVE HeldInv'
    <2>1. IInv'
        BY <1>2, IInvStep DEF HeldInv
    <2>2. LeasesOK' /\ AnswersOK' /\ CountsOK'
        BY <1>2 DEF HeldInv, LeasesOK, Busy, Owner, AnswersOK, CountsOK, vars, stored, clock,
            worker, bounds
    <2> QED  BY <2>1, <2>2 DEF HeldInv
<1> QED  BY <1>1, <1>2

(* The inductive invariant of leases, answers and counters holds in every   *)
(* state, while no lease lapses under its worker and no reply is marked.    *)
THEOREM HeldInvariant ==
    ASSUME ~MayLapse, "reply" \notin Ops
    PROVE  Spec => []HeldInv
<1>1. Init => HeldInv
    BY HeldInit
<1>2. HeldInv /\ [Next]_vars => HeldInv'
    BY HeldStep
<1> QED  BY <1>1, <1>2, PTL DEF Spec

(* Then one process at a time works on the campaign.  A marked reply breaks *)
(* this: it writes back the lease it had loaded.                           *)
THEOREM LeasesExclude ==
    ASSUME ~MayLapse, "reply" \notin Ops
    PROVE  Spec => []ActiveLeaseExcludesOthers
<1>1. HeldInv => ActiveLeaseExcludesOthers
    BY Excluded DEF HeldInv
<1> QED  BY <1>1, HeldInvariant, PTL

(* Then the counters of a finished campaign are those of its recipients,     *)
(* although no save writes a counter it has not changed.                   *)
THEOREM CountsAgreed ==
    ASSUME ~MayLapse, "reply" \notin Ops
    PROVE  Spec => []FinishedCountsAgree
<1>1. ASSUME HeldInv PROVE FinishedCountsAgree
    <2>1. counts \in CountsType /\ Summary(rcp) \in CountsType
        BY <1>1, SummaryType DEF HeldInv, IInv, TypeOK
    <2> QED  BY <1>1, <2>1 DEF HeldInv, CountsOK, SentRight, FailedRight, CountsType,
              FinishedCountsAgree
<1> QED  BY <1>1, HeldInvariant, PTL

(* Then a template that the provider accepted stays accepted: an answer is   *)
(* recorded for a recipient that waits for it, or was canceled.            *)
THEOREM AcceptedStays ==
    ASSUME ~MayLapse, "reply" \notin Ops
    PROVE  Spec => AcceptedIsKept
<1>1. ASSUME HeldInv, [Next]_vars
      PROVE  [\A r \in Recipients : rcp[r].st = "accepted" => rcp'[r].st = "accepted"]_vars
    <2>1. CASE Next
        BY <1>1, <2>1, AcceptedStep DEF HeldInv
    <2>2. CASE UNCHANGED vars
        BY <2>2
    <2> QED  BY <1>1, <2>1, <2>2
<1>2. HeldInv /\ [Next]_vars =>
        [\A r \in Recipients : rcp[r].st = "accepted" => rcp'[r].st = "accepted"]_vars
    BY <1>1
<1> QED  BY <1>2, HeldInvariant, PTL DEF Spec, AcceptedIsKept

(* And a recurring campaign that is at most canceled has one next           *)
(* occurrence: a resumed one may finish, and be followed, twice.           *)
THEOREM OneNext ==
    ASSUME ~MayLapse, Ops \subseteq {"cancel"}
    PROVE  Spec => []AtMostOneNextOccurrence
<1>0. "reply" \notin Ops
    OBVIOUS
<1>1. Init => NextsOK
    BY HeldInit
<1>2. ASSUME HeldInv, NextsOK, [Next]_vars PROVE NextsOK'
    <2>1. CASE Next
        BY <1>2, <2>1, NextsStep DEF HeldInv
    <2>2. CASE UNCHANGED vars
        BY <1>2, <2>2 DEF NextsOK, Over, vars, stored, worker
    <2> QED  BY <1>2, <2>1, <2>2
<1>3. HeldInv /\ NextsOK /\ [Next]_vars => NextsOK'
    BY <1>2
<1>4. NextsOK => AtMostOneNextOccurrence
    BY DEF NextsOK, AtMostOneNextOccurrence
<1>5. Spec => []HeldInv
    BY <1>0, HeldInvariant
<1> QED  BY <1>1, <1>3, <1>4, <1>5, PTL DEF Spec
=============================================================================
