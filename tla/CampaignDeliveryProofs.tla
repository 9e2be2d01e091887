------------------------ MODULE CampaignDeliveryProofs ------------------------
(***************************************************************************)
(* WabaCampaign implements CampaignDelivery, for every number of           *)
(* processes, recipients, attempts and handlers: every step of a worker, a *)
(* handler or the environment is a claim, a call, a settlement or nothing  *)
(* at all to the recipients. The proof needs the whole invariant of        *)
(* WabaCampaignProofs: a save is a step of CampaignDelivery because the    *)
(* copy it was made from is the stored one, and a call because its claim   *)
(* was counted and not yet called for.                                     *)
(***************************************************************************)
EXTENDS WabaCampaignProofs

-----------------------------------------------------------------------------
(* The refinement mapping                                                  *)

Phases == [r \in Recipients |-> PhaseOf(rcp[r].st)]
Attempts == [r \in Recipients |-> rcp[r].att]
Called == [r \in Recipients |-> {n \in 1 .. MaxAttempts : calls[r][n] > 0}]

(* A step that leaves the recipients' statuses, their attempts and the calls *)
(* alone is a stutter.                                                     *)
LEMMA Stutters ==
    ASSUME \A r \in Recipients : rcp'[r].st = rcp[r].st /\ rcp'[r].att = rcp[r].att,
           calls' = calls
    PROVE  UNCHANGED <<Phases, Attempts, Called>>
BY DEF Phases, Attempts, Called

\* What happens to recipient r when those of settled get an outcome and those
\* of again are handed back.
Fate(r, settled, again) ==
    /\ rcp'[r].att = rcp[r].att
    /\ IF r \in settled THEN rcp'[r].st \in Done
       ELSE IF r \in again
            THEN rcp[r].st = "sending" /\ rcp[r].att < MaxAttempts /\ rcp'[r].st \in Claimable
            ELSE rcp'[r].st = rcp[r].st

(* A step that gives an outcome to some recipients and hands unanswered      *)
(* claims with attempts left back is a settlement.                         *)
LEMMA Settles ==
    ASSUME calls' = calls, NEW settled \in SUBSET Recipients,
           NEW again \in SUBSET (Recipients \ settled),
           \A r \in Recipients : Fate(r, settled, again)
    PROVE  Delivery!Next
<1> USE DEF Fate
<1>0. again \in SUBSET Recipients
    OBVIOUS
<1>1. \A r \in again : Phases[r] = "claimed" /\ Attempts[r] < MaxAttempts
    BY DEF Phases, Attempts, PhaseOf, Claimable
<1>2. Phases' = [r \in Recipients |-> IF r \in settled THEN "settled"
                                      ELSE IF r \in again THEN "waiting" ELSE Phases[r]]
    BY DEF Phases, PhaseOf, Claimable, Done
<1>3. Attempts' = Attempts /\ Called' = Called
    BY DEF Attempts, Called
<1>4. Delivery!Settle(settled, again)
    BY <1>1, <1>2, <1>3 DEF Delivery!Settle, Phases, Attempts, Called
<1> QED  BY <1>0, <1>4 DEF Delivery!Next

(* Counting a call for one attempt leaves the other attempts alone.         *)
LEMMA Bumped ==
    ASSUME NEW S, NEW f \in [S -> Nat], NEW n \in S, NEW v,
           NEW g, g = [f EXCEPT ![n] = v]
    PROVE  g[n] = v /\ \A m \in S \ {n} : g[m] = f[m]
OBVIOUS

-----------------------------------------------------------------------------
(* The steps that change recipients or call the provider                   *)

(* A versioned save that passes was made from the stored recipients.        *)
LEMMA SavesStored ==
    ASSUME IInv
    PROVE  /\ \A p \in Procs : \A rs : SaveRecipients(p, rs) => rcp' = rs /\ mem[p].rcp = rcp
           /\ \A h \in Handlers : Current(call[h].doc) => call[h].doc.rcp = rcp
BY DEF SaveRecipients, Current, IInv, DocsOK, DocAt

(* Recovery fails what has no attempt left and hands the others back.       *)
LEMMA RecoverSettles ==
    ASSUME IInv, NEW p \in Procs, SaveRecover(p)
    PROVE  Delivery!Next
<1> DEFINE staleOnes == StaleSending(mem[p])
           settled == {r \in staleOnes : RecoveredStatus(rcp[r]) = "failed"}
           again == {r \in staleOnes : RecoveredStatus(rcp[r]) # "failed"}
<1>1. rcp' = Recovered(mem[p]) /\ mem[p].rcp = rcp /\ calls' = calls
    BY SavesStored DEF SaveRecover
<1>2. staleOnes \subseteq Recipients /\ \A r \in staleOnes : rcp[r].st = "sending"
    BY <1>1 DEF StaleSending, IInv, TypeOK, Docs
<1>3. \A r \in Recipients : rcp'[r] = IF r \in staleOnes
                                      THEN WithStatus(rcp[r], RecoveredStatus(rcp[r])) ELSE rcp[r]
    BY <1>1 DEF Recovered
<1>4. \A r \in again : rcp[r].att < MaxAttempts /\ RecoveredStatus(rcp[r]) = "retry"
    <2>1. \A r \in Recipients : rcp[r].att \in Nat
        BY ConstantsAssumption DEF IInv, TypeOK, RecipientType
    <2> QED  BY <1>2, <2>1, ConstantsAssumption DEF RecoveredStatus
<1>5. settled \in SUBSET Recipients /\ again \in SUBSET (Recipients \ settled)
    BY <1>2
<1> HIDE DEF staleOnes
<1>6. \A r \in Recipients : rcp'[r].att = rcp[r].att
    <2>1. \A r \in Recipients : WithStatus(rcp[r], RecoveredStatus(rcp[r])).att = rcp[r].att
        BY DEF WithStatus
    <2> QED  BY <1>3, <2>1
<1>7. \A r \in staleOnes : rcp'[r].st = RecoveredStatus(rcp[r])
    <2>1. \A r \in Recipients : WithStatus(rcp[r], RecoveredStatus(rcp[r])).st = RecoveredStatus(rcp[r])
        BY DEF WithStatus
    <2> QED  BY <1>2, <1>3, <2>1
<1>8. \A r \in Recipients : Fate(r, settled, again)
    BY <1>2, <1>3, <1>4, <1>6, <1>7 DEF Fate, Done, Claimable
<1> HIDE DEF settled, again
<1> QED  BY <1>1, <1>5, <1>8, Settles

(* A claim takes one recipient that waits and counts its next attempt.      *)
LEMMA ClaimClaims ==
    ASSUME IInv, NEW p \in Procs, SaveClaim(p)
    PROVE  Delivery!Next
<1>1. /\ rcp' = Claimed(rcp, idx'[p]) /\ mem[p].rcp = rcp /\ calls' = calls
      /\ idx'[p] = NextIndex(rcp)
    BY SavesStored DEF SaveClaim, IInv, TypeOK
<1>2. PICK r \in Recipients : r = idx'[p] /\ rcp[r].st \in Claimable /\ rcp[r].att < MaxAttempts
    BY <1>1, NextIndexClaimable DEF SaveClaim, IInv, LabelsOK, LabelAt, AttemptsLeft, ClaimableIn
<1>3. /\ rcp'[r].st = "sending" /\ rcp'[r].att = rcp[r].att + 1
      /\ \A s \in Recipients \ {r} : rcp'[s] = rcp[s]
    BY <1>1, <1>2 DEF Claimed, IInv, TypeOK
<1>4. Phases[r] = "waiting" /\ Attempts[r] < MaxAttempts
    BY <1>2 DEF Phases, Attempts, PhaseOf
<1>5. Phases' = [Phases EXCEPT ![r] = "claimed"]
    BY <1>2, <1>3 DEF Phases, PhaseOf, Claimable
<1>6. Attempts' = [Attempts EXCEPT ![r] = @ + 1]
    BY <1>2, <1>3 DEF Attempts
<1>7. Called' = Called
    BY <1>1 DEF Called
<1>8. Delivery!Claim(r)
    BY <1>4, <1>5, <1>6, <1>7 DEF Delivery!Claim, Phases, Attempts, Called
<1> QED  BY <1>8 DEF Delivery!Next

(* The provider's answer settles the claimed recipient, whatever became of   *)
(* it meanwhile.                                                           *)
LEMMA ResultSettles ==
    ASSUME IInv, NEW p \in Procs, SaveResult(p)
    PROVE  Delivery!Next
<1>1. rcp' = Answered(rcp, idx[p], result[p]) /\ calls' = calls
    BY SavesStored DEF SaveResult
<1>2. idx[p] \in Recipients /\ result[p] \in Done
    BY DEF SaveResult, IInv, LabelsOK, LabelAt, Done
<1>3. /\ \A r \in Recipients : rcp'[r].att = rcp[r].att
      /\ rcp'[idx[p]].st \in Done
      /\ \A r \in Recipients \ {idx[p]} : rcp'[r].st = rcp[r].st
    BY <1>1, <1>2 DEF Answered, WithStatus, IInv, TypeOK
<1> DEFINE settled == {idx[p]}
           again == {}
<1>4. settled \in SUBSET Recipients /\ again \in SUBSET (Recipients \ settled)
    BY <1>2
<1>5. \A r \in Recipients : Fate(r, settled, again)
    BY <1>3 DEF Fate
<1> HIDE DEF settled, again
<1> QED  BY <1>1, <1>4, <1>5, Settles

(* A cancel settles the recipients that had no outcome.                     *)
LEMMA CancelSettles ==
    ASSUME IInv, NEW h \in Handlers, CancelSave(h)
    PROVE  Delivery!Next
<1>1. rcp' = CanceledAll(rcp) /\ calls' = calls
    BY SavesStored DEF CancelSave
<1> DEFINE settled == {r \in Recipients : rcp[r].st \in Pending}
           again == {}
<1>2. \A r \in Recipients : Fate(r, settled, again)
    BY <1>1 DEF Fate, CanceledAll, WithStatus, Done
<1>3. settled \in SUBSET Recipients /\ again \in SUBSET (Recipients \ settled)
    OBVIOUS
<1> HIDE DEF settled, again
<1> QED  BY <1>1, <1>2, <1>3, Settles

(* The provider is called for a counted attempt that it has not seen.       *)
LEMMA EnsureCalls ==
    ASSUME IInv, NEW p \in Procs, EnsureClaim(p)
    PROVE  \/ Delivery!Next
           \/ rcp' = rcp /\ calls' = calls
<1>0. rcp' = rcp
    BY DEF EnsureClaim
<1>1. CASE ~HoldsLease(p)
    BY <1>0, <1>1 DEF EnsureClaim
<1>2. CASE HoldsLease(p)
    <2>0. idx[p] \in Recipients /\ Attempt(p) \in 1 .. rcp[idx[p]].att
          /\ calls[idx[p]][Attempt(p)] = 0 /\ rcp[idx[p]].att \in 0 .. MaxAttempts
        BY DEF EnsureClaim, IInv, LabelsOK, LabelAt, ClaimsOK, TypeOK, RecipientType
    <2>1. PICK r \in Recipients, n \in 1 .. MaxAttempts :
                /\ r = idx[p] /\ n = Attempt(p)
                /\ n \in 1 .. rcp[r].att /\ calls[r][n] = 0
        BY <2>0, ConstantsAssumption
    <2>2. calls' = [calls EXCEPT ![r] = [calls[r] EXCEPT ![n] = calls[r][n] + 1]]
        BY <1>2, <2>1 DEF EnsureClaim, SendAttempt
    <2>3. calls \in [Recipients -> [1 .. MaxAttempts -> Nat]] 
        BY DEF IInv, TypeOK
    <2>5. calls'[r][n] = 1 /\ \A m \in (1 .. MaxAttempts) \ {n} : calls'[r][m] = calls[r][m]
        <3>1. calls'[r] = [calls[r] EXCEPT ![n] = calls[r][n] + 1]
            BY <2>1, <2>2, <2>3
        <3>2. calls[r] \in [1 .. MaxAttempts -> Nat]
            BY <2>3
        <3>3. calls[r][n] + 1 = 1
            BY <2>1
        <3> QED  BY <2>1, <3>1, <3>2, <3>3, Bumped
    <2>6. \A s \in Recipients \ {r} : calls'[s] = calls[s]
        BY <2>2, <2>3
    <2>7. n \in (1 .. Attempts[r]) \ Called[r]
        BY <2>1 DEF Attempts, Called
    <2>8. Called'[r] = Called[r] \cup {n}
        <3>1. Called[r] = {m \in 1 .. MaxAttempts : calls[r][m] > 0}
              /\ Called'[r] = {m \in 1 .. MaxAttempts : calls'[r][m] > 0}
            BY <2>1 DEF Called
        <3> QED  BY <2>1, <2>5, <3>1
    <2>9. Called' = [Called EXCEPT ![r] = @ \cup {n}]
        <3>1. \A s \in Recipients \ {r} : Called'[s] = Called[s]
            BY <2>6 DEF Called
        <3> QED  BY <2>1, <2>8, <3>1 DEF Called
    <2>10. Phases' = Phases /\ Attempts' = Attempts
        BY <1>0 DEF Phases, Attempts
    <2>11. Delivery!Call(r)
        <3>1. \E m \in (1 .. Attempts[r]) \ Called[r] : Called' = [Called EXCEPT ![r] = @ \cup {m}]
            BY <2>7, <2>9
        <3> QED  BY <2>10, <3>1 DEF Delivery!Call, Phases, Attempts, Called
    <2> QED  BY <2>1, <2>11 DEF Delivery!Next
<1> QED  BY <1>1, <1>2

-----------------------------------------------------------------------------
(* The theorem                                                             *)

(* Every step of the campaign is a step of CampaignDelivery or a stutter.   *)
LEMMA DeliveryStep ==
    ASSUME IInv, Next
    PROVE  Delivery!Next \/ UNCHANGED <<Phases, Attempts, Called>>
<1> USE DEF stored, clock, worker, bounds
<1>s. ASSUME rcp' = rcp, calls' = calls PROVE UNCHANGED <<Phases, Attempts, Called>>
    BY <1>s, Stutters
<1>1. ASSUME NEW p \in Procs, ProcessStep(p)
      PROVE  \/ rcp' = rcp /\ calls' = calls
             \/ SaveRecover(p) \/ SaveClaim(p) \/ SaveResult(p) \/ EnsureClaim(p)
    BY <1>1 DEF ProcessStep, WorkerStep, ScheduleCampaign, Sweep, AcquireLease, Ensure,
        EnsureTop, EnsureQueued, EnsureRecover, EnsureResult, EnsureNext, EnsureEnd,
        DelayOver, VersionError, Load, Reload, SaveDefer, SaveQueued,
        DispatchResult, SaveRunning, SaveFinal, SaveNextOccurrence, SeriesOver,
        SaveParent, ReleaseLease, Heartbeat, DbError, Crash
<1>2. ASSUME NEW h \in Handlers, HandlerStep(h)
      PROVE  (rcp' = rcp /\ calls' = calls) \/ CancelSave(h) \/ ReplySave(h)
    BY <1>2 DEF HandlerStep, HandlerSaves, HandlerLoad, PauseLoad, ResumeLoad,
        CancelLoad, ReplyLoad, PauseSave, ResumeSave, HandlerFails
<1>3. Environment => rcp' = rcp /\ calls' = calls
    BY DEF Environment, LeaseExpires, RunTimeComes, WindowTurns, SendingGrowsStale
<1>4. ASSUME NEW h \in Handlers, ReplySave(h) PROVE UNCHANGED <<Phases, Attempts, Called>>
    <2>1. rcp' = Replied(rcp, call[h].r) /\ calls' = calls
        BY <1>4, SavesStored DEF ReplySave
    <2>2. \A r \in Recipients : rcp'[r].st = rcp[r].st /\ rcp'[r].att = rcp[r].att
        BY <2>1 DEF Replied, IInv, TypeOK
    <2> QED  BY <2>1, <2>2, Stutters
<1> QED
    BY <1>s, <1>1, <1>2, <1>3, <1>4, RecoverSettles, ClaimClaims, ResultSettles, CancelSettles,
       EnsureCalls DEF Next

(* The campaign implements CampaignDelivery, however leases lapse, saves     *)
(* race and processes stop.                                                *)
THEOREM DeliveryImplemented == Spec => ImplementsDelivery
<1>1. Init => Delivery!Init
    <2>1. ASSUME Init PROVE \A r \in Recipients : {n \in 1 .. MaxAttempts : calls[r][n] > 0} = {}
        BY <2>1 DEF Init
    <2> QED  BY <2>1 DEF Init, Delivery!Init, NewRecipients, NewRecipient, PhaseOf, Claimable
<1>2. IInv /\ [Next]_vars => [Delivery!Next]_<<Phases, Attempts, Called>>
    <2>1. ASSUME UNCHANGED vars PROVE UNCHANGED <<Phases, Attempts, Called>>
        BY <2>1, Stutters DEF vars, stored
    <2> QED  BY <2>1, DeliveryStep
<1>3. IInv /\ [Next]_vars => [Delivery!Next]_(Delivery!vars)
    BY <1>2 DEF Delivery!vars, Phases, Attempts, Called
<1> QED  BY <1>1, <1>3, Invariant, PTL DEF Spec, ImplementsDelivery, Delivery!Spec
=============================================================================
