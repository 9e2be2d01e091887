----------------------- MODULE BillingLifecycleProofs -----------------------
(***************************************************************************)
(* Proofs about BillingLifecycle for every number of deliveries, calls,    *)
(* sweeping processes, mandates and events, any plans and any periods.     *)
(***************************************************************************)
EXTENDS BillingLifecycle, TLAPS

-----------------------------------------------------------------------------
(* The inductive invariant                                                 *)

\* A delivery is about an event the provider has sent.
HooksOK == \A h \in Hooks : hook[h].pc # "idle" => hook[h].event \in 1 .. Len(events)

\* A call that asks the provider about a mandate, or saves one, holds it; a call
\* on the way to a new mandate knows its plan.
UsersOK ==
    \A u \in Users :
        /\ user[u].pc \in {"getMandate", "cancelOld", "cancel", "save"}
                => user[u].mandate \in MandateIds
        /\ user[u].pc \in {"getMandate", "cancelOld", "create", "save"}
                => user[u].plan \in Plans

\* A delivery that is about to change the profile recorded its event itself:
\* nobody else may apply it, and it was not applied before.
AppliesFirst ==
    \A h \in Hooks : hook[h].pc = "apply" =>
        hook[h].event \in recorded /\ effects[hook[h].event] = 0
AppliesAlone ==
    \A g, h \in Hooks :
        hook[g].pc = "apply" /\ hook[h].pc = "apply" /\ hook[g].event = hook[h].event => g = h
\* An event that changed the profile stays recorded.
EffectsRecorded == \A e \in EventIds : effects[e] # 0 => e \in recorded

OnceInv == AppliesFirst /\ AppliesAlone /\ EffectsRecorded /\ EventAppliedOnce

\* A project on the free plan that is marked as paying waits for the
\* authorization of a mandate.
WaitsForMandate == profile.paid /\ profile.plan = "free" => HasPendingMandate(profile)

IInv == TypeOK /\ HooksOK /\ UsersOK /\ OnceInv /\ WaitsForMandate

-----------------------------------------------------------------------------
(* Types of the parts                                                      *)

MandateType == [state : {"none", "created", "offered", "authorized", "ended"},
                plan : {"none"} \cup Plans]
EventType == [mandate : MandateIds, kind : {"authorized", "ended", "completed", "error"}]
HookType == [pc : {"idle", "findProject", "record", "apply"},
             event : 0 .. MaxEvents, pending : {"none"} \cup Plans]
UserType == [pc : {"idle", "getMandate", "cancelOld", "create", "save", "cancel", "free"},
             mandate : 0 .. MaxMandates, plan : {"none"} \cup Plans]
AdminType == [action : {"none"} \cup AdminActions, paid : BOOLEAN, failures : Nat]

ProfileOK == profile \in ProfileType
RecordsOK == recorded \in SUBSET EventIds /\ acked \in SUBSET EventIds
             /\ effects \in [EventIds -> Nat]
ProviderOK == /\ mandates \in [MandateIds -> MandateType]
              /\ events \in Seq(EventType) /\ Len(events) <= MaxEvents
CallsOK == /\ hook \in [Hooks -> HookType] /\ user \in [Users -> UserType]
           /\ sweep \in [Sweepers -> {"none", "suspend", "downgrade_to_free"}]
           /\ admin \in [Admins -> AdminType]
BoundsOK == ops \in Nat /\ faults \in Nat

(* The parts make up the type invariant.                                   *)
LEMMA TypeParts ==
    /\ TypeOK => ProfileOK /\ RecordsOK /\ ProviderOK /\ CallsOK /\ BoundsOK
    /\ ProfileOK' /\ RecordsOK' /\ ProviderOK' /\ CallsOK' /\ BoundsOK' => TypeOK'
BY DEF TypeOK, ProfileOK, RecordsOK, ProviderOK, CallsOK, BoundsOK, MandateType, EventType,
    HookType, UserType, AdminType

(* The idle places and the free profile are well typed.                    *)
LEMMA IdleTypes ==
    /\ Idle \in HookType /\ NoUser \in UserType /\ NoAction \in AdminType
    /\ FreeProfile \in ProfileType
    /\ {NoEnd, Period} \subseteq Days /\ Days \subseteq Int
BY BillingAssumption DEF Idle, HookType, NoUser, UserType, NoAction, AdminType, FreeProfile,
    ProfileType, NoEnd, Days

(* A profile whose status and failures are set is a profile.               *)
LEMMA SetStatus ==
    ASSUME ProfileOK,
           NEW status \in {"free", "pending_authorization", "active", "past_due", "suspended"},
           NEW failures \in Nat
    PROVE  /\ [profile EXCEPT !.status = status, !.failures = failures] \in ProfileType
           /\ [profile EXCEPT !.status = status] \in ProfileType
BY DEF ProfileOK, ProfileType

(* What an event makes of a profile is a profile.                          *)
LEMMA AfterEventType ==
    ASSUME ProfileOK, NEW kind \in {"authorized", "ended", "completed", "error"},
           NEW pending \in {"none"} \cup Plans
    PROVE  AfterEvent(kind, pending) \in ProfileType
<1>1. Activated(pending) \in ProfileType
    BY IdleTypes, BillingAssumption DEF ProfileOK, Activated, ProfileType
<1>2. Paid \in ProfileType
    BY IdleTypes DEF ProfileOK, Paid, ProfileType
<1>3. PastDue \in ProfileType
    <2>1. profile.failures + 1 \in Nat
        BY DEF ProfileOK, ProfileType
    <2> QED  BY <2>1, SetStatus DEF PastDue
<1> QED  BY <1>1, <1>2, <1>3, IdleTypes DEF AfterEvent

(* The provider's new event comes after those it sent before.              *)
LEMMA Emitted ==
    ASSUME ProviderOK, NEW m \in MandateIds, Len(events) < MaxEvents,
           NEW kind \in {"authorized", "ended", "completed", "error"}, Emit(m, kind)
    PROVE  /\ events' \in Seq(EventType) /\ Len(events') <= MaxEvents
           /\ Len(events') = Len(events) + 1
<1>1. [mandate |-> m, kind |-> kind] \in EventType
    BY DEF EventType
<1> QED  BY <1>1, BillingAssumption DEF ProviderOK, Emit

-----------------------------------------------------------------------------
(* The steps                                                               *)

\* Steps of deliveries, of users, of the job and the administrators, and of the
\* provider and time.
HookStep(h) == Webhook(h) \/ HookFails(h) \/ AnswerLost(h) \/ \E e \in EventIds : Deliver(h, e)
UserMoves(u) == Subscribe(u) \/ Cancel(u) \/ UserStep(u) \/ UserFails(u)
Upkeep ==
    \/ \E s \in Sweepers : SweepFinds(s) \/ SweepApplies(s) \/ SweepFails(s)
    \/ \E a \in Admins :
        AdminApplies(a) \/ \E action \in AdminActions : AdminFinds(a, action)
Outside == Tick \/ \E m \in MandateIds : Provider(m)

(* Every step is one of these.                                             *)
LEMMA Steps ==
    Next => \/ Outside \/ Upkeep
            \/ \E h \in Hooks : HookStep(h)
            \/ \E u \in Users : UserMoves(u)
BY DEF Next, HookStep, UserMoves, Upkeep, Outside

(* A step of a delivery is well typed.                                     *)
LEMMA HookTypes ==
    ASSUME IInv, NEW h \in Hooks, HookStep(h)
    PROVE  TypeOK'
<1> USE DEF provider, calls, RecordsOK, CallsOK, BoundsOK
<1>t. ProfileOK /\ RecordsOK /\ ProviderOK /\ CallsOK /\ BoundsOK
    BY TypeParts DEF IInv
<1>0. Idle \in HookType
    BY IdleTypes
<1>e. hook[h].pc # "idle" => hook[h].event \in EventIds
    BY <1>t, BillingAssumption DEF IInv, HooksOK, ProviderOK, EventIds
<1>1. ASSUME NEW e \in EventIds, Deliver(h, e) PROVE TypeOK'
    <2>1. CASE e \in recorded
        BY <1>t, <1>0, <1>1, <2>1, TypeParts DEF Deliver, Acknowledge, ProfileOK, ProviderOK
    <2>2. CASE e \notin recorded
        <3>1. [pc |-> "findProject", event |-> e, pending |-> "none"] \in HookType
            BY DEF HookType, EventIds
        <3> QED  BY <1>t, <1>1, <2>2, <3>1, TypeParts DEF Deliver, ProfileOK, ProviderOK
    <2> QED  BY <2>1, <2>2
<1>2. CASE FindProject(h)
    <2>1. CASE profile.mandate = EventOf(h).mandate
        <3>1. hook' \in [Hooks -> HookType]
            BY <1>t, <1>2, <2>1 DEF FindProject, HookType, ProfileOK, ProfileType
        <3> QED  BY <1>t, <1>2, <2>1, <3>1, TypeParts DEF FindProject, ProfileOK, ProviderOK
    <2>2. CASE profile.mandate # EventOf(h).mandate
        BY <1>t, <1>0, <1>e, <1>2, <2>2, TypeParts DEF FindProject, Acknowledge, ProfileOK, ProviderOK
    <2> QED  BY <2>1, <2>2
<1>3. CASE RecordEvent(h)
    <2>1. CASE RecordAgain(hook[h].event)
        BY <1>t, <1>0, <1>e, <1>3, <2>1, TypeParts DEF RecordEvent, Acknowledge, ProfileOK, ProviderOK
    <2>2. CASE ~RecordAgain(hook[h].event)
        <3>1. hook' \in [Hooks -> HookType]
            BY <1>t, <1>3, <2>2 DEF RecordEvent, GotoHook, HookType
        <3> QED  BY <1>t, <1>e, <1>3, <2>2, <3>1, TypeParts DEF RecordEvent, ProfileOK, ProviderOK
    <2> QED  BY <2>1, <2>2
<1>4. ASSUME Applies(h)
      PROVE  ProfileOK' /\ effects' \in [EventIds -> Nat]
    <2>1. hook[h].event \in 1 .. Len(events) /\ hook[h].event \in EventIds
        BY <1>e, <1>4 DEF Applies, IInv, HooksOK
    <2>2. EventOf(h).kind \in {"authorized", "ended", "completed", "error"}
        <3>1. EventOf(h) \in EventType
            BY <1>t, <2>1 DEF ProviderOK, EventOf
        <3> QED  BY <3>1 DEF EventType
    <2>3. hook[h].pending \in {"none"} \cup Plans
        BY <1>t DEF HookType
    <2>4. ProfileOK'
        BY <1>t, <1>4, <2>2, <2>3, AfterEventType DEF Applies, ProfileOK
    <2> QED  BY <1>t, <1>4, <2>1, <2>4 DEF Applies
<1>5. CASE ApplyEvent(h)
    BY <1>t, <1>0, <1>e, <1>4, <1>5, TypeParts DEF ApplyEvent, Applies, Acknowledge, ProviderOK
<1>6. CASE AnswerLost(h)
    BY <1>t, <1>0, <1>4, <1>6, TypeParts DEF AnswerLost, Applies, ProviderOK
<1>7. CASE HookFails(h)
    BY <1>t, <1>0, <1>7, TypeParts DEF HookFails, ProfileOK, ProviderOK
<1> QED  BY <1>1, <1>2, <1>3, <1>5, <1>6, <1>7 DEF HookStep, Webhook

(* A step of a user's call is well typed.                                  *)
LEMMA UserTypes ==
    ASSUME IInv, NEW u \in Users, UserMoves(u)
    PROVE  TypeOK'
<1> USE DEF provider, calls, RecordsOK, CallsOK, BoundsOK
<1>t. ProfileOK /\ RecordsOK /\ ProviderOK /\ CallsOK /\ BoundsOK
    BY TypeParts DEF IInv
<1>0. NoUser \in UserType
    BY IdleTypes
<1>1. ASSUME NEW next \in UserType, UserCalls(u, next) PROVE TypeOK'
    BY <1>t, <1>1, TypeParts DEF UserCalls, ProfileOK, ProviderOK
<1>2. CASE Subscribe(u)
    <2>1. PICK plan \in Plans :
            UserCalls(u, [pc |-> IF HasPendingMandate(profile) THEN "getMandate"
                                 ELSE IF profile.mandate # 0 THEN "cancelOld" ELSE "create",
                          mandate |-> profile.mandate, plan |-> plan])
        BY <1>2 DEF Subscribe
    <2>2. [pc |-> IF HasPendingMandate(profile) THEN "getMandate"
                  ELSE IF profile.mandate # 0 THEN "cancelOld" ELSE "create",
           mandate |-> profile.mandate, plan |-> plan] \in UserType
        BY <1>t DEF UserType, ProfileOK, ProfileType
    <2> QED  BY <1>1, <2>1, <2>2
<1>3. CASE Cancel(u)
    <2>1. [pc |-> "cancel", mandate |-> profile.mandate, plan |-> "none"] \in UserType
        BY <1>t DEF UserType, ProfileOK, ProfileType
    <2> QED  BY <1>1, <1>3, <2>1 DEF Cancel
<1>4. ASSUME NEW pc \in {"idle", "create", "free"}, GotoUser(u, pc)
      PROVE  user' \in [Users -> UserType]
    BY <1>t, <1>0, <1>4 DEF GotoUser, UserType
<1>5. CASE GetMandate(u)
    <2>1. user' \in [Users -> UserType]
        BY <1>4, <1>5 DEF GetMandate
    <2> QED  BY <1>t, <1>5, <2>1, TypeParts DEF GetMandate, ProfileOK, ProviderOK
<1>6. CASE CancelMandate(u)
    <2>1. user[u].mandate \in MandateIds
        BY <1>6 DEF CancelMandate, IInv, UsersOK
    <2>2. user' \in [Users -> UserType]
        BY <1>4, <1>6 DEF CancelMandate
    <2>3. ASSUME EndsAtProvider(user[u].mandate) PROVE ProviderOK'
        <3>1. mandates' \in [MandateIds -> MandateType]
            BY <1>t, <2>1, <2>3 DEF EndsAtProvider, ProviderOK, MandateType
        <3>2. events' \in Seq(EventType) /\ Len(events') <= MaxEvents
            BY <1>t, <2>1, <2>3, Emitted DEF EndsAtProvider
        <3> QED  BY <3>1, <3>2 DEF ProviderOK
    <2>4. ASSUME UNCHANGED <<mandates, events>> PROVE ProviderOK'
        BY <1>t, <2>4 DEF ProviderOK
    <2>5. ProviderOK'
        BY <1>6, <2>3, <2>4 DEF CancelMandate
    <2> QED  BY <1>t, <1>6, <2>2, <2>5, TypeParts DEF CancelMandate, ProfileOK
<1>7. CASE CreateMandate(u)
    <2>1. PICK m \in MandateIds :
            /\ mandates' = [mandates EXCEPT ![m] = [state |-> "created", plan |-> user[u].plan]]
            /\ user' = [user EXCEPT ![u].pc = "save", ![u].mandate = m]
        BY <1>7 DEF CreateMandate
    <2>2. [state |-> "created", plan |-> user[u].plan] \in MandateType
        BY <1>t DEF MandateType, UserType
    <2>3. mandates' \in [MandateIds -> MandateType] /\ user' \in [Users -> UserType]
        <3>1. m \in 0 .. MaxMandates
            BY BillingAssumption DEF MandateIds
        <3> QED  BY <1>t, <2>1, <2>2, <3>1 DEF ProviderOK, UserType
    <2> QED  BY <1>t, <1>7, <2>3, TypeParts DEF CreateMandate, ProfileOK, ProviderOK
<1>8. CASE SaveMandate(u)
    <2>1. ProfileOK'
        BY <1>t, <1>8 DEF SaveMandate, ProfileOK, ProfileType, UserType
    <2>2. mandates' \in [MandateIds -> MandateType]
        BY <1>t, <1>8 DEF SaveMandate, ProviderOK, MandateType
    <2>3. user' \in [Users -> UserType]
        BY <1>4, <1>8 DEF SaveMandate
    <2> QED  BY <1>t, <1>8, <2>1, <2>2, <2>3, TypeParts DEF SaveMandate, ProviderOK
<1>9. CASE SaveFree(u)
    BY <1>t, <1>4, <1>9, IdleTypes, TypeParts DEF SaveFree, ProfileOK, ProviderOK
<1>10. CASE UserFails(u)
    BY <1>t, <1>4, <1>10, TypeParts DEF UserFails, ProfileOK, ProviderOK
<1> QED  BY <1>2, <1>3, <1>5, <1>6, <1>7, <1>8, <1>9, <1>10 DEF UserMoves, UserStep

(* A step of the daily job or of an administrator is well typed.            *)
LEMMA UpkeepTypes ==
    ASSUME IInv, Upkeep
    PROVE  TypeOK'
<1> USE DEF provider, calls, RecordsOK, CallsOK, BoundsOK
<1>t. ProfileOK /\ RecordsOK /\ ProviderOK /\ CallsOK /\ BoundsOK
    BY TypeParts DEF IInv
<1>0. FreeProfile \in ProfileType /\ NoAction \in AdminType /\ Suspended \in ProfileType
    BY <1>t, IdleTypes DEF Suspended, ProfileOK, ProfileType
<1>1. ASSUME NEW s \in Sweepers, SweepFinds(s) \/ SweepFails(s) PROVE TypeOK'
    <2>1. Decision(profile) \in {"none", "suspend", "downgrade_to_free"}
        BY DEF Decision
    <2>2. sweep' \in [Sweepers -> {"none", "suspend", "downgrade_to_free"}]
        BY <1>t, <1>1, <2>1 DEF SweepFinds, SweepFails
    <2> QED  BY <1>t, <1>1, <2>2, TypeParts DEF SweepFinds, SweepFails, ProfileOK, ProviderOK
<1>2. ASSUME NEW s \in Sweepers, SweepApplies(s) PROVE TypeOK'
    BY <1>t, <1>0, <1>2, TypeParts DEF SweepApplies, ProfileOK, ProviderOK
<1>3. ASSUME NEW a \in Admins, NEW action \in AdminActions, AdminFinds(a, action) PROVE TypeOK'
    <2>1. [action |-> action, paid |-> profile.paid, failures |-> profile.failures] \in AdminType
        BY <1>t DEF AdminType, ProfileOK, ProfileType
    <2> QED  BY <1>t, <1>3, <2>1, TypeParts DEF AdminFinds, ProfileOK, ProviderOK
<1>4. ASSUME NEW a \in Admins, AdminApplies(a) PROVE TypeOK'
    <2>1. admin[a].action \in {"suspend", "reactivate", "mark_past_due", "downgrade_to_free"}
          /\ admin[a].failures \in Nat
        BY <1>t, <1>4, BillingAssumption DEF AdminApplies, AdminType
    <2>2. ProfileOK'
        <3>1. admin[a].failures + 1 \in Nat
            BY <2>1
        <3>2. CASE admin[a].action = "suspend"
            BY <1>0, <1>4, <3>2 DEF AdminApplies, ProfileOK
        <3>3. CASE admin[a].action = "reactivate"
            BY <1>t, <1>4, <3>3, SetStatus DEF AdminApplies, ProfileOK
        <3>4. CASE admin[a].action = "mark_past_due"
            BY <1>t, <1>4, <3>1, <3>4, SetStatus DEF AdminApplies, ProfileOK
        <3>5. CASE admin[a].action = "downgrade_to_free"
            BY <1>0, <1>4, <3>5 DEF AdminApplies, ProfileOK
        <3> QED  BY <2>1, <3>2, <3>3, <3>4, <3>5
    <2> QED  BY <1>t, <1>0, <1>4, <2>2, TypeParts DEF AdminApplies, ProviderOK
<1> QED  BY <1>1, <1>2, <1>3, <1>4 DEF Upkeep

(* A step of the provider or a day that passes is well typed.               *)
LEMMA OutsideTypes ==
    ASSUME IInv, Outside
    PROVE  TypeOK'
<1> USE DEF provider, calls, RecordsOK, CallsOK, BoundsOK
<1>t. ProfileOK /\ RecordsOK /\ ProviderOK /\ CallsOK /\ BoundsOK
    BY TypeParts DEF IInv
<1>1. CASE Tick
    <2>1. profile.left - 1 \in Days
        BY <1>t, <1>1, BillingAssumption DEF Tick, ProfileOK, ProfileType, Days, NoEnd
    <2>2. ProfileOK'
        BY <1>t, <1>1, <2>1 DEF Tick, ProfileOK, ProfileType
    <2> QED  BY <1>t, <1>1, <2>2, TypeParts DEF Tick, ProviderOK
<1>2. ASSUME NEW m \in MandateIds, NEW state \in {"authorized", "ended"},
             NEW kind \in {"authorized", "ended", "completed", "error"}, Emits(m, state, kind)
      PROVE  TypeOK'
    <2>1. mandates' \in [MandateIds -> MandateType]
        BY <1>t, <1>2 DEF Emits, ProviderOK, MandateType
    <2>2. events' \in Seq(EventType) /\ Len(events') <= MaxEvents
        BY <1>t, <1>2, Emitted DEF Emits
    <2> QED  BY <1>t, <1>2, <2>1, <2>2, TypeParts DEF Emits, ProfileOK, ProviderOK
<1> QED  BY <1>1, <1>2 DEF Outside, Provider, Authorize, Expire, Revoke, Charge

(* Every step is well typed.                                               *)
LEMMA TypeStep ==
    ASSUME IInv, Next
    PROVE  TypeOK'
BY Steps, HookTypes, UserTypes, UpkeepTypes, OutsideTypes

-----------------------------------------------------------------------------
(* Deliveries                                                              *)

(* Only deliveries record events and apply them.                           *)
LEMMA OthersLeaveHooks ==
    ASSUME Outside \/ Upkeep \/ \E u \in Users : UserMoves(u)
    PROVE  UNCHANGED <<hook, recorded, effects>>
<1> USE DEF provider, calls
<1>1. Outside => UNCHANGED <<hook, recorded, effects>>
    BY DEF Outside, Tick, Provider, Authorize, Expire, Revoke, Charge, Emits
<1>2. Upkeep => UNCHANGED <<hook, recorded, effects>>
    BY DEF Upkeep, SweepFinds, SweepApplies, SweepFails, AdminApplies, AdminFinds
<1>3. ASSUME NEW u \in Users, UserMoves(u) PROVE UNCHANGED <<hook, recorded, effects>>
    BY <1>3 DEF UserMoves, UserStep, Subscribe, Cancel, UserCalls, GetMandate, CancelMandate,
        CreateMandate, SaveMandate, SaveFree, UserFails
<1> QED  BY <1>1, <1>2, <1>3

(* The provider's events are only added to.                                *)
LEMMA EventsGrow ==
    ASSUME IInv, Next
    PROVE  1 .. Len(events) \subseteq 1 .. Len(events')
<1> USE DEF provider, calls
<1>t. ProviderOK /\ Len(events) \in Nat
    BY TypeParts DEF IInv, ProviderOK
<1>1. ASSUME NEW m \in MandateIds, Len(events) < MaxEvents, Emit(m, "ended")
      PROVE  Len(events') = Len(events) + 1
    BY <1>t, <1>1, Emitted
<1>2. CASE Outside
    <2>1. ASSUME NEW m \in MandateIds, NEW state,
                 NEW kind \in {"authorized", "ended", "completed", "error"}, Emits(m, state, kind)
          PROVE  Len(events') = Len(events) + 1
        BY <1>t, <2>1, Emitted DEF Emits
    <2>2. Tick => events' = events
        BY DEF Tick
    <2> QED  BY <1>t, <1>2, <2>1, <2>2 DEF Outside, Provider, Authorize, Expire, Revoke, Charge
<1>3. Upkeep => events' = events
    BY DEF Upkeep, SweepFinds, SweepApplies, SweepFails, AdminApplies, AdminFinds
<1>4. ASSUME NEW h \in Hooks, HookStep(h) PROVE events' = events
    BY <1>4 DEF HookStep, Webhook, Deliver, FindProject, RecordEvent, ApplyEvent, Applies,
        AnswerLost, HookFails
<1>5. ASSUME NEW u \in Users, UserMoves(u)
      PROVE  events' = events \/ Len(events') = Len(events) + 1
    <2>1. CASE CancelMandate(u)
        <3>1. user[u].mandate \in MandateIds
            BY <2>1 DEF CancelMandate, IInv, UsersOK
        <3> QED  BY <1>1, <2>1, <3>1 DEF CancelMandate, EndsAtProvider
    <2>2. CASE ~CancelMandate(u)
        BY <1>5, <2>2 DEF UserMoves, UserStep, Subscribe, Cancel, UserCalls, GetMandate,
            CreateMandate, SaveMandate, SaveFree, UserFails
    <2> QED  BY <2>1, <2>2
<1> QED  BY <1>t, <1>2, <1>3, <1>4, <1>5, Steps

(* What a step of a delivery does to its place and to the events.           *)
LEMMA HookMoves ==
    ASSUME IInv, NEW h \in Hooks, HookStep(h)
    PROVE  /\ \A g \in Hooks \ {h} : hook'[g] = hook[g]
           /\ \/ /\ hook'[h].pc = "idle" /\ recorded' = recorded
                 /\ \/ effects' = effects
                    \/ hook[h].pc = "apply" /\ effects' = [effects EXCEPT ![hook[h].event] = @ + 1]
              \/ /\ hook'[h].pc \in {"findProject", "record"}
                 /\ hook'[h].event \in 1 .. Len(events)
                 /\ recorded' = recorded /\ effects' = effects
              \/ /\ hook'[h].pc = "apply" /\ hook[h].pc = "record"
                 /\ hook'[h].event = hook[h].event /\ hook[h].event \notin recorded
                 /\ recorded' = recorded \cup {hook[h].event} /\ effects' = effects
<1> USE DEF provider, calls
<1>t. hook \in [Hooks -> HookType] /\ Idle.pc = "idle"
    BY TypeParts DEF IInv, CallsOK, Idle
<1>e. hook[h].pc # "idle" => hook[h].event \in 1 .. Len(events)
    BY DEF IInv, HooksOK
<1>o. \A g \in Hooks \ {h} : hook'[g] = hook[g]
    BY <1>t DEF HookStep, Webhook, Deliver, FindProject, RecordEvent, ApplyEvent,
        AnswerLost, HookFails, Acknowledge, GotoHook
<1>a. ASSUME NEW e, Acknowledge(h, e) PROVE hook'[h].pc = "idle"
    BY <1>t, <1>a DEF Acknowledge
<1>1. ASSUME NEW e \in EventIds, Deliver(h, e)
      PROVE  \/ hook'[h].pc = "idle"
             \/ hook'[h].pc = "findProject" /\ hook'[h].event \in 1 .. Len(events)
    BY <1>t, <1>a, <1>1 DEF Deliver
<1>2. CASE \E e \in EventIds : Deliver(h, e)
    BY <1>o, <1>1, <1>2 DEF Deliver
<1>3. CASE FindProject(h)
    <2>1. CASE profile.mandate = EventOf(h).mandate
        <3>1. hook'[h].pc = "record" /\ hook'[h].event = hook[h].event
            BY <1>t, <1>3, <2>1 DEF FindProject, HookType
        <3> QED  BY <1>o, <1>e, <1>3, <3>1 DEF FindProject
    <2>2. CASE profile.mandate # EventOf(h).mandate
        BY <1>o, <1>a, <1>3, <2>2 DEF FindProject
    <2> QED  BY <2>1, <2>2
<1>4. CASE RecordEvent(h)
    <2>1. CASE RecordAgain(hook[h].event)
        BY <1>o, <1>a, <1>4, <2>1 DEF RecordEvent
    <2>2. CASE ~RecordAgain(hook[h].event)
        <3>1. hook'[h].pc = "apply" /\ hook'[h].event = hook[h].event
            BY <1>t, <1>4, <2>2 DEF RecordEvent, GotoHook, HookType
        <3> QED  BY <1>o, <1>4, <2>2, <3>1 DEF RecordEvent, RecordAgain
    <2> QED  BY <2>1, <2>2
<1>5. CASE ApplyEvent(h)
    BY <1>o, <1>a, <1>5 DEF ApplyEvent, Applies
<1>6. CASE AnswerLost(h)
    <2>1. hook'[h].pc = "idle"
        BY <1>t, <1>6 DEF AnswerLost
    <2> QED  BY <1>o, <1>6, <2>1 DEF AnswerLost, Applies
<1>7. CASE HookFails(h)
    <2>1. hook'[h].pc = "idle"
        BY <1>t, <1>7 DEF HookFails
    <2> QED  BY <1>o, <1>7, <2>1 DEF HookFails
<1> QED  BY <1>2, <1>3, <1>4, <1>5, <1>6, <1>7 DEF HookStep, Webhook

(* A delivery keeps to events that were sent.                              *)
LEMMA HooksStep ==
    ASSUME IInv, Next
    PROVE  HooksOK'
<1>1. ASSUME NEW h \in Hooks, HookStep(h), NEW g \in Hooks, hook'[g].pc # "idle"
      PROVE  hook'[g].event \in 1 .. Len(events)
    BY <1>1, HookMoves DEF IInv, HooksOK
<1>2. ASSUME hook' = hook, NEW g \in Hooks, hook'[g].pc # "idle"
      PROVE  hook'[g].event \in 1 .. Len(events)
    BY <1>2 DEF IInv, HooksOK
<1> QED  BY <1>1, <1>2, Steps, OthersLeaveHooks, EventsGrow DEF HooksOK

(* A call keeps the mandate and the plan its next step needs.               *)
LEMMA UsersStep ==
    ASSUME IInv, Next
    PROVE  UsersOK'
<1> USE DEF provider, calls
<1> DEFINE Holds(r) ==
        /\ r.pc \in {"getMandate", "cancelOld", "cancel", "save"} => r.mandate \in MandateIds
        /\ r.pc \in {"getMandate", "cancelOld", "create", "save"} => r.plan \in Plans
<1>t. user \in [Users -> UserType] /\ ProfileOK
    BY TypeParts DEF IInv, CallsOK
<1>h. \A u \in Users : Holds(user[u])
    BY DEF IInv, UsersOK
<1>1. ASSUME NEW u \in Users, UserMoves(u)
      PROVE  (\A v \in Users \ {u} : user'[v] = user[v]) /\ Holds(user'[u])
    <2>0. \A v \in Users \ {u} : user'[v] = user[v]
        BY <1>t, <1>1 DEF UserMoves, UserStep, Subscribe, Cancel, UserCalls, GetMandate,
            CancelMandate, CreateMandate, SaveMandate, SaveFree, UserFails, GotoUser
    <2>1. profile.mandate # 0 => profile.mandate \in MandateIds
        BY <1>t, BillingAssumption DEF ProfileOK, ProfileType, MandateIds
    <2>2. CASE Subscribe(u)
        <3>1. PICK plan \in Plans :
                user'[u] = [pc |-> IF HasPendingMandate(profile) THEN "getMandate"
                                   ELSE IF profile.mandate # 0 THEN "cancelOld" ELSE "create",
                            mandate |-> profile.mandate, plan |-> plan]
            BY <1>t, <2>2 DEF Subscribe, UserCalls
        <3> QED  BY <2>0, <2>1, <3>1 DEF HasPendingMandate
    <2>3. CASE Cancel(u)
        BY <1>t, <2>0, <2>1, <2>3 DEF Cancel, UserCalls
    <2>4. CASE CreateMandate(u)
        <3>1. user[u].pc = "create" /\ user[u].plan \in Plans
            BY <1>h, <2>4 DEF CreateMandate
        <3>2. PICK m \in MandateIds : user' = [user EXCEPT ![u].pc = "save", ![u].mandate = m]
            BY <2>4 DEF CreateMandate
        <3>3. user'[u].pc = "save" /\ user'[u].mandate \in MandateIds /\ user'[u].plan = user[u].plan
            BY <1>t, <3>2 DEF UserType
        <3> QED  BY <2>0, <3>1, <3>3
    <2>5. ASSUME NEW pc \in {"idle", "free"}, GotoUser(u, pc)
          PROVE  Holds(user'[u])
        BY <1>t, <2>5 DEF GotoUser, NoUser
    <2>6. ASSUME user[u].plan \in Plans, GotoUser(u, "create")
          PROVE  Holds(user'[u])
        BY <1>t, <2>6 DEF GotoUser
    <2>7. CASE GetMandate(u)
        BY <1>h, <2>0, <2>5, <2>6, <2>7 DEF GetMandate
    <2>8. CASE CancelMandate(u)
        <3>1. \/ GotoUser(u, "idle") \/ GotoUser(u, "free")
              \/ user[u].pc = "cancelOld" /\ GotoUser(u, "create")
            BY <2>8 DEF CancelMandate
        <3> QED  BY <1>h, <2>0, <2>5, <2>6, <3>1
    <2>9. CASE SaveMandate(u) \/ SaveFree(u) \/ UserFails(u)
        BY <2>0, <2>5, <2>9 DEF SaveMandate, SaveFree, UserFails
    <2> QED  BY <1>1, <2>2, <2>3, <2>4, <2>7, <2>8, <2>9 DEF UserMoves, UserStep
<1>2. Outside => user' = user
    BY DEF Outside, Tick, Provider, Authorize, Expire, Revoke, Charge, Emits
<1>3. Upkeep => user' = user
    BY DEF Upkeep, SweepFinds, SweepApplies, SweepFails, AdminApplies, AdminFinds
<1>4. ASSUME NEW h \in Hooks, HookStep(h) PROVE user' = user
    BY <1>4 DEF HookStep, Webhook, Deliver, FindProject, RecordEvent, ApplyEvent, Applies,
        AnswerLost, HookFails
<1> QED  BY <1>1, <1>2, <1>3, <1>4, Steps DEF IInv, UsersOK

(* Whatever writes the profile next, a free project that counts as paying    *)
(* has a mandate to wait for: an authorization brings a plan, an end takes    *)
(* the mark, a payment and a status change neither.                         *)
LEMMA WaitsStep ==
    ASSUME IInv, Next
    PROVE  WaitsForMandate'
<1> USE DEF provider, calls
<1>t. ProfileOK /\ CallsOK
    BY TypeParts DEF IInv
<1>f. ~FreeProfile.paid
    BY DEF FreeProfile
<1>k. ASSUME profile'.paid = profile.paid, profile'.plan = profile.plan,
             profile'.mandate = profile.mandate, profile'.pending = profile.pending
      PROVE  WaitsForMandate'
    BY <1>k DEF IInv, WaitsForMandate, HasPendingMandate
<1>s. ASSUME NEW status, NEW failures,
             \/ profile' = [profile EXCEPT !.status = status]
             \/ profile' = [profile EXCEPT !.status = status, !.failures = failures]
      PROVE  WaitsForMandate'
    BY <1>t, <1>k, <1>s DEF ProfileOK, ProfileType
<1>1. CASE Outside
    <2>1. CASE Tick
        BY <1>t, <1>k, <2>1 DEF Tick, ProfileOK, ProfileType
    <2>2. CASE ~Tick
        BY <1>k, <1>1, <2>2 DEF Outside, Provider, Authorize, Expire, Revoke, Charge, Emits
    <2> QED  BY <2>1, <2>2
<1>2. ASSUME NEW h \in Hooks, HookStep(h) PROVE WaitsForMandate'
    <2>1. CASE Applies(h)
        <3>1. EventOf(h).kind \in {"authorized", "ended", "completed", "error"}
            <4>1. EventOf(h) \in EventType
                BY <2>1, TypeParts DEF Applies, IInv, HooksOK, ProviderOK, EventOf
            <4> QED  BY <4>1 DEF EventType
        <3>2. CASE EventOf(h).kind = "authorized"
            <4>1. profile' = Activated(hook[h].pending) /\ hook[h].pending \in {"none"} \cup Plans
                BY <1>t, <2>1, <3>2 DEF Applies, AfterEvent, CallsOK, HookType
            <4>2. profile'.plan \in Plans
                BY <1>t, <4>1, BillingAssumption DEF Activated, ProfileOK, ProfileType
            <4> QED  BY <4>2, BillingAssumption DEF WaitsForMandate
        <3>3. CASE EventOf(h).kind = "ended"
            BY <1>f, <2>1, <3>3 DEF Applies, AfterEvent, WaitsForMandate
        <3>4. CASE EventOf(h).kind = "completed"
            BY <1>t, <1>k, <2>1, <3>4 DEF Applies, AfterEvent, Paid, ProfileOK, ProfileType
        <3>5. CASE EventOf(h).kind = "error"
            BY <1>s, <2>1, <3>5 DEF Applies, AfterEvent, PastDue
        <3> QED  BY <3>1, <3>2, <3>3, <3>4, <3>5
    <2>2. CASE ~Applies(h)
        BY <1>k, <1>2, <2>2 DEF HookStep, Webhook, Deliver, FindProject, RecordEvent, ApplyEvent,
            AnswerLost, HookFails
    <2> QED  BY <2>1, <2>2
<1>3. ASSUME NEW u \in Users, UserMoves(u) PROVE WaitsForMandate'
    <2>1. CASE SaveMandate(u)
        <3>1. user[u].mandate # 0 /\ user[u].plan # "none"
            BY <2>1, BillingAssumption DEF SaveMandate, IInv, UsersOK, MandateIds
        <3>2. profile'.mandate = user[u].mandate /\ profile'.pending = user[u].plan
            BY <1>t, <2>1 DEF SaveMandate, ProfileOK, ProfileType
        <3> QED  BY <3>1, <3>2 DEF WaitsForMandate, HasPendingMandate
    <2>2. CASE SaveFree(u)
        BY <1>f, <2>2 DEF SaveFree, WaitsForMandate
    <2>3. CASE ~SaveMandate(u) /\ ~SaveFree(u)
        BY <1>k, <1>3, <2>3 DEF UserMoves, UserStep, Subscribe, Cancel, UserCalls, GetMandate,
            CancelMandate, CreateMandate, UserFails
    <2> QED  BY <2>1, <2>2, <2>3
<1>4. ASSUME NEW s \in Sweepers, SweepFinds(s) \/ SweepApplies(s) \/ SweepFails(s)
      PROVE  WaitsForMandate'
    <2>1. CASE SweepApplies(s)
        BY <1>f, <1>s, <2>1 DEF SweepApplies, Suspended, WaitsForMandate
    <2>2. CASE SweepFinds(s) \/ SweepFails(s)
        BY <1>k, <2>2 DEF SweepFinds, SweepFails
    <2> QED  BY <1>4, <2>1, <2>2
<1>5. ASSUME NEW a \in Admins, AdminApplies(a) PROVE WaitsForMandate'
    <2>1. admin[a].action \in {"suspend", "reactivate", "mark_past_due", "downgrade_to_free"}
        BY <1>t, <1>5, BillingAssumption DEF AdminApplies, CallsOK, AdminType
    <2>2. CASE admin[a].action = "downgrade_to_free"
        BY <1>f, <1>5, <2>2 DEF AdminApplies, WaitsForMandate
    <2>3. CASE admin[a].action \in {"suspend", "reactivate", "mark_past_due"}
        <3>1. \E status, failures :
                \/ profile' = [profile EXCEPT !.status = status]
                \/ profile' = [profile EXCEPT !.status = status, !.failures = failures]
            BY <1>5, <2>3 DEF AdminApplies, Suspended
        <3> QED  BY <1>s, <3>1
    <2> QED  BY <2>1, <2>2, <2>3
<1>6. ASSUME NEW a \in Admins, NEW action \in AdminActions, AdminFinds(a, action)
      PROVE  WaitsForMandate'
    BY <1>k, <1>6 DEF AdminFinds
<1> QED  BY <1>1, <1>2, <1>3, <1>4, <1>5, <1>6, Steps DEF Upkeep

(* An event is recorded by one delivery, applied by that one alone, and not   *)
(* again: the record is there before the profile changes and stays when      *)
(* the delivery stops half way.                                            *)
LEMMA OnceStep ==
    ASSUME IInv, Next
    PROVE  OnceInv'
<1>t. effects \in [EventIds -> Nat]
    BY TypeParts DEF IInv, RecordsOK
<1>i. OnceInv
    BY DEF IInv
<1>1. CASE UNCHANGED <<hook, recorded, effects>>
    BY <1>i, <1>1 DEF OnceInv, AppliesFirst, AppliesAlone, EffectsRecorded, EventAppliedOnce
<1>2. ASSUME NEW h \in Hooks, HookStep(h) PROVE OnceInv'
    <2>m. /\ \A g \in Hooks \ {h} : hook'[g] = hook[g]
          /\ hook[h].pc # "idle" => hook[h].event \in 1 .. Len(events)
          /\ 1 .. Len(events) \subseteq EventIds
        BY <1>2, HookMoves, TypeParts, BillingAssumption DEF IInv, HooksOK, ProviderOK, EventIds
    <2>1. CASE /\ hook'[h].pc # "apply" /\ recorded' = recorded /\ effects' = effects
        BY <1>i, <2>m, <2>1 DEF OnceInv, AppliesFirst, AppliesAlone, EffectsRecorded, EventAppliedOnce
    <2>2. CASE /\ hook'[h].pc = "idle" /\ recorded' = recorded /\ hook[h].pc = "apply"
               /\ effects' = [effects EXCEPT ![hook[h].event] = @ + 1]
        <3>1. PICK e \in EventIds : e = hook[h].event /\ e \in recorded /\ effects[e] = 0
            BY <1>i, <2>m, <2>2 DEF OnceInv, AppliesFirst
        <3>2. effects'[e] = 1 /\ \A d \in EventIds \ {e} : effects'[d] = effects[d]
            BY <1>t, <2>2, <3>1
        <3>3. \A g \in Hooks : hook'[g].pc = "apply" => hook'[g] = hook[g] /\ hook[g].event # e
            BY <1>i, <2>m, <2>2, <3>1 DEF OnceInv, AppliesAlone
        <3>4. \A g \in Hooks : hook'[g].pc = "apply" => hook[g].event \in EventIds
            BY <2>m, <3>3 DEF IInv, HooksOK
        <3>5. AppliesFirst' /\ AppliesAlone'
            BY <1>i, <2>2, <3>2, <3>3, <3>4 DEF OnceInv, AppliesFirst, AppliesAlone
        <3>6. EffectsRecorded' /\ EventAppliedOnce'
            BY <1>i, <2>2, <3>1, <3>2 DEF OnceInv, EffectsRecorded, EventAppliedOnce
        <3> QED  BY <3>5, <3>6 DEF OnceInv
    <2>3. CASE /\ hook'[h].pc = "apply" /\ hook[h].pc = "record"
               /\ hook'[h].event = hook[h].event /\ hook[h].event \notin recorded
               /\ recorded' = recorded \cup {hook[h].event} /\ effects' = effects
        <3>1. hook[h].event \in EventIds /\ effects[hook[h].event] = 0
            BY <1>i, <2>m, <2>3 DEF OnceInv, EffectsRecorded
        <3>2. \A g \in Hooks \ {h} : hook'[g].pc = "apply" => hook'[g].event # hook[h].event
            BY <1>i, <2>m, <2>3 DEF OnceInv, AppliesFirst
        <3>3. AppliesFirst' /\ AppliesAlone'
            BY <1>i, <2>m, <2>3, <3>1, <3>2 DEF OnceInv, AppliesFirst, AppliesAlone
        <3> QED  BY <1>i, <2>3, <3>3 DEF OnceInv, EffectsRecorded, EventAppliedOnce
    <2> QED  BY <1>2, <2>1, <2>2, <2>3, HookMoves
<1> QED  BY <1>1, <1>2, Steps, OthersLeaveHooks

-----------------------------------------------------------------------------
(* Theorems                                                                *)

(* A project without a subscription satisfies the invariant.                *)
LEMMA IInvInit == Init => IInv
<1> SUFFICES ASSUME Init PROVE IInv
    OBVIOUS
<1>1. TypeOK
    <2>1. FreeProfile \in ProfileType /\ Idle \in HookType /\ NoUser \in UserType
          /\ NoAction \in AdminType
        BY IdleTypes
    <2> QED  BY <2>1, BillingAssumption DEF Init, TypeOK, HookType, UserType, AdminType
<1>2. HooksOK /\ UsersOK /\ OnceInv /\ WaitsForMandate
    BY DEF Init, HooksOK, UsersOK, OnceInv, AppliesFirst, AppliesAlone, EffectsRecorded,
        EventAppliedOnce, Idle, NoUser, WaitsForMandate, FreeProfile
<1> QED  BY <1>1, <1>2 DEF IInv

(* The inductive invariant holds in every state.                            *)
THEOREM Invariant == Spec => []IInv
<1>1. ASSUME IInv, Next PROVE IInv'
    BY <1>1, TypeStep, HooksStep, UsersStep, OnceStep, WaitsStep DEF IInv
<1>2. ASSUME IInv, UNCHANGED vars PROVE IInv'
    BY <1>2 DEF vars, provider, calls, IInv, TypeOK, HooksOK, UsersOK, OnceInv, AppliesFirst,
        AppliesAlone, EffectsRecorded, EventAppliedOnce, WaitsForMandate, HasPendingMandate
<1>3. IInv /\ [Next]_vars => IInv'
    BY <1>1, <1>2
<1> QED  BY <1>3, IInvInit, PTL DEF Spec

(* Types: the days left stay between the downgrade and a period, and every    *)
(* call of the provider is about a mandate it knows.                        *)
THEOREM TypeCorrect == Spec => []TypeOK
<1>1. IInv => TypeOK
    BY DEF IInv
<1> QED  BY <1>1, Invariant, PTL

(* However often an event is delivered, by how many handlers at once, and     *)
(* wherever they stop, it changes the project at most once.                  *)
THEOREM AppliedOnce == Spec => []EventAppliedOnce
<1>1. IInv => EventAppliedOnce
    BY DEF IInv, OnceInv
<1> QED  BY <1>1, Invariant, PTL

(* A mandate offered to a free project marks it as paying before anybody      *)
(* authorizes it: no event, sweep or administrator opens the paid features    *)
(* to it while it has no plan.                                              *)
THEOREM FeaturesPlanned == Spec => []FeaturesNeedPlan
<1>1. ASSUME IInv, profile.plan = "free" PROVE ~CanUsePaidFeatures(profile)
    <2>1. profile.paid => HasPendingMandate(profile)
        BY <1>1 DEF IInv, WaitsForMandate
    <2>2. StatusOf(profile) \in {"suspended", "pending_authorization", "free"}
        BY <1>1, <2>1 DEF StatusOf
    <2> QED  BY <2>2 DEF CanUsePaidFeatures
<1>2. IInv => FeaturesNeedPlan
    BY <1>1 DEF FeaturesNeedPlan
<1> QED  BY <1>2, Invariant, PTL
=============================================================================
