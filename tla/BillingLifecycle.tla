--------------------------- MODULE BillingLifecycle ---------------------------
(***************************************************************************)
(* The subscription of one project: the routes and the payment webhook of  *)
(* pubmodules/billing/index.js, the daily sweep and the administrator's    *)
(* actions of services/billingLifecycleService, and the payment provider   *)
(* (external), which keeps mandates and delivers events more than once, in *)
(* any order, until they are acknowledged.  Every database operation and   *)
(* every call of the provider is one action.                               *)
(***************************************************************************)
EXTENDS Integers, Sequences

CONSTANTS
    Hooks,           \* webhook deliveries being handled
    Users,           \* subscribe and cancel calls being handled
    Sweepers,        \* processes that run the daily job
    Admins,          \* administrator calls being handled
    Plans,           \* plans with a price
    Starter,         \* the plan of an authorization without pendingPlan
    AdminActions,    \* actions an administrator takes
    Period,          \* days of a billing period
    Grace,           \* BILLING_GRACE_DAYS
    SuspendAfter,    \* BILLING_SUSPEND_AFTER_DAYS
    DowngradeAfter,  \* BILLING_DOWNGRADE_AFTER_DAYS
    MaxMandates,     \* bound: mandates created
    MaxEvents,       \* bound: events of the provider
    MaxOps,          \* bound: user and administrator calls
    MaxFaults        \* bound: handlers that stop half way

ASSUME BillingAssumption ==
    /\ Starter \in Plans /\ "free" \notin Plans /\ "none" \notin Plans
    /\ AdminActions \subseteq {"suspend", "reactivate", "mark_past_due", "downgrade_to_free"}
    /\ {Period, Grace, SuspendAfter, DowngradeAfter} \subseteq Nat \ {0}
    /\ {MaxMandates, MaxEvents, MaxOps, MaxFaults} \subseteq Nat

VARIABLES
    profile,    \* the project's profile
    recorded,   \* event_ids of the stored subscription payments
    mandates,   \* provider: state and plan of each mandate
    events,     \* provider: the events so far; an event's id is its index
    acked,      \* provider: events answered with 200
    hook, user, sweep, admin,  \* calls in flight
    effects,    \* times each event changed the profile
    ops, faults

provider == <<mandates, events, acked>>
calls == <<hook, user, sweep, admin>>
vars == <<profile, recorded, provider, calls, effects, ops, faults>>

NoEnd == Period + 1
Days == (0 - DowngradeAfter) .. NoEnd
MandateIds == 1 .. MaxMandates
EventIds == 1 .. MaxEvents

-----------------------------------------------------------------------------
(* The profile                                                             *)

\* The updates that end a subscription: the webhook's, the cancel route's and
\* buildPlanUpdate's.
FreeProfile ==
    [plan |-> "free", paid |-> FALSE, mandate |-> 0, pending |-> "none",
     left |-> NoEnd, status |-> "free", failures |-> 0]

HasPendingMandate(d) == d.pending # "none" /\ d.mandate # 0

\* summarizeProject: left is the number of days to the end of the period.
AccessLeft(d) == d.left # NoEnd /\ d.left >= -Grace
StatusWithPeriod(d) ==
    IF d.status = "past_due" THEN "past_due"
    ELSE IF d.left >= 0 THEN "active"
    ELSE IF AccessLeft(d) THEN "grace_period" ELSE "past_due"

\* Mutant of StatusOf: whoever pays is in a period.
StatusOfPaid(d) ==
    IF d.status = "suspended" THEN "suspended"
    ELSE IF d.paid /\ d.left # NoEnd THEN StatusWithPeriod(d)
    ELSE IF HasPendingMandate(d) THEN "pending_authorization"
    ELSE IF d.paid THEN d.status
    ELSE IF d.plan = "free" THEN "free" ELSE "trialing"
StatusOf(d) ==
    IF d.status = "suspended" THEN "suspended"
    ELSE IF HasPendingMandate(d) THEN "pending_authorization"
    ELSE IF d.paid /\ d.left # NoEnd THEN StatusWithPeriod(d)
    ELSE IF d.paid THEN d.status
    ELSE IF d.plan = "free" THEN "free" ELSE "trialing"

CanUsePaidFeatures(d) ==
    \/ StatusOf(d) \in {"active", "grace_period"}
    \/ StatusOf(d) = "past_due" /\ d.status = "past_due" /\ AccessLeft(d)

DaysPastDue(d) == IF d.left < 0 THEN -d.left ELSE 0

\* Mutant of Decision: a suspended project is not looked at again.
DecisionOnce(d) ==
    IF ~d.paid THEN "none"
    ELSE IF StatusOf(d) = "past_due" /\ DaysPastDue(d) >= SuspendAfter
    THEN "suspend" ELSE "none"
\* decideProjectPlan, without the notices.
Decision(d) ==
    IF ~d.paid THEN "none"
    ELSE IF StatusOf(d) \in {"past_due", "suspended"}
            /\ DaysPastDue(d) >= DowngradeAfter THEN "downgrade_to_free"
    ELSE IF StatusOf(d) = "past_due" /\ DaysPastDue(d) >= SuspendAfter
    THEN "suspend" ELSE "none"

\* No delivery is being handled.
Idle == [pc |-> "idle", event |-> 0, pending |-> "none"]
NoUser == [pc |-> "idle", mandate |-> 0, plan |-> "none"]
NoAction == [action |-> "none", paid |-> FALSE, failures |-> 0]

Init ==
    /\ profile = FreeProfile
    /\ recorded = {}
    /\ mandates = [m \in MandateIds |-> [state |-> "none", plan |-> "none"]]
    /\ events = <<>> /\ acked = {}
    /\ hook = [h \in Hooks |-> Idle]
    /\ user = [u \in Users |-> NoUser]
    /\ sweep = [s \in Sweepers |-> "none"]
    /\ admin = [a \in Admins |-> NoAction]
    /\ effects = [e \in EventIds |-> 0]
    /\ ops = 0 /\ faults = 0

-----------------------------------------------------------------------------
(* The provider (external) and time                                        *)

Emit(m, kind) == events' = Append(events, [mandate |-> m, kind |-> kind])
Emits(m, state, kind) ==
    /\ Len(events) < MaxEvents
    /\ Emit(m, kind)
    /\ mandates' = [mandates EXCEPT ![m].state = state]
    /\ UNCHANGED <<profile, recorded, acked, calls, effects, ops, faults>>

\* The payer opens the URL the subscribe route answered with, or never does.
Authorize(m) == mandates[m].state = "offered" /\ Emits(m, "authorized", "authorized")
Expire(m) == mandates[m].state = "offered" /\ Emits(m, "ended", "ended")
Revoke(m) == mandates[m].state = "authorized" /\ Emits(m, "ended", "ended")
Charge(m) ==
    /\ mandates[m].state = "authorized"
    /\ \E kind \in {"completed", "error"} : Emits(m, "authorized", kind)

Tick ==
    /\ profile.left # NoEnd /\ profile.left > -DowngradeAfter
    /\ profile' = [profile EXCEPT !.left = @ - 1]
    /\ UNCHANGED <<recorded, provider, calls, effects, ops, faults>>

-----------------------------------------------------------------------------
(* POST /webhook                                                           *)

GotoHook(h, pc) == hook' = [hook EXCEPT ![h].pc = pc]
Acknowledge(h, e) == hook' = [hook EXCEPT ![h] = Idle] /\ acked' = acked \cup {e}

\* A delivery arrives; SubscriptionPayment.findOne knows the event or not.
\* The deliveries are alike: this one takes a free place.
FreeHook(h) ==
    /\ hook[h].pc = "idle"
    /\ h = CHOOSE g \in Hooks : hook[g].pc = "idle"
Deliver(h, e) ==
    /\ FreeHook(h) /\ e \in 1 .. Len(events)
    /\ IF e \in recorded THEN Acknowledge(h, e)
       ELSE /\ hook' = [hook EXCEPT ![h] =
                    [pc |-> "findProject", event |-> e, pending |-> "none"]]
            /\ UNCHANGED acked
    /\ UNCHANGED <<profile, recorded, mandates, events, user, sweep, admin, effects,
                   ops, faults>>

EventOf(h) == events[hook[h].event]

\* The project that has the event's mandate; without one the event is ignored.
FindProject(h) ==
    /\ hook[h].pc = "findProject"
    /\ IF profile.mandate = EventOf(h).mandate
       THEN /\ hook' = [hook EXCEPT ![h].pc = "record", ![h].pending = profile.pending]
            /\ UNCHANGED acked
       ELSE Acknowledge(h, hook[h].event)
    /\ UNCHANGED <<profile, recorded, mandates, events, user, sweep, admin, effects,
                   ops, faults>>

\* Mutant of RecordAgain: event_id is not unique.
RecordAgainAnyway(e) == FALSE
\* SubscriptionPayment.create: the unique event_id admits one record.
RecordAgain(e) == e \in recorded
RecordEvent(h) ==
    /\ hook[h].pc = "record"
    /\ IF RecordAgain(hook[h].event)
       THEN Acknowledge(h, hook[h].event) /\ UNCHANGED recorded
       ELSE /\ GotoHook(h, "apply") /\ UNCHANGED acked
            /\ recorded' = recorded \cup {hook[h].event}
    /\ UNCHANGED <<profile, mandates, events, user, sweep, admin, effects, ops, faults>>

\* What an event makes of the stored profile; pending is what the handler read.
Activated(pending) ==
    [profile EXCEPT
        !.plan = IF pending = "none" THEN Starter ELSE pending,
        !.paid = TRUE, !.left = Period, !.pending = "none",
        !.status = "active", !.failures = 0]
\* Mutant of Paid: a payment adds a period to what is left of the last one.
PaidExtends == [profile EXCEPT !.left = @ + Period, !.status = "active", !.failures = 0]
Paid == [profile EXCEPT !.left = Period, !.status = "active", !.failures = 0]
PastDue == [profile EXCEPT !.status = "past_due", !.failures = @ + 1]
AfterEvent(kind, pending) ==
    CASE kind = "authorized" -> Activated(pending)
      [] kind = "ended" -> FreeProfile
      [] kind = "completed" -> Paid
      [] kind = "error" -> PastDue

Applies(h) ==
    /\ hook[h].pc = "apply"
    /\ profile' = AfterEvent(EventOf(h).kind, hook[h].pending)
    /\ effects' = [effects EXCEPT ![hook[h].event] = @ + 1]
    /\ UNCHANGED <<recorded, mandates, events, user, sweep, admin, ops>>

ApplyEvent(h) == Applies(h) /\ Acknowledge(h, hook[h].event) /\ UNCHANGED faults

-----------------------------------------------------------------------------
(* POST /subscribe and POST /cancel                                        *)

UserCalls(u, next) ==
    /\ user[u].pc = "idle" /\ ops < MaxOps
    /\ ops' = ops + 1
    /\ user' = [user EXCEPT ![u] = next]
    /\ UNCHANGED <<profile, recorded, provider, hook, sweep, admin, effects, faults>>

\* The project is found; what happens next depends on the mandate it has.
Subscribe(u) ==
    \E plan \in Plans :
        UserCalls(u, [pc |-> IF HasPendingMandate(profile) THEN "getMandate"
                             ELSE IF profile.mandate # 0 THEN "cancelOld" ELSE "create",
                      mandate |-> profile.mandate, plan |-> plan])
Cancel(u) ==
    /\ profile.mandate # 0
    /\ UserCalls(u, [pc |-> "cancel", mandate |-> profile.mandate, plan |-> "none"])

GotoUser(u, pc) ==
    user' = [user EXCEPT ![u] =
        IF pc = "idle" THEN NoUser
        ELSE [pc |-> pc, mandate |-> user[u].mandate, plan |-> user[u].plan]]

\* An authorize_url of the pending mandate is the answer; when the provider
\* fails or sends none, the call goes on to a new mandate and leaves that one.
GetMandate(u) ==
    /\ user[u].pc = "getMandate"
    /\ \E pc \in {"idle", "create"} : GotoUser(u, pc)
    /\ UNCHANGED <<profile, recorded, provider, hook, sweep, admin, effects, ops,
                   faults>>

\* The provider cancels a live mandate and sends its event, or refuses.
EndsAtProvider(m) ==
    /\ mandates[m].state \in {"offered", "authorized"} /\ Len(events) < MaxEvents
    /\ mandates' = [mandates EXCEPT ![m].state = "ended"]
    /\ Emit(m, "ended")
\* cancelMandate: its failure, which may hide that the mandate ended, is only
\* logged before an upgrade and is the answer of the cancel route.
CancelMandate(u) ==
    /\ user[u].pc \in {"cancelOld", "cancel"}
    /\ \/ /\ EndsAtProvider(user[u].mandate)
          /\ GotoUser(u, IF user[u].pc = "cancel" THEN "free" ELSE "create")
       \/ /\ EndsAtProvider(user[u].mandate) \/ UNCHANGED <<mandates, events>>
          /\ GotoUser(u, IF user[u].pc = "cancel" THEN "idle" ELSE "create")
    /\ UNCHANGED <<profile, recorded, acked, hook, sweep, admin, effects, ops, faults>>

CreateMandate(u) ==
    /\ user[u].pc = "create"
    /\ \E m \in MandateIds :
        /\ mandates[m].state = "none"
        /\ \A n \in 1 .. (m - 1) : mandates[n].state # "none"
        /\ mandates' = [mandates EXCEPT ![m] = [state |-> "created", plan |-> user[u].plan]]
        /\ user' = [user EXCEPT ![u].pc = "save", ![u].mandate = m]
    /\ UNCHANGED <<profile, recorded, events, acked, hook, sweep, admin, effects, ops,
                   faults>>

\* The project gets the mandate, and the user its URL.
SaveMandate(u) ==
    /\ user[u].pc = "save"
    /\ profile' = [profile EXCEPT !.mandate = user[u].mandate, !.pending = user[u].plan,
                    !.paid = TRUE, !.status = "pending_authorization", !.failures = 0]
    /\ mandates' = [mandates EXCEPT ![user[u].mandate].state = "offered"]
    /\ GotoUser(u, "idle")
    /\ UNCHANGED <<recorded, events, acked, hook, sweep, admin, effects, ops, faults>>

SaveFree(u) ==
    /\ user[u].pc = "free"
    /\ profile' = FreeProfile
    /\ GotoUser(u, "idle")
    /\ UNCHANGED <<recorded, provider, hook, sweep, admin, effects, ops, faults>>

-----------------------------------------------------------------------------
(* runLifecycleSweep and applyAction                                       *)

SweepFinds(s) ==
    /\ sweep[s] = "none" /\ Decision(profile) # "none"
    /\ sweep' = [sweep EXCEPT ![s] = Decision(profile)]
    /\ UNCHANGED <<profile, recorded, provider, hook, user, admin, effects, ops, faults>>

Suspended == [profile EXCEPT !.status = "suspended"]

SweepApplies(s) ==
    /\ sweep[s] # "none"
    /\ profile' = IF sweep[s] = "suspend" THEN Suspended ELSE FreeProfile
    /\ sweep' = [sweep EXCEPT ![s] = "none"]
    /\ UNCHANGED <<recorded, provider, hook, user, admin, effects, ops, faults>>

AdminFinds(a, action) ==
    /\ admin[a].action = "none" /\ ops < MaxOps
    /\ ops' = ops + 1
    /\ admin' = [admin EXCEPT ![a] =
            [action |-> action, paid |-> profile.paid, failures |-> profile.failures]]
    /\ UNCHANGED <<profile, recorded, provider, hook, user, sweep, effects, faults>>

\* The update is computed from the project that was found.
AdminApplies(a) ==
    /\ admin[a].action # "none"
    /\ profile' =
        CASE admin[a].action = "suspend" -> Suspended
          [] admin[a].action = "reactivate" ->
                [profile EXCEPT !.status = IF admin[a].paid THEN "active" ELSE "free"]
          [] admin[a].action = "mark_past_due" ->
                [profile EXCEPT !.status = "past_due", !.failures = admin[a].failures + 1]
          [] admin[a].action = "downgrade_to_free" -> FreeProfile
    /\ admin' = [admin EXCEPT ![a] = NoAction]
    /\ UNCHANGED <<recorded, provider, hook, user, sweep, effects, ops, faults>>

-----------------------------------------------------------------------------
\* A handler stops half way: its process crashes or an operation throws.
HookFails(h) ==
    /\ hook[h].pc # "idle" /\ faults < MaxFaults
    /\ faults' = faults + 1
    /\ hook' = [hook EXCEPT ![h] = Idle]
    /\ UNCHANGED <<profile, recorded, provider, user, sweep, admin, effects, ops>>
\* The project was updated, and the e-mail or the answer fails.
AnswerLost(h) ==
    /\ faults < MaxFaults
    /\ faults' = faults + 1
    /\ Applies(h)
    /\ hook' = [hook EXCEPT ![h] = Idle]
    /\ UNCHANGED acked
UserFails(u) ==
    /\ user[u].pc # "idle" /\ faults < MaxFaults
    /\ faults' = faults + 1
    /\ GotoUser(u, "idle")
    /\ UNCHANGED <<profile, recorded, provider, hook, sweep, admin, effects, ops>>
SweepFails(s) ==
    /\ sweep[s] # "none" /\ faults < MaxFaults
    /\ faults' = faults + 1
    /\ sweep' = [sweep EXCEPT ![s] = "none"]
    /\ UNCHANGED <<profile, recorded, provider, hook, user, admin, effects, ops>>

Webhook(h) ==
    FindProject(h) \/ RecordEvent(h) \/ ApplyEvent(h)
UserStep(u) ==
    \/ GetMandate(u) \/ CancelMandate(u) \/ CreateMandate(u) \/ SaveMandate(u)
    \/ SaveFree(u)
Provider(m) == Authorize(m) \/ Expire(m) \/ Revoke(m) \/ Charge(m)

Next ==
    \/ Tick
    \/ \E m \in MandateIds : Provider(m)
    \/ \E h \in Hooks : Webhook(h) \/ HookFails(h) \/ AnswerLost(h) \/ \E e \in EventIds : Deliver(h, e)
    \/ \E u \in Users : Subscribe(u) \/ Cancel(u) \/ UserStep(u) \/ UserFails(u)
    \/ \E s \in Sweepers : SweepFinds(s) \/ SweepApplies(s) \/ SweepFails(s)
    \/ \E a \in Admins :
        AdminApplies(a) \/ \E action \in AdminActions : AdminFinds(a, action)

Spec == Init /\ [][Next]_vars

\* Handlers run on, the provider delivers an event until it is acknowledged,
\* days pass and the daily job runs.  Nothing is assumed of users, of
\* administrators, or of what the provider does with a mandate.
Fairness ==
    /\ WF_vars(Tick)
    /\ \A h \in Hooks : WF_vars(Webhook(h))
    /\ \A e \in EventIds : WF_vars(e \notin acked /\ \E h \in Hooks : Deliver(h, e))
    /\ \A u \in Users : WF_vars(UserStep(u))
    /\ \A s \in Sweepers : WF_vars(SweepFinds(s)) /\ WF_vars(SweepApplies(s))
    /\ \A a \in Admins : WF_vars(AdminApplies(a))

FairSpec == Spec /\ Fairness

-----------------------------------------------------------------------------
(* Properties                                                              *)

ProfileType ==
    [plan : {"free"} \cup Plans, paid : BOOLEAN, mandate : 0 .. MaxMandates,
     pending : {"none"} \cup Plans, left : Days, failures : Nat,
     status : {"free", "pending_authorization", "active", "past_due", "suspended"}]

TypeOK ==
    /\ profile \in ProfileType
    /\ recorded \in SUBSET EventIds /\ acked \in SUBSET EventIds
    /\ mandates \in [MandateIds ->
            [state : {"none", "created", "offered", "authorized", "ended"},
             plan : {"none"} \cup Plans]]
    /\ events \in Seq([mandate : MandateIds,
                       kind : {"authorized", "ended", "completed", "error"}])
    /\ Len(events) <= MaxEvents
    /\ hook \in [Hooks -> [pc : {"idle", "findProject", "record", "apply"},
                           event : 0 .. MaxEvents, pending : {"none"} \cup Plans]]
    /\ user \in [Users ->
            [pc : {"idle", "getMandate", "cancelOld", "create", "save", "cancel", "free"},
             mandate : 0 .. MaxMandates, plan : {"none"} \cup Plans]]
    /\ sweep \in [Sweepers -> {"none", "suspend", "downgrade_to_free"}]
    /\ admin \in [Admins -> [action : {"none"} \cup AdminActions, paid : BOOLEAN,
                             failures : Nat]]
    /\ effects \in [EventIds -> Nat]
    /\ ops \in Nat /\ faults \in Nat

\* An event changes the project at most once, although deliveries repeat, run
\* side by side and stop half way: no payment extends two periods.
EventAppliedOnce == \A e \in EventIds : effects[e] <= 1

\* The project is marked as paying when the mandate is offered, before anybody
\* authorizes it (index.js 146).  No order of payments, expirations, sweeps and
\* reactivations opens the paid features to it while its plan is the free one.
FeaturesNeedPlan == CanUsePaidFeatures(profile) => profile.plan # "free"

\* The mandate the project holds can still be charged or authorized.
HoldsLiveMandate ==
    profile.mandate # 0 /\ mandates[profile.mandate].state \in {"offered", "authorized"}

\* A plan whose mandate is dead ends: by the mandate's event or, when that is
\* lost, by the sweep; but not while an upgrade waits for its authorization.
UnpaidPlanEnds ==
    profile.plan # "free" /\ ~HoldsLiveMandate /\ ~HasPendingMandate(profile)
        ~> profile.plan = "free" \/ HoldsLiveMandate \/ HasPendingMandate(profile)

\* An authorization of the mandate the project holds is applied, unless the
\* project loses that mandate first.
Unapplied(e) ==
    /\ e <= Len(events) /\ events[e].kind = "authorized"
    /\ events[e].mandate = profile.mandate /\ effects[e] = 0
AuthorizedTakesEffect == \A e \in EventIds : Unapplied(e) ~> ~Unapplied(e)
=============================================================================
