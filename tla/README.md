# A verification of the chatbot server in TLA+

The server is a Node.js application (Express, Mongoose on MongoDB, AMQP, Redis)
that runs as several identical processes. It receives conversations from chat
channels, routes them to bots and human operators, sends template campaigns to
WhatsApp users, meters and bills its projects, and watches its own health. Within
one process everything runs on one event loop, so what interleaves are the
continuations after each `await`; between processes the only shared state is the
database, the cache and the message broker. The models therefore have one rule in
common: **one database or provider operation is one action**, and the plain code
between two awaits belongs to the action before it.

This file holds the inventory of the system, the plan, what is modelled and how it
corresponds to the code, what each TLC run shows and within which bounds, and what
is proved with TLAPS. Paths are relative to `src/`.

## 1. Inventory

### Components that carry the server's own logic

| Component | State it keeps | Operations | Interacts with | Hard behaviour | Correct when |
|---|---|---|---|---|---|
| **WABA template campaigns** `services/wabaTemplateCampaignService.js`, `models/transaction.js` | one `transactions` document per campaign: status, recipients with status and attempts, counters, `campaign.*` (processing lease, recurrence, sending window, next run); per process `activeCampaigns` and timers | create, schedule, process, sweep, defer, pause, resume, cancel, mark reply, create next occurrence | provider (`wabaTemplatePublicationService`), API routes, inbound webhook, other processes through the document | leases that lapse, read–change–save on a shared document, crashes between claim and result, handlers over a running worker | each attempt is sent once, attempts are bounded, outcomes are kept, counters agree, the campaign ends, a series continues once |
| **Operational monitor** `services/operationalMonitorService.js` | singleton health snapshot with lease and generation; channel diagnostics rows of each cycle | run once: acquire, probe, renew, materialize, publish, clean up, release | health probes, database, alerts | slow replicas, partial batches, lost replies | the published cycle is complete, never replaced by an older one |
| **Operational alerts** `services/operationalAlertService.js`, `operationalAlertNotifier.js` | one document per alert key, occurrences, notification time | synchronise with the checks, acknowledge, notify with cooldown | monitor, e-mail and webhooks | two replicas synchronise at once; unique key | one open alert per key, no notification within the cooldown |
| **Billing lifecycle** `services/billingLifecycleService.js`, `billingLifecycleJobService.js`, `pubmodules/billing` | project profile (plan, payment state, failures, grace), transactions as processed-event records | payment webhook, daily sweep (past due, suspend, downgrade), reactivate, plan change | payment provider, quotas | webhook against sweep, duplicated and reordered events, crash after recording an event | an event takes effect once, only a plan opens the paid features, a plan nobody pays for ends |
| **Quotas and usage** `services/QuoteManager.js`, `usageMetering*.js` | counters per project, period and kind in the cache; notification keys | check, increment, notify at checkpoints | message and request events, billing plan | check-then-act, one object for many requests | each project's use is charged to it, a limit is exceeded by less than the calls in flight, the owner is told of the highest checkpoint reached |
| **Request lifecycle** `services/requestService.js` | request document: status, participants, department, attributes; ticket sequence | create, route, reroute, assign, add/remove participant, close, reopen | departments, bots, channels, cache, events | concurrent route, assign and close on one document; reads through a cache | no call drops a participant it did not see, lists that agree stay so, the events add up to the participants |
| **Departments and operators** `services/departmentService.js`, `operatingHoursService.js` | department with its last round-robin operator, availability of project users | choose an operator, bot or group | request lifecycle, routing queue | choice based on a stale availability or last operator | round robin is fair, only available operators |
| **Routing queue** `pubmodules/routing-queue` | number of assigned requests of each agent | count on participants events | request events | events out of order | the count equals the open assigned requests |
| **Event queue** `pubmodules/queue/reconnect.js`, `utils/jobs-worker-queue-manager` | AMQP connection, offline publish queue | publish, consume, acknowledge, reconnect | every queued event listener | reconnection, reordering after it, acknowledgement before handlers end | no accepted event is lost while the process lives |
| **Casezap connector** `pubmodules/casezap` | marks of the messages seen (Redis, or a cache of the process), a lock per contact in each process, the order in the attributes of the conversation | inbound webhook, outbound message, order automation, dashboard messages | request and message services, Chat21, provider | repeated webhooks, marks before the work, requests loaded before they are claimed | a message is stored once, what is answered is stored, a contact has one conversation, an order moves forward and an accepted quote is answered once |
| **Realtime push** `websocket` | topics and subscribers, heartbeats | subscribe, publish, drop | every domain event | subscriber leaves while a publication awaits | no event to a removed subscriber |
| **Chat21 channel** `channels/chat21` | none of its own | forward events, webhook back | requests, messages | order of group and participant updates | groups agree with participants |
| **Messages** `services/messageService.js` | message documents | create, change status | channels, bots, cache | concurrent status changes | status only moves forward |
| **Scheduled tasks** `services/Scheduler.js`, `pubmodules/scheduler` | timers | close unattended requests | request lifecycle | closes a request that has just been answered | only unattended requests are closed |
| **Caches and sequences** `utils/TdCache.js`, `services/cacheEnabler.js`, `pubmodules/cache`, `utils/autoIncrement.js` | cached queries; counters | get, invalidate by event; increment | request lifecycle, projects | stale reads after an update elsewhere | a read after an acknowledged update is not older |

### Components that are mostly data, I/O or configuration

WhatsApp connector and template publication (translation of messages and provider
calls; the reply they report is a handler of the campaign model), operational
health and metrics (read-only probes), bots and AI, triggers, notifications,
privacy and retention (one nightly job), schema migrations (before the server
serves), leads, users and projects, files and data tables, activities and
analytics, HTTP API and middleware. They are listed with the reason in
`PROJECT.json`, together with the hazards of all components, each at the line
where it bites.

## 2. Plan

| Order | Modules | What they state | State |
|---|---|---|---|
| 1 | `WabaCampaign`, abstract `CampaignDelivery`, `WabaCampaignProofs` | delivery of a campaign under leases, handlers, crashes | done |
| 2 | `OperationalMonitor`, `OperationalMonitorProofs` | generations and cycles of the health monitor | done |
| 3 | `BillingLifecycle` | repeated, lost and reordered payment events against users, the sweep and administrators | done |
| 4 | `RequestLifecycle`, with the concierge, the cache and the routing queue's counts | add, remove, set, route, assign, close and reopen of one conversation by several callers | done |
| 5 | `VictorOrder` | an order claimed step by step from requests loaded earlier | done |
| 6 | `CasezapInbound` | repeated webhooks, the lock, failures and restarts | done |
| 7 | `QuoteManager`, `QuoteManagerProofs` | counters, limits and checkpoint mails of all projects | done |
| 8 | `VictorOrderProofs` | the safety of the order for all messages and callers | done |
| 9 | `BillingLifecycleProofs`, `CasezapInboundProofs`, `RequestLifecycleProofs` | an event takes effect once and only a plan opens the paid features; one conversation per process, answered messages are kept; lists that agree stay so, the events add up | done |
| 10 | `CampaignDeliveryProofs`, and leases and counters in `WabaCampaignProofs` | the refinement; what holds while leases outlive the work | done |
| 11 | alerts, event queue, calendar of campaigns | see the hazards without a property | open |

Every safety property and every action property of the passing runs has a theorem
(section 11). Open among the proofs: a bound on how far the number of an agent may be
off once counts overlap (that it may be off is the finding of `requests_count`), and
what still holds of a campaign whose replies write old leases back; both first need a
property that says it.

## 3. `WabaCampaign`: one template campaign

### What the state stands for

| Variables | Code |
|---|---|
| `status`, `rcp`, `counts`, `nextRunAt` | the stored document: `status`, `recipients[]` (`st`, `att`, `replied`), the counters, `campaign.nextRunAt` as *null*, *future* or *past* |
| `ver` | Mongoose's `__v` |
| `lease` | `campaign.processing` (`owner`, and whether `lockUntil` is still ahead) |
| `series` | `campaign.recurrence`: *none*, *open*, *next_scheduled*, *finished* |
| `stale` | recipients whose `sending` is older than the stale limit |
| `inWindow` | the clock is inside `campaign.sendingWindow` |
| `pc[p]` | the next database or provider operation of the worker of process p; `"idle"` is "not in `activeCampaigns`" |
| `mem[p]`, `idx[p]`, `result[p]` | the local variables of `processCampaign`: the loaded document, the claimed index, the provider's answer |
| `inc[p]` | makes `PROCESS_OWNER` (a fresh uuid of each process start) |
| `scheduled[p]` | a `setImmediate` or `setTimeout` of `scheduleCampaign` is pending |
| `call[h]` | an API or webhook handler between its `findOne` and its `save` |
| `calls`, `successors` | what left the system: provider calls for each recipient and attempt, next occurrences created |

### Actions

Every `await` of `processCampaign` (lines 1818–2009) is a label: `AcquireLease`,
`EnsureTop`, `Load`, then by the tests of the loop `SaveDefer`, `SaveQueued` /
`EnsureQueued`, `SaveRecover` / `EnsureRecover`, `SaveClaim` / `EnsureClaim` /
`DispatchResult` / `EnsureResult` / `Reload` / `SaveResult` / `EnsureNext` /
`DelayOver`, or `SaveRunning`, or `SaveFinal` with `SaveNextOccurrence` or
`SeriesOver` and `SaveParent`; and the `finally` block, `ReleaseLease`.
`AfterLoad`, `AfterWindow` and `ClaimOrFinish` are the tests between two awaits, in
the order of the code. Every `ensureProcessingLease` is its own step and takes the
worker to `ReleaseLease` when the document names another owner; it succeeds on a
lease that has run out but was not taken, as the code's filter does.

`ScheduleCampaign` and `Sweep` start workers, through the `activeCampaigns` guard
(`StartWorker`). A handler is a load with its guard (`PauseLoad`, `ResumeLoad`,
`CancelLoad`, `ReplyLoad`) and a save (`PauseSave`, ...). `Heartbeat` renews while
the worker waits. Time is `LeaseExpires`, `SendingGrowsStale`, `RunTimeComes` and
`WindowTurns`; faults are `DbError` (an operation throws: the `finally` block runs)
and `Crash` (nothing runs, memory and timers are gone).

### External: Mongoose 5.13 and the provider

`save()` writes modified paths only. A save that modifies the `recipients` array
by index filters on the loaded `__v` and increments it, and throws a
`VersionError` when another one came first (`Current`, `VersionError`,
`HandlerFails`); every other save is last-writer-wins. `campaign` is a `Mixed`
path: `markModified('campaign')` writes all of it back, the lease in it as it was
loaded (`WriteCampaign`). The counters are separate paths, written when they
differ from the loaded ones (`MergedCounts`). The provider accepts or fails a
call; a call that throws is a failure, as in the code.

### What is left out

The preflight and normalisation in `createCampaign`; dry runs (a *ready* recipient
counts as sent, like *accepted*); delivery callbacks of the provider; listings and
metrics; the run of the next occurrence, which is a campaign of its own. The sweep's
find and its call of `processCampaign` are one action: `processCampaign` reads
nothing of what was found but the id, takes the lease and loads the document again.
Clock skew between processes is covered by leases that may run out under their
owner (`MayLapse`). Delays of the recovery (`stale`) are arbitrary, not minutes.

### The abstract specification

`CampaignDelivery` is what the campaign promises of each recipient: it waits, is
claimed for one counted attempt at a time, waits again only while attempts are
left, is settled for good, and the provider is called at most once for each counted
attempt. `ImplementsDelivery` is `CampaignDelivery!Spec` under the mapping that
forgets everything but the phase and the attempts of each recipient and the set of
attempts called.

## 4. `OperationalMonitor`: cycles of the health monitor

`lease`, `generation` and `active` are the singleton snapshot document
(`monitorLease`, `diagnosticGeneration`, and the cycle named by the published
payload with the number of its batches); `rows` are the channel diagnostics. Each
process has the locals of `runOnce`. The actions are the awaits of `runOnce`
(lines 190–292): `AcquireLease`, `CollectInput`, `RenewLease`, `WriteBatch` for
each `bulkWrite`, `PersistSnapshot`, `Cleanup`, and `ReleaseLease` in the `finally`
block. `Start` is the interval timer with its `state.running` guard.

The code compares `expiresAt` with a `new Date()` taken before the update is sent,
so an owner may renew or publish with a lease that has just run out and another
replica may be refused one that has: the guards `LeaseFree`/`LeaseTaken` and
`OwnsLease`/`LeaseLost` overlap at expiry. `Fail` is an operation that throws and was
not applied, `LostReply` one that was applied and whose answer was lost, `Crash` a
process that stops and restarts with another owner. A cycle id is random in the
code and is (process, start, run) in the model: distinct for distinct runs.
The manual connection test, the counters of `status()` and the aggregation that
reads a page are not modelled; `stop()` is called by tests only.

## 5. `BillingLifecycle`: the subscription of one project

`profile` is the part of `project.profile` that decides (plan, `paid` for the type
*payment*, mandate, pending plan, days left of the period, failures, status).
`recorded` are the stored event records, `mandates`, `events` and `acked` the payment
provider, `hook`, `user`, `sweep` and `admin` the calls in flight. `effects` counts
what the events did, for the properties.

The webhook (`pubmodules/billing/index.js` 318–475) is `Deliver` (look for the record
of the event), `FindProject`, `RecordEvent` (the upsert) and `ApplyEvent` with
`AfterEvent` for the four kinds of events; `RecordAgain` is the test that answers a
repeated event, `AnswerLost` an update whose e-mail or answer fails. `Subscribe`,
`GetMandate`, `CancelMandate`, `CreateMandate`, `SaveMandate` and `Cancel`, `SaveFree`
are the awaits of the user's routes. A call of the provider may fail: `getMandate` that
throws leads to a new mandate, a failing `cancelMandate` is logged before an upgrade and
is the answer of the cancel route, and what failed may have been done. So a project may
leave live mandates behind; `HoldsLiveMandate` is about the one it holds. `SweepFinds`
and `AdminFinds` decide on the project they found, `SweepApplies` and `AdminApplies`
write by id; an administrator suspends, reactivates, marks past due or downgrades. The
provider repeats an event until it is acknowledged, in any order with others.

`StatusOf` and `CanUsePaidFeatures` are the access check of the lifecycle service
(`summarizeProject`). `models/project.js` 206–208 has another one, which is not modelled:
it compares a stored `subEnd`, the end of the period plus three days written in
`pubmodules/billing/index.js` 50–51, where the service adds `BILLING_GRACE_DAYS` to the
end of the period, so with another value of the variable the two disagree by design.
The project is marked as paying when a mandate is *offered* (`SaveMandate`), and events,
sweeps and administrators write `status` without looking at the plan. That the two
together never open the paid features to the free plan is `FeaturesNeedPlan`; it rests
on the order of the tests in `StatusOf`. The failure count is carried along and decides
nothing in the code.

The sweep and its job default to a dry run
(`BILLING_LIFECYCLE_DRY_RUN`, `BILLING_LIFECYCLE_JOB_DRY_RUN`): the model is the
server with both turned off. Left out: the administrator's edit of the plan itself
(`routes/sadmin.js` 1476–1511).

## 6. `RequestLifecycle`: one conversation

`request` is the stored document, `version` Mongoose's `__v`; `pending` is a
`workingStatus` of *pending*, which only a PATCH writes; `cache` the entry of the
request cache that `route` reads; `call` the calls in flight with the document each
loaded.

`Init` is what `create` stores (`requestService.js` 559–665): participants named by the
caller or the operator the department chooses, of which only the first is in the list of
agents or of bots, and none of those of a conversation that waits for its first message
(*temp*). So a conversation may start with lists that do not agree with its participants,
and a removal by `splice(indexOf(m), 1)` then takes another agent out of the list
(`Spliced`). `ListsStayAligned` says what remains true: no interleaving takes the
agreement away from a conversation that has it.

A call loads, saves and announces in steps of its own: `AddLoads`, `AddSaves`,
`AddAnnounces`, and so on for removal, setting of the lists, assignment, route, close
and reopen. `Only` takes the agents, or the bots, out of a list, as a recursive
function. `Saved` is what `save()` does: only fields that differ from the loaded ones
are written, arrays only over the loaded version (`MaySave`); `Pushed` is an array
`$push`, which the addition uses. `Patches` is a PATCH with a `workingStatus`. The events
(`emitParticipantsEvents`) reach the concierge, which removes the bot by a call of its
own, and the routing queue, which counts the agent's conversations (`RecountReads`, with
the filters of `draft` and `workingStatus`) and writes the number (`RecountWrites`) in
two steps. `told` adds up what the events said.

`twice` and `conflicted` record what the code does not exclude: two additions of one
member load before either saves; a save meets another version and is refused.
`EventsTellParticipants` excepts the first, `AgentTakesOver` both: with a refused save the
bot does stay beside the agent. Left out: a `populate` that fails after a save (1707–1709,
1822–1824, 1972–1975 and in PATCH), after which the events of that change are never sent,
so `EventsTellParticipants` is about calls that do not fail there; and a PATCH of
`status`.

## 7. `VictorOrder`: an order in a conversation

`attributes` is `request.attributes` as far as the order reads it; `call` holds the
step, the message and `Loaded`, what the handler's copy of the request says.
`handleInboundMessage` decides on the copy (`CustomerClaims`, `ConsidersQuote`) and
every change is one `findOneAndUpdate` whose query is a guard (`MayOrder`, `MayQuote`,
`MayGiveAddress`, `MayReceive`, `MayPrompt`, `ShopeeFree`): `Claims` is *the query
finds the request, or the call is over*. What follows a claim are `Notifies`,
`ClaimsAutomation`, `ClaimsAddressPrompt` and `Sends`. A message is a text with some
fields of an address, a proof of payment or a quote of Victor; reading amounts, keys
and addresses out of the text is abstracted to these sets. Quotes come from the phone
(the webhook) or the dashboard (`resumeVictorAutomationFromDashboardMessage`).

`sent.shopee` counts who went on with the flow after `claimCaseZapShopeeFlow`; a free
text of Victor that mentions the freight later is his own affair. Left out: the origin
of the customer and the handoff to a person, which are claims of the same form; the
reading of the receipt, whose outcome only changes the notification; and saves of the
whole `attributes` by other parts of the server (`updateAttributesByRequestId`), which
can bring an earlier order back. The properties are about an order that no such save
meets.

A notification of the team (`Notify`) may reach nobody: `notifyVictorNumbers` passes over
sends that return false or throw, and the handler goes on. So a claim may stay untold
although nothing stopped, and no property says that it is told; `AcceptedQuoteIsAnswered`
says that the customer is answered all the same. `sent` counts messages given to
`messageService` or to the provider, which may still refuse them.

## 8. `CasezapInbound`: the webhook of one contact

`marks` are the Redis keys, `localMarks` the cache a process falls back to, `lock` the
promise chain of each process, its head the operation that runs. A call goes through
`MarkRedis` or `MarkLocal`, `Check` (`hasStoredCaseZapMessage`, media and lead),
`FindRequest` and `CreateRequest` under the lock, `EnsureGroup` for a new
conversation, `SendMessage` and `SyncLastMessage`. The last one answers the call whether
or not the updates of the last message (`connector.js` 326–419) succeed: they catch every
error and nobody repeats them, so what a conversation shows last may be missing or the
older of two messages, and is left out of the model. `HandlerFails` is a step that
throws (the answer is 500), `Restart` a process that stops with all its calls, marks
and locks. The provider repeats a delivery until it is answered with 200. A mark
expires only when no call of its message is in flight: the key lives for an hour.
Conversations are closed by agents, and not reopened in the model: a reopened one
beside a new one is outside the connector.

`acked` are the messages answered with 200, which the provider does not send again;
`AnsweredIsStored` says that such an answer loses nothing unless a handler of the message
itself failed: then the mark outlives it and a repeat is answered as a duplicate, which
is the hazard at line 1013.

## 9. `QuoteManager`: the use of all projects

A `QuoteManager` serves all projects and keeps the project of the call at hand in
`this.project` (`project`). A process has two, that of `app.js` 272 and that of
`requestService.js` 29–35; the model is of the calls of one, and since each makes its key
in the step that sets the project, calls of another differ in nothing but Redis. `count`
and `notified` are Redis; `call` holds the step of each call, `of` whose use it is about
and `key` the key it made. A checked use (a conversation, `requestService.js` 603–640) is
`Asks`, `MakesCheckKey`, `ReadsQuote` and, when it is let through, `MakesKey` and
`Increments`; a use that has happened (tokens, minutes) is charged without a check
(`Reports`), and so are the mails of triggers (`utils/sendEmailUtil.js` 27), although
`checkQuote` knows their limit. After the charge `sendEmailIfQuotaExceeded` is
`MakesAlertKey`, `ReadsLevel`, `ReadsNotified`, `ReadsFigures`, `Mails`, `Marks`. Between
two of them other calls run. `Key` takes the project that the same step has set
(`project'`), as `generateKey` runs before the next await. `Fails` is a promise that Redis
rejects. `charged` and `mails` count what happened, for the properties.

`OverrunBounded` is about conversations, the kind that is checked (`Checked`), and nothing
bounds the mails. It is tight: the run reaches it, and an inclusive test of the limit would
pass it. Two mails of one checkpoint are
possible, because the key is read and set by two calls, and not excluded. Left out:
the period in the key and changes of the plan, so `invalidateCheckpointKeys` too; the
figures in the mail, which `getAllQuotes` reads with awaits between key and key and
which can be those of another project; counters of messages, which nobody checks.

## 10. What the runs show

| Run | Instance | Shows |
|---|---|---|
| `waba_delivery` | 2 processes, 1 recipient, 2 attempts, leases may lapse at any time, 1 handler call of any kind, 1 crash or error, recurring | attempts are bounded and each is sent at most once, a finished campaign has no recipient left, and the campaign implements `CampaignDelivery` |
| `waba_handlers` | 2 processes, 2 recipients, a sending window, 3 calls that pause, resume or cancel, 2 in flight, leases outlive the work | one process works at a time; stored counters of a finished campaign are those of its recipients, although saves write single counters; an accepted template stays accepted |
| `waba_settles` | 2 processes, 2 recipients, recurring, 2 crashes or errors, fair | one process works at a time; at most one next occurrence; every pending recipient of a running campaign gets an outcome |
| `monitor_cycles` | 2 replicas, 2 runs each, 0 to 2 batches, 2 faults, leases may run out at any time | the published cycle is complete and never older than the one before; a generation belongs to one cycle |
| `billing` | 2 deliveries at a time, 2 events, 1 user, 1 sweep, 1 administrator with all his actions, 2 mandates, failing calls of the provider, 1 handler that stops | an event counts once; the free plan never has paid features; a plan whose mandate is dead ends |
| `requests` | 3 calls, 2 at a time, 2 agents and the department's bot, every way to create the conversation with up to 1 given participant | no participant is dropped unseen; lists that agree stay so; events add up; the bot leaves when an agent joins |
| `victor` | 5 deliveries, 2 handled at a time: 2 texts, a proof, 2 quotes, a bot prompt, notifications that reach nobody, 1 handler that stops | every message counts once and the team hears of nothing twice, one quote is accepted, the freight goes out once, no receipt before the address, the order moves forward, an accepted quote is answered |
| `casezap` | 2 replicas, 2 messages, 4 deliveries with 2 handled at a time, 1 failure or restart, 1 failing call of Redis, 1 close | a message is stored once, a process opens one conversation, an answered message is stored or about to be, a failure takes no other message with it |
| `quotas` | 2 projects, one of them without a limit of conversations, 4 calls with 3 at a time, 1 failing call of Redis | each counter holds its project's use; the limit of conversations is exceeded by less than the calls in flight; the owner is told of the highest checkpoint and of none that was not reached |

Three runs end in a counterexample. Each one checks a statement of the
repository against the code and belongs to a finding in `PROJECT.json`:

| Run | Counterexample |
|---|---|
| `waba_reply_erases_lease` | a reply, loaded before another process took the lease, writes the old `campaign` object back; the lease is gone and a second worker starts |
| `billing_authorization_lost` | the webhook stores the record of an event and stops before it updates the project; every later delivery is a duplicate and the authorized plan never starts. Without the fault the property holds |
| `requests_count` | two counts of one agent overlap and the older one is written last: nothing is left to count and the stored number is not the number `listenerQueued.js` 46–47 calls exact |

Further behaviour the models contain, without a run of its own: a pause loaded before a
completion, saved after it and resumed completes a campaign twice; a claim of a worker
writes `running` over a pause, and a pause over a cancel; a campaign that is `queued`, or
`running` without a pending recipient, is not found by the sweep after a restart; a
removal loaded before a close and saved after it opens the conversation again, and no
count follows; the second message of a new contact finds the conversation and is sent
before its creator has made the chat group. They are listed with the hazards.

Seen while modelling, and harmless or a matter of one step: the deferred
`nextRunAt` is set on a `Mixed` path without `markModified` and does not reach the
store, so the next sweep finds the campaign again and defers it again; a process
that stops between the final save and the save of the next occurrence ends the
series; when leases lapse, a late failed answer replaces an accepted one (this is
why `AcceptedIsKept` is checked with leases that outlive the work).

A reply has a longer consequence, which the proof of `AcceptedIsKept` brought out: with
three recipients, two replies and two faults TLC finds 51 states in which leases outlive
the work and an accepted template still turns into a failed one. An operation fails,
and so does the release after it; the lease runs out. A reply loads that lease, the
campaign is taken up again, and the reply writes the lease that has run out over the
new one. A second worker may then start, and after the second reply of this kind it
recovers and sends again the recipient that the first one is sending. It records
*accepted*, and the first worker records *failed* over it. The instance is too large for
a run of its own. So replies are left out of `waba_handlers` and `waba_settles`, they have
the run `waba_reply_erases_lease`, and the theorems about leases and counters have
"no reply" among their hypotheses. The properties of `waba_delivery` hold with replies.

### Bounds and why they are enough

Two processes are what lease, version and sweep protocols distinguish: the holder
and another. `WabaCampaign` picks recipients one by one and its tests ask whether
*some* or *all* recipients are pending; with one recipient every protocol step
exists, with two there is a claimed one beside a waiting one, which the counters,
`SaveRunning` and the recovery need. Two attempts have a first, a retry and the
limit. `MaxFaults` and `MaxOps` bound crashes, errors and handler calls only: one
fault leaves a claim, a lease or a half-finished completion behind, and two let the
recovery of the first be interrupted. `MaxRuns` bounds the monitor, whose generation
grows for ever: two runs of two replicas give four generations, and a slow replica
may have three of them pass. What these bounds cut off, the theorems cover for the
properties they state.

No run has a crash and a cancel of a campaign together while leases outlive the work:
`waba_delivery` has both with leases that lapse, and for the properties of the other two
runs the combination is covered by their theorems, which allow every handler but the
reply and any number of faults.

The newer modules name their bounds in the same way. `MaxOps`, `MaxDeliveries` and
`MaxEvents` bound what comes from outside; two calls in flight are what a read and a write
that are apart can tell, and every bound lets a third call find what two left. In
`RequestLifecycle` two agents and a bot are the lists that matter: the one who is added,
the one who is removed, the one who leaves by the concierge; lists given by a caller have
at most one member (`ListsToSet`, and `MaxGiven` for those of a creation). In
`BillingLifecycle` days are counted in periods of one and the thresholds keep their order;
past `DowngradeAfter` a day more changes nothing. In `VictorOrder` two texts hold half of
the address each, so an address takes two messages, a repeat or two at once; the free
quote needs order, quote, two texts and a proof, which are the five deliveries. In
`CasezapInbound` two messages and four deliveries let one message be handled, lost to a
restart and delivered again beside the other. In `QuoteManager` the limit of one
conversation and three callers reach three conversations, the most the bound allows;
reports of one and three units reach and jump over checkpoints.

### Reductions

Processes and handlers are interchangeable in the safety runs (`SYMMETRY`); the
runs with fairness use neither symmetry nor a view. `View` of `MCWabaCampaign`
identifies states with the same future: of a version only whether a loaded document
is current matters, because versions are only compared for equality with the stored
one and a document once old stays old; and of a loaded document only the fields that
its pending operations still read, listed by label. No property of the runs that
use it looks at anything else.

### Fairness

`FairSpec` assumes weak fairness of the worker's steps (the event loop runs what is
ready; the database and the provider answer, or time out and throw), of
`ScheduleCampaign` and `Sweep` (timers fire; the sweep's interval is set in
`app.js`), of the saves of handlers in flight, and of the clock: leases expire,
sending recipients become stale, run times come. Nothing is assumed of API callers,
faults, the heartbeat or the sending window. `PendingIsSettled` has no window: a
window that never opens again rightly stops a campaign.

In the newer modules handlers that have begun go on (the event loop runs what is ready
and the database answers). In `RequestLifecycle` this is one condition for all calls and
the concierge: as long as they have something to do, some of it is done, whichever. The
counts need no fairness, no liveness property is about them. `Tick`, the sweep and the
delivery of an event until it is acknowledged are fair in `BillingLifecycle`: the job is a
daily timer and redelivery is what the provider does. Nothing is assumed of users,
administrators, agents, faults, expiring marks, the chat engine or what the provider
decides. `AcceptedQuoteIsAnswered` and `StoredUnlessItFails` exempt what a handler that
stopped left behind, because no code looks for it; a notification of the team that fails
is not exempted.

Deadlock is not an error in these runs: a settled campaign has nothing left to do,
and the others stop at the bound of their calls.

## 11. What is proved

### `WabaCampaignProofs`

The first part holds under `ConstantsAssumption` only (positive numbers of recipients
and attempts, natural bounds): for every set of processes and handlers, every number of
recipients and attempts, with leases that lapse at will, every handler and every fault,

- `TypeCorrect`: `Spec => []TypeOK`, in particular attempts never pass `MaxAttempts`;
- `AttemptsSentOnce`: `Spec => []EachAttemptSentOnce`;
- `FinishedSettled`: `Spec => []FinishedHasNoPending`.

None of the three is inductive alone. `Invariant` proves `IInv`, which adds:

- `DocsOK`: a document in memory is older than the stored one, or has the same
  recipients; and what was settled in it is settled in the store. This is what the
  version filter gives, and what makes a final status computed from an old document
  sound: *all done* then implies *all done* now.
- `AttemptsLeft`: a recipient that may be claimed has an attempt left, because
  recovery fails the others. It bounds the claim, which itself tests nothing.
- `LabelsOK`: what the position of a worker says of its locals (the claim has a
  candidate, the final save saw only settled recipients).
- `ClaimsOK`: a claim that is saved and not yet sent holds a counted attempt the
  provider has not seen and no other worker holds. The version filter gives each
  attempt number to one worker, and the call follows the claim at once.

The argument never uses the lease: leases save work, the versioned claim is what
keeps an attempt from being sent twice.

The second part has two hypotheses: no lease runs out under its worker (`~MayLapse`:
the heartbeat comes in time) and no reply is marked (`"reply" \notin Ops`). Neither can
be dropped: without the first TLC finds two workers at once, without the second the
counterexamples of section 10. Pauses, resumes, cancels, errors and crashes stay.

- `LeasesExclude`: one process at a time works on the campaign;
- `CountsAgreed`: the stored counters of a finished campaign are those of its recipients;
- `AcceptedStays`: `AcceptedIsKept`, an accepted template stays accepted;
- `OneNext`: at most one next occurrence, when the only handler is the cancel. A
  campaign that is resumed after its end finishes, and is followed, twice.

`HeldInvariant` proves `HeldInv`, which adds to `IInv`:

- `LeasesOK`: the stored lease, and the copy that a worker with a document would write
  back, are those of the worker past its acquisition. The lemma `OnlyWorker` follows: while
  one worker is past its acquisition, no other one writes anything.
- `AnswersOK`: a recipient whose answer is awaited is `sending` or was canceled, so no
  answer is recorded over another one.
- `CountsOK`: which of the copies that will be saved have right counters. A save writes
  only the counters that differ from those it loaded, so the stored ones mix what two
  saves wrote. `WorkerCounts` says that a worker's copy is the stored one, or was
  followed by a cancel, which counts all recipients anew; `CallCounts` says that a
  handler's copy of the current version has the sent right, and the failures right or
  untouched.
- `NextsOK`, for `OneNext`: a campaign that is over has a final status, and every worker
  is at a label that leads out of it.

TLC checked these parts as invariants of the runs' instances before.

### `CampaignDeliveryProofs`

`DeliveryImplemented`: `Spec => ImplementsDelivery`, for all values of the constants,
lapsing leases and replies included. Initial states map to initial states, and every
step is a claim, a call, a settlement or a stutter (`DeliveryStep`, from a lemma for
each kind of step that changes recipients or calls and `Stutters` for the others). It
needs `IInv`: a save is one step of `CampaignDelivery` because the copy it was made from
is the stored one (`DocsOK`), and a call is allowed because its claim was counted and
not called for (`ClaimsOK`).

### `OperationalMonitorProofs`

Under `MonitorAssumption` (natural bounds), for all numbers of replicas, batches,
runs and faults: `TypeCorrect`, `CompleteCycle` (`ActiveCycleComplete`),
`CyclesApart` (`GenerationsAreCycles`) and the action property `PublishedGrows`
(`PublishedGenerationGrows`). The invariant adds that runs under way have
generations of their own and the owner of the lease the newest (`GenerationsOK`),
that nothing published is newer than the counter and a cleanup follows its
publication (`PublishedOK`), that rows of a cycle carry its generation (`RowsOK`),
that a cycle is new until its run writes (`CyclesOK`) and that the owner's batches
written so far are all there (`WrittenOK`): a cleanup deletes generations below
a published one, so it may delete the rows of a slow run, but not of one that still
owns the lease. The steps are grouped by what they do to the snapshot and the rows
(`LeaseStep`, `EffectStep`) so that each part looks at four effects and not at
every action.

### `VictorOrderProofs`

For all sets of messages, fields of an address and callers, any number of deliveries
and stops: `TypeCorrect`, `MessagesCountOnce`, `OneQuote`, `FreightOnce`,
`AddressFirst` and the action property `MovesForward`. The properties alone are not
inductive: what a call does after its claim depends on what it claimed earlier. `IInv`
adds, for calls between claim and message, what the claim has left in the stored
attributes: `OrdersOK` (who is about to tell a message has entered it into the ids,
alone), `NewsOK` (so does who is about to tell of the complete address or the receipt),
`QuotesOK` (before a quote nobody tells, sends or has told one; afterwards one
call does), `FreightOK` (the flags of freight and prompt stand for one sender each),
`AddressOK` (what a call read of the address was given and is not taken back) and
`KindsOK` (a call is at the steps of its kind of message). The lemmas say per action
what a claim sets (`Claiming`, `CustomerClaimed`, `QuoteClaimed`), and every part of
`IInv` has one lemma with a step per action. TLC checked `IInv` before.

### `QuoteManagerProofs`

For all projects, kinds of use, limits and callers: `TypeCorrect`, `ChargedRight`,
`BoundedOverrun` and `OwnerTold`. `KeysOK` says that a call which waits for Redis holds
its own key, which is what makes the shared `this.project` harmless. For the bound
`Owed` names the calls that were let through and are not charged yet: what is charged
and what is owed stay together below limit plus callers. A call is let through when the
counter is below the limit, and at most all callers owe; a charge moves one from what is
owed to what is charged. `Sizes` and the library's facts on cardinalities carry the
arithmetic. `OwnerIsTold` is about calls that are over, so `MailInv` says for the states
in between who will still write: what was written of, or will be, was reached
(`ReachedOK`), a note follows its mail (`NotesOK`), and, as long as Redis answers, the
checkpoint that a counter has reached was told of or a call on its way from the charge
to the mail will tell it (`ToldOK`). The assumption is `QuoteAssumption`: finitely many
callers, amounts in `Nat`, kinds that are not both checked and reported.

### `BillingLifecycleProofs`

For any deliveries, users, sweeping processes, administrators, mandates, plans and
periods, all failures of the provider included: `TypeCorrect`, `AppliedOnce`
(`EventAppliedOnce`) and `FeaturesPlanned` (`FeaturesNeedPlan`). `OnceInv` is what makes
the first one inductive: a delivery that is about to change the profile has recorded its
event itself and nobody applied it (`AppliesFirst`), it is alone with its event
(`AppliesAlone`), and what was applied stays recorded (`EffectsRecorded`). The record's
unique index is the whole argument; that two deliveries looked for the record before
does not matter. `HooksOK` and `UsersOK` say that a call holds an event, or a mandate and
a plan, that exists. For `FeaturesPlanned` the strengthening is `WaitsForMandate`: a
project on the free plan that is marked as paying has a pending plan and a mandate,
whatever payments, errors, sweeps and administrators have written to its status since;
`StatusOf` tests this before it looks at the period.

### `CasezapInboundProofs`

For any processes, messages and calls, with failures, restarts, a Redis that fails and
marks that expire: `TypeCorrect`, `MessageStoredOnce` (`StoredOnce`), `OneConversation`
(`OneOpenPerProcess`) and `AnsweredStored` (`AnsweredIsStored`). The parts of `IInv`:

- `MarksOK`, for `StoredOnce`: while Redis answers, calls past the mark hold one message
  each, and a call that can still store finds its message not stored;
- `LocksOK` and `CreatesOK`, for `OneOpenPerProcess`: the queue of a process holds its calls
  at the lock, once each, and the one that creates is at its head and found nothing
  open. A call that fails or a process that restarts leaves the queue whole;
- `KeptOK`, for `AnsweredIsStored`: a message that is marked, in Redis or in a process, or
  answered is stored, or is held by a call past the mark, or one of its handlers failed.
  It holds although Redis may fail after it has set a mark;
- `BoundOK`: a delivery opens one conversation at most, which types `requests`.

### `RequestLifecycleProofs`

For any agents, bots, callers, lists and ways to create the conversation: `TypeCorrect`,
`EventsTold` (`EventsTellParticipants`) and the action properties `ListsKept`
(`ListsStayAligned`) and `NothingBlind` (`NoBlindRemoval`). The parts of `IInv`:

- `CallsOK`: what a call holds, by its operation; a removal has found its member;
- `VersionsOK`: a document of the stored version has the stored arrays; this is what
  makes a save of arrays a change of what is stored, and a cached document a
  harmless one, which a save refuses when it is old;
- `OnceOK`: nobody is in the list twice, unless a member was added twice (`twice`);
- `TellsOK`: what was told, plus the joins less the leaves that calls have stored and
  will announce, are the participants. It is proved for each member with the
  cardinality of two sets of calls.

`ListsKept` needs `VersionsOK`: a save of arrays happens over the loaded version, so a step
from lists that agree works on a document whose lists agree, however old the call is.

Calls are grouped by what a step does to the document and the announcements (`Loading`,
`Storing`, `Adding`, `Closing`, `Telling`, `Counting` and others; lemma `Kinds`), so that
each part looks at these and not at every action.

The operators on lists are recursive functions. The library's induction theorems take an
operator as a parameter, so induction on the length of a list is done by hand: the set of
lengths for which a statement fails has a least element, which is neither 0 nor a
successor.

### Only model-checked

Liveness (`PendingIsSettled`, `UnpaidPlanEnds`, `AgentTakesOver`,
`AcceptedQuoteIsAnswered`, `StoredUnlessItFails`), which is outside what the prover does;
and the three counterexamples, which are about single behaviours. Everything else that a
passing run checks is a theorem, four of them (those of the second part of
`WabaCampaignProofs`) under the hypotheses that their runs have as well. The `ASSUME`d
properties of constants are evaluated by TLC on every run.

### Not modelled

Alerts, the event queue and the calendar of campaigns have hazards of their
own (`PROJECT.json`) and no module yet. Of the modelled parts the components say what
is left out: the periods and figures of quotas, for example, or the reports of usage,
which read and add up. Realtime push, the Chat21 channel, messages and the scheduler
pass on what others decide; they are part of the models where those depend on them
(the chat group in `CasezapInbound`, the events in `RequestLifecycle`). Of the rest,
most is formatting, translation, aggregation or calls of services outside the server:
e-mails, analytics, knowledge bases, the translation of WhatsApp messages,
authentication. There is little control in it to check, and the map names none of its
lines.

## 12. Running

    tlc -workers 2 -config WabaCampaignSafety.cfg MCWabaCampaign
    tlc -workers 2 -config OperationalMonitor.cfg MCOperationalMonitor
    tlc -workers 2 -config BillingLifecycle.cfg MCBillingLifecycle
    tlc -workers 2 -config RequestLifecycle.cfg MCRequestLifecycle
    tlc -workers 2 -config VictorOrder.cfg MCVictorOrder
    tlc -workers 2 -config CasezapInbound.cfg MCCasezapInbound
    tlc -workers 2 -config QuoteManager.cfg MCQuoteManager
    tlapm WabaCampaignProofs.tla
    tlapm OperationalMonitorProofs.tla
    tlapm VictorOrderProofs.tla
    tlapm QuoteManagerProofs.tla
    tlapm CampaignDeliveryProofs.tla
    tlapm BillingLifecycleProofs.tla
    tlapm CasezapInboundProofs.tla
    tlapm RequestLifecycleProofs.tla

`PROJECT.json` names the module and the configuration of every run, the mutated
definition that makes each property fail, and the source lines of every definition.
The mutants stand in the modules before the definitions they mutate and are used
by no other definition.
