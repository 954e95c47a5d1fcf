# StockClerk in TLA+

StockClerk keeps one stock figure per product and shows it on a shop's till and
on its online sales channels. Sales arrive as webhooks from the channels; the
figure is written to a database and pushed to the other channels, online ones
with a safety buffer taken off. Nothing in the program locks a product: queues
with several slots, timers and users write the same rows and the same channels,
a channel call may fail, and a report may never come. Around this pipeline are a
REST backend with accounts, shops, plans and products, provider clients for six
platforms, sockets to the browsers and the pages that connect a shop. These
modules say what the program promises all the same, TLC checks it on small
instances, and TLAPS proves part of it for every instance.

Paths below are under `src/packages/` unless they start with `src/`.

## 1. The system

| Component | Source | State | Operations | What makes it correct |
|---|---|---|---|---|
| Sync Agent, stock rules | `sync-engine/src/agents/sync.ts`, `types.ts` | a BullMQ queue, 5 slots, the rows it writes | stock change, product, channel and full sync, start, stop | audit rows tell the stock, every channel left behind is named, no row stays open, every job ends |
| Guardian Agent | `sync-engine/src/agents/guardian.ts` | one slot, a schedule, unread alerts | reconcile a tenant: read all channels, repair small drifts, flag large ones | a repair is consistent, a large drift is not touched, a drift is dealt with in the end |
| Watcher Agent | `sync-engine/src/agents/watcher.ts` | a webhook queue | read webhooks line by line, emit stock changes | a webhook's lines become changes all together or not at all |
| Alert Agent, backend alert jobs | `sync-engine/src/agents/alert.ts`, `backend/src/sync-integration.ts`, `backend/src/routes/alerts.ts` | two queues, event handlers, rules in memory, the alerts table | check, look, create; read, delete, post | what lasts is told; a second alert only by a race |
| Sync Engine, event bus | `sync-engine/src/engine.ts`, `events.ts` | the four agents, one Redis connection, listeners | start, stop | all agents or none |
| Tenant orchestrator and worker | `sync-engine/src/orchestrator/` | a Map of child processes, timers; per-tenant queues | discover, spawn, restart, stop, ping; route jobs | one living process per active tenant |
| Backend stock pipeline, queues | `backend/src/sync-integration.ts`, `queues/index.ts` | three queues, a timer | the webhook, push and alert jobs, reconciliation | a stock that was written is pushed, channels converge |
| Webhook routes | `backend/src/routes/webhooks.ts` | a cache of channels | match, answer, queue | a notice reaches the channel that is there now |
| Product and sync routes | `backend/src/routes/products.ts`, `sync.ts` | products, mappings, sync requests | create, change, map, import, ask for a sync | SKUs, external ids and mappings stay in order whatever overlaps |
| Channel routes, OAuth, marketplaces | `backend/src/routes/channels.ts`, `wix-marketplace.ts`, `eposnow-appstore.ts` | channels, OAuth states in Redis | connect, switch, delete, install, remove | one flow one shop, of the tenant that began it; a removed app is quiet |
| Auth | `backend/src/routes/auth.ts` | tenants, users, reset links | register, log in, forgot, reset | a dead link stays dead |
| Billing | `backend/src/routes/billing.ts` | plan, Stripe ids | checkout, portal, Stripe's events | the plan is the one that was paid for last |
| WebSocket hub, frontend sessions | `backend/src/websocket/index.ts`, `frontend/src/hooks/useWebSocket.ts`, `api/client.ts`, `stores/authStore.ts`, `App.tsx` | connections by tenant; two clients, reconnect counters, a session in two copies | connect, ping sweep, reconnect, log in, expire | a connection is listed as long as it lives |
| Onboarding pages | `frontend/src/pages/Onboarding`, `Connect` | a wizard's step, timers | choose, connect, import, finish | an import ends |
| Providers, rate limiter, retry | `integrations/src/` | a connection, a token, request counters | connect, set levels, read catalogs, read notices; register | an item asked for is answered for once and truthfully, or has an excuse that is known |
| Product mapper | `sync-engine/src/services/productMapper.ts` | overrides | match two catalogs | no product matched twice |

How they interact. A webhook route answers 200 and queues a report. **Without
tenant isolation** the backend's own workers take it: one job writes the
product's stock and queues a push, a push job writes the channels, and a timer
compares channels with the database. **With isolation** the orchestrator forks a
child per tenant and routes jobs to it by IPC. The four agents of the **Sync
Engine** are a second implementation of the same service: the Watcher turns
webhooks into stock-change events, the engine's bus hands them to the Sync
Agent's queue, the Guardian runs on a schedule and the Alert Agent listens. At
this commit nothing in the backend creates a Sync Engine, and the processors of a
tenant worker only log; the agents are exported, tested and modelled as what they
are, a library. All of them reach shops through a provider, one object per job.
Browsers see the rest: routes over one database, and sockets that tell them when
to look again.

What is hard: slots that interleave at every `await`; values read before an
`await` and written after it; retries that repeat what was already done; a crash
between two writes; late messages and exits of child processes; timers that
start the next run before the last one ended; reports, answers and events that
are lost, repeated or out of order; two copies of one fact. `PROJECT.json` lists
these hazards at their lines.

## 2. The modules

One action is what the program does between two awaits. The data are small
numbers and model values; texts, events to the browser and logs are left out
unless a property needs them.

| Module | Models |
|---|---|
| `StockRules` | which channels are online, and the stock a channel should show (`calculateOnlineStock`, `isOnlineChannel`) |
| `SyncAgent` | the Sync Agent with its BullMQ queue: every operation, retries with delay, stalled jobs, start and stop |
| `GuardianAgent` | the reconciliation job; whoever else writes is the open action `Others` |
| `StockEngine` | the two together on the same variables: the Sync Agent refines `Others` |
| `TenantOrchestrator` | the orchestrator, its timers, and the child processes as it sees them |
| `BackendSync` | the backend's webhook, push and reconciliation jobs, the queues between them, and the routes that feed them |
| `EngineLifecycle` | `start()` and `stop()` of the engine, the agents in its fields and those a later `start()` overwrote, its Redis connection and its listeners |
| `Alerts` | extends `EngineLifecycle`: the Alert Agent, the backend's alert jobs and the alert routes over one table |
| `Realtime` | the hub and its ping sweep, the two socket clients of a tab, its session, guards and onboarding import |
| `Accounts`, `Shops`, `ProductRoutes`, `Billing` | the handlers of the routes above; `Billing` has Stripe as its environment |
| `Tenancy` | the four together: sessions, cascades and ids across the tables |
| `UpdateContract` | what a provider owes to whoever asks it to set stock levels (an abstract specification) |
| `ChannelSession`, `ChannelBatch`, `ChannelCatalog` | a provider's connection and token; setting levels through rate limiter and retry; reading a catalog by pages |
| `ProviderManager`, `WebhookIntake`, `Watcher`, `ProductMapper`, `TenantQueues`, `Onboarding` | the registry of providers; the webhook receivers with cache, queue and handlers; the Watcher's jobs; the matching; the jobs of an isolated tenant; the pages that connect a shop |
| `Integrations` | the last nine, one of them at work in a behaviour |
| `...Proofs` | theorems |
| `MC...` | constants for TLC |

`map` in `PROJECT.json` names the source lines of every definition. How state
corresponds to the code:

**SyncAgent.** `run[w]` is the activation record of the job in slot `w`, its `pc`
the await it is about to make; `jobState`, `waiting`, `attempts` and `stalls` are
BullMQ's; `audit` is `sync_events`, `dbStock` is `products.current_stock`,
`chanStock` what a channel shows. A failing statement is `DbError`, which runs the
`catch` block that surrounds the await (`Raise`); `LostReply` is a statement that
took effect and still reports an error; `Crash` leaves active jobs locked until
BullMQ finds them stalled. Two histories are kept for the properties: `switched`,
the channels that were switched off and on, and in each row `try`, the attempt of
its job that wrote it.

**GuardianAgent.** `g` is the activation record. `judge` is the synchronous part
of `checkProductDrift`; the repair writes the database, then each channel, and a
failed channel makes the outcome `unrepaired`. `reconcileChannel` has no caller
and is left out. `disturbed` is a history variable: it says that someone else
wrote since the job took up the current product, so that properties can speak of
repairs nobody interfered with.

**TenantOrchestrator.** `worker` is the Map, `proc` the operating system's
processes with their undelivered messages, `backoff` counts pending restart
timers and `poll` is the discovery runs under way (two, as `setInterval` does not
wait). `clocked` is chosen once: if it is true, `age` and `sinceCheck` count ticks of
10 s, and a health check is due every `CheckEvery` of them; if not, checks never come
due, which leaves the other timers room for faults.

**BackendSync.** `reports` and `pushes` are bags of waiting jobs: retries and
concurrent slots leave no order. `h`, `w` and `g` are the slots' activation
records. A report's changes are processed one by one: write the stock, queue the
push. `failed` is BullMQ's failed set, kept for seven days. `Sealed` are the
channels whose credentials are stored encrypted (see the findings). `unread` is
history: the places a report has changed and no push has read since.

**Alerts.** A *runner* is whoever can be between looking for an unread alert and
inserting one: a slot of the agent, a slot of the backend, a call of an event
handler; `task[r]` is what it is doing. The table is counted by subject (`unread`,
`read`), as the rows of a subject differ in wording only; `byHand` counts what
users posted or marked unread, so that the rest is the program's doing. The
engine's `state`, agents, connection and listeners are `EngineLifecycle`'s, where
`orphans` are the agents that a `start()` overwrote while they had not been stopped and
`threw` remembers that an agent's `stop()` threw.

**Realtime.** `sock` is the browser's end of a socket, `srv` the server's, and
either learns of the other's end in its own time; `entries` is
`connectionsByTenant`, keyed by the id made of user and millisecond (`sameMs`).
`timers`, `attempts` and `current` are a client's reconnects; `store` and `token`
are the two copies of a session.

**Tenancy.** A request is a slot (`call`, `handler`, `request`, `checkout`) that
advances by one action per await and remembers what it read; tables are
functions from ids to rows, unique indexes and foreign keys act in the write.
`dead`, `made`, `starter`, `removed`, `gone` and `muddled` are history: links that
must not serve again, how many shops each OAuth flow made and for which tenant it was
begun, sites whose app is off, ids of deleted rows, tenants of whom a completed checkout
was lost or applied out of turn. No action reads them but to give out new ids. As in
the code an OAuth state holds the tenant and not the provider, and every provider's
callback takes it; a subscription carries no tenant, so that of Stripe's events only
`checkout.session.completed` finds one.

**ChannelBatch and the rest.** `call[r]` is a request as it passes renewal, PQueue and
withRetry, for an item or for `Whole`, the one request of a bulk update; `step` is
which of an item's requests is being made (look up, set, availability), `names` the
product the item's `externalId` names. `Behind(i)` are the items that wait for each
other: at Wix those of one product, which share one `try`, in the loops of Otter,
WooCommerce and Uber Eats all, at Eposnow and Shopify none. Eposnow and Uber Eats
renew their token before the queue and outside the retries, Wix at each attempt in its
slot. `underway` and `taken` separate what the shop was sent from what it has;
"dropped" is a request that is never made, or never answered for. `ChannelCatalog` has
one `reader` per loop of a client and the shop's `catalog` moving under it.
`WebhookIntake` has the channels' `rows`, the receiver's `cache`, the queue and the
handlers. The others are as their header comments say.

## 3. What TLC checks

| Run | Question | Answer |
|---|---|---|
| `sync_faults` | one slot, every operation, two faults of any kind | audit rows tell the stock held; a channel left behind is named in the errors; one failing statement orphans no row |
| `sync_settles` | two slots, failures, crash, stop | every accepted job completes or is given up |
| `engine_drift` | Guardian and Sync Agent together, a lost report | undisturbed repairs are consistent and small; a drift is dealt with again and again until it is gone |
| `orch_lifecycle` | discovery, crash, hang, sign-up, suspension, overdue stop, stop; health checks at the code's intervals | one process per tenant unless a graceful stop timed out; active tenants are served, inactive ones stopped; a child that answered once and hangs is killed |
| `orch_health` | health checks at the code's intervals, one fault | **violated**: a child that answers every ping is killed |
| `backend_pipeline` | the pipeline with two events of any kind | a written stock is never forgotten; channels converge or alerts go on |
| `backend_sealed` | the pipeline on credentials as the routes store them | **violated**: channels never follow |
| `alerts_raised` | agent, backend, handlers and users over one table; the engine starts, fails, stops, starts again | duplicates come from races only; an engine runs whole or is stopped and quiet, with no agent beside its fields unless an agent's `stop()` threw; what stays low is told again and again |
| `realtime_sockets` | logins, logouts, expiry, dead links, stops and starts of the backend | open sockets are listed, dead ones leave, clients of a dead backend give up, an import ends |
| `realtime_refused` | a token that expired | **violated**: the login page sends the user away again |
| `tenancy_requests` | requests on accounts, shops, products and plans that overlap and fail half way | dead links stay dead, an OAuth state opens one shop, of the tenant that began the flow, at whichever callback; a removed app is quiet; what was paid for last is served; the catalogue stays in order |
| `integrations_at_work` | each part of `Integrations` at work | providers implement `UpdateContract`, excuses included; steady products are read; notices follow the channels there are |

**Bounds.** One mapped product suffices where properties are per product and jobs of
different products share nothing but slots; `SyncAgent` adds a deleted one. In
`sync_faults` the two online shops are of one kind and interchangeable, and a channel
may be switched off and on again. Channels are a till and one or two online shops, the
only distinction the code makes. Stocks go up to 2, so that the buffer of 1 clamps at
zero and a drift can be below, at and above the limits (the thresholds of 5 are 1 and
2 here). Each fault has a bound of its own, `FewFaults` bounds their sum to two: one
fault and one more while the first is being handled. Two slots show interleavings; one
slot is used where the property speaks of one. `BackendSync` counts all that happens
in one `events` (2; three events with two report slots are some four million states
and add no behaviour that is not in the theorem), `Alerts` and `Realtime` likewise
(3); four calls of `start` and `stop` are what it takes to start again after a
`stop()` that threw. The orchestrator's `CheckEvery` and `PongWindow` are the code's
30 s and 20 s in ticks of 10 s; while the clock runs, faults and requests together are
`MaxFaults`. `MCTenancy!Allowed` lists how many requests of each kind a behaviour may
have: five account requests (a link asked for twice, used twice, and a login), three
about shops (begin, return, return again; or install, remove, install), three dealings
with Stripe, a shop and three requests about products, and mixtures, since a shop
needs a session and a deleted shop takes its mappings with it; two of a kind are in
flight at once, the fewest that overlap. In `Integrations` the parts share no state,
so that a behaviour shows one of them. Two items, one retry, two slots and a cap of
one per interval make every branch of a batch happen; `MCNamings` lets the two items
name one product, two, or a product and none. Four products in pages of two give an
inner and a last page; two notices of a platform are what a cache needs to go stale.
`Pipe` bounds the messages between orchestrator and process, `MaxShops` the shops a
wizard makes. The theorems have none of these bounds.

The webhook queue retries five times and the sync queue three. `backend_pipeline`
has one attempt for reports, so that the failed set is reached with one failure,
and two for pushes; `NothingForgotten` is proved for any number.

**Fairness.** Assumed of what the event loop, BullMQ and the network do by
themselves: a slot goes on with its job and takes waiting ones, delayed jobs are
promoted, stalled ones recovered, timers fire, children boot, shut down and
deliver their messages; a query that was made returns, a call of the engine's
`start` or `stop` goes on; a request that was sent is answered or times out; both
ends of a socket hear of a close the network tells them of, and a refused query
redirects. Weak fairness, as none of these is taken back once enabled; strong
fairness of the Guardian's schedule, because a triggered job may hold its only
slot whenever the timer fires. `ChannelBatch` needs only that the client goes on
with a request in some way (`ClientStep`), as attempts are bounded. Nothing is
assumed of sales, users, faults, hangs, dead links or discovery errors; as they
are bounded, liveness properties speak of what follows the last of them.
`LowStockAlerted` exempts tenants whose own queries keep failing (`Flaky`), not
those served by the same job.

**Deadlock** is checked except in the runs whose environment asks for a fixed
number of requests, jobs or events and then stops.

**Abstract specification.** `UpdateContract` says what a provider owes in five
variables: the platform, what was asked, what product each item names, what the shop has
taken and what the caller was told. An item is told of at most once, as a success only
when the shop has the level, and in the end, unless it has an excuse: a batch of
Eposnow's that is rejected as a whole before anything was told of it; a Wix update
behind a failed one of its product, or without a product; an item that Otter's answer to
a batch leaves out. `ChannelBatch` shows through `Contract == INSTANCE UpdateContract
WITH told <- ...` that clients, PQueue, `withRetry`, token renewals and the batch
strategies keep it (`AnswersKept`), for each of the six platforms.

`GuardianAgent` leaves its surroundings open (`Others` may write any level), and
`StockEngine` puts the Sync Agent there. That the engine's steps are steps of the
Guardian in such surroundings carries the theorems over (`EngineIsGuardian`, a lemma);
as a property of the engine it would say little more than its types, and no run
checks it.

`ProductMapper` compares its Levenshtein distance, written as rows of a table as
the code does, with the best of all alignments of the two names, in an assumption
TLC evaluates.

## 4. What is proved

For all products, channels, tenants, slots, items and bounds, from the named
assumptions on the constants only:

- `SyncAgentProofs!TypeCorrect`: the type invariant. Not inductive alone: reading
  a job's data needs the job to be an accepted one and the slot to be in a branch
  of its operation (`QueueOK`), settling a row needs the slot to hold one
  (`RunsOK`). The invariant is their conjunction.
- `SyncAgentProofs!NoRowIsOrphaned`: without crashes and lost replies one failing
  statement leaves no audit row in `processing`. The strengthening follows the
  number of failures so far: with none, every row in `processing` is held by the
  slot that created it; the first failure settles the row of its slot in the
  `catch` block.
- `StockEngineProofs!TypeCorrect`, `RepairsAreConsistent`, `LargeDriftsStay`: of the
  Guardian in any surroundings. `Located` says which fields of the record mean
  something at which `pc`, `Faithful` that, undisturbed, what was read is what is
  there and that the channels done so far show what they should. `LargeDriftsStay` is
  an action property from the same invariant.
- `StockEngineProofs!EngineKeepsGuardian`: the Guardian's theorems of the composed
  engine, by way of the lemma `EngineIsGuardian`. A step of the Sync Agent, a switched
  channel and a sale change the database or the channels of the product at hand only
  as `Others` may and set `disturbed` when they do; a step of the Guardian leaves the
  Sync Agent's invariant alone, which shows the levels read are levels (`EngineInv`).
  Thereby the three theorems above hold of the engine.
- `BackendSyncProofs!TypeCorrect`: among others, that an online shop is never
  given a negative stock although the database holds negative ones.
- `BackendSyncProofs!NothingForgotten`: for every place in `unread` there is a job
  that answers for it. With the type invariant it is inductive: writing a stock
  leaves its report active; queueing the push hands the place on to the push, and
  the remaining changes stay with the report; a failure at either point puts the
  report back or in the failed set; a push that reads takes exactly its targets
  out of `unread`; a crash returns every held job to its queue.
- `TenantOrchestratorProofs!OrchestratorTypeOK`, `NoTenantHasTwo`: from
  `WorkerAssumption` (the code's own values for "none" are no processes). The
  invariant pairs entries and processes one to one, dead processes included until
  their exit was handled (`Paired`), and says what `stop()` still waits for
  (`Drained`). Both hold until a graceful stop is given up, which is the case
  `NoStrayProcess` excludes and the code gets wrong (section 5).
- `TenantOrchestratorProofs!OnlyTheWindowKills`: whom the health check ends, for any
  intervals and as long as no graceful stop was given up: a child that hangs, or one
  that is up and has answered every ping, and the latter only where the window for a
  pong is shorter than the checks are apart. No interleaving of restarts, late
  messages and stops makes it end the worker of another tenant or one it did not ask.
  A running child that answered once and has not hung has answered since the last
  check, or that check's ping is still in its pipe, no time has passed and its last
  pong is one interval old at most (`Healthy`): the pipe counts as much as the Map.
  With the code's numbers the window is shorter, and `orch_health` shows what follows.
- `IntegrationsProofs!BatchInvariant`, `BatchImplementsContract`: the counts of an
  item follow its request (`Counted`), while a bulk request is out or waits for its
  token no item has one of its own (`BulkAlone`), and levels leave only of items that
  were asked for (`Bounded`). From these every initial state of `ChannelBatch` is one of
  `UpdateContract`, and every step a step of it or a stutter; where an item is given up,
  the step that gives it up is the one with the excuse: at Wix the failure of another
  item of its product, at Eposnow the rejection while nothing else was told.
  `ProvidersKeepContract` says the same of the composition.
- `IntegrationsProofs!CatalogsAreRead`: while none left, a loop over positions has
  read every steady product that now stands at or before its position: new products
  only move the others back, to be read once more (`ReadSoFar`). Shopify's has all up
  to its last id.
- `IntegrationsProofs!NoticesGoToOwners`: what the cache holds is looked up again among
  the rows before a notice is given to its tenant, so that it may be as stale as it
  likes. An action property.
- `IntegrationsProofs!IntegrationsTypeOK`: each part's type invariant needs a
  strengthening of its own. `TenantQueues` has to know that only jobs that ended
  are reported as ended and that a dead child has no mail; `WebhookIntake`, at which
  stages a notice has a tenant (`NoticesOK`) and the Watcher, that a job which goes
  on has an attempt left (`WatchInv`); `ProviderManager`, that whoever is being
  connected has a key to be registered under (`ManagerInv`).
- `TenancyProofs!CatalogueAlwaysHolds`: what a request read before is of no
  account, the indexes and foreign keys decide; given that rows have their
  columns, the property is inductive by itself.
- `TenancyProofs!DeadLinksNeverUsed`: a call that is about to use a link looked at
  it when it was alive or is the call that kills it (`CallsOK`), and links that
  are dead are spent, expired or superseded in the table (`DeadAreSpent`).
- `TenancyProofs!RemovedAppStaysQuiet`: handlers of an installation hold ids no
  other row was given (`GoneApart`), and a site counted as removed has no handler
  that could still switch a channel on (`HandlerSound`).
- `TenancyProofs!FlowsAlwaysApart`: what a flow has made, the states still in
  Redis and the callbacks that hold one add up to one at most (`OneHolds`), and a
  channel carries the tenant of the flow that made it (`ChannelsTrace`), whichever
  provider's callback made it. What a callback knows of the tenant it has from the state
  in Redis, and that is the flow's (`CallbackSound`).
- `TenancyProofs!PaidAlwaysServed`: a subscription has been on no plan but those its
  events tell (`LogInv`), and while a later completed checkout of a tenant is taken up
  no earlier one is being applied, unless the tenant counts as `muddled`
  (`HooksFirst`): so whenever the newest is done with, it was the last to write
  (`NewestServed`).
- `TenancyProofs!TenancyTypeOK`: what a request remembers is of the kind it will
  write, whichever await it has come to.
- `AlertsProofs!EngineIsWhole`: the state names the call under way (`CallTold`),
  connection and statistics come and go together (`OneLife`), and the agents
  before a starting call's place run while those after a stopping one's are gone
  (`UnderWay`). As long as no agent's `stop()` threw, the fields `start()` has yet to
  write are empty (`FieldsFree`), so that it overwrites nothing. A `stop()` that threw
  leaves agents in the fields, and the next `start()` orphans them: the code leaks
  there, and the theorem says that it leaks nowhere else.
- `AlertsProofs!OnlyRacesDuplicate`: inductive by itself once tasks have their
  fields (`RaceInv`): a runner begins an insertion only when it saw nothing unread,
  so that unread alerts and insertions count each runner at most once.
- `AlertsProofs!AlertsTypeOK`: the bound of the agent's queue is not inductive
  by itself: the periodic jobs that wait and the slots at work together never exceed
  what the timer may add and the slots (`QueueFits`), which a crash that gives every
  job back preserves.
- `RealtimeProofs!OpenSocketsAreListed`: an entry holds a socket that has its id
  (`Paired`), a socket shares an id with another only when it counts as collided
  (`Twins`), and only an open socket can be collided with (`Latest`).
- `RealtimeProofs!RealtimeTypeOK`: on the invariant of the hub above.
- `SyncAgentProofs!AuditTellsAlone`, `ErrorsAccountAlone`: what `sync_faults` checks
  of one slot, for any number of slots and one product at a time: as long as no two
  slots are at product `p` together (`Alone(p)`), `AuditTells(p)` and
  `ErrorsAccount(p)` hold, whatever the slots do at other products and however they
  overlap there. With the default five slots the code does not grant `Alone(p)`, and
  where two slots meet at a product both properties are false (section 5); the
  theorems say that nothing else breaks them, neither the other four slots nor any
  failure, lost reply, crash or retry. The proof has two invariants. `BookInv` needs
  no hypothesis: a job is on one list at a time and in one slot, a row is of an
  attempt that began, and the row a slot holds is its own attempt's, about the product
  it is at. `ProductInv(p)` is kept by every step from a state in which `p` is alone:
  the row of `p` that a slot holds is the newest about `p`, a stock change that has
  come to its channels is what the database holds, the slot knows at every await which
  channels are still to come, and those it passed show what they should or are among
  its errors. Of the newest row `Accounted` says at any time that a channel behind it
  is noted, or its job is not over, or a sale of that channel is still to be worked
  off. `AuditAlwaysTells` and `ErrorsAlwaysAccount` say the same of all products at
  once, in the words of the properties.

Only model-checked is what is temporal, as liveness under fairness and `ENABLED` are
beyond the prover: `EveryJobSettles`, `DriftIsDealtWith`, `ActiveServed`,
`InactiveStopped`, `HungIsKilled`, `ChannelsConverge`, `LowStockAlerted`,
`DeadEntriesLeave`, `GivesUp`, `ImportEnds` and the liveness part of `AnswersKept`.
Every invariant and every action property of a passing run is a theorem
(`AuditTellsStock` and `ErrorsAccountForDivergence` while no two slots share a
product). Modules with proofs use no recursive operator: `ProductMapper`'s distance
and other recursions are recursive functions, of which only the type is proved, as
induction over data is not to be had.

## 5. Where the code and its documents part

Shown by a run:

1. `backend_sealed`: routes store credentials as `iv:tag:ciphertext`
   (`backend/src/routes/channels.ts:64`), the pipeline parses the column as JSON.
   Every channel call of the backend fails, pushes are logged and swallowed, drifts
   unseen. `backend_pipeline` is therefore about the pipeline on credentials it
   can parse, which no route of this commit stores: it shows that nothing else
   stands in the way.
2. `realtime_refused`: "Redirect to login if not already there"
   (`frontend/src/api/client.ts:231`). The interceptor clears the stored token but
   not the persisted session, and the login page sends a user with a session back
   to the dashboard, whose queries are refused again.
3. `orch_health`: "Check if worker is responding" (`TenantOrchestrator.ts:552`). Pings
   go out every 30 s, a pong may be at most 20 s old at the next check (line 555,
   `types.ts:203`): a worker that answers each ping at once is killed at the check after
   its first pong, restarted, and killed again at every second check.

Read off the code, where a property's condition excludes it or no run is about it.

*Stock.*

- Two jobs of one product interleave between database and channels in the Sync
  Agent's five slots and leave channels with different stocks, though "performs
  multi-channel atomic updates" (`agents/sync.ts:3`); a job retried after a newer
  one writes the older quantity (`sync.ts:235`).
- The errors of channels are collected in the attempt: if a later statement fails,
  the attempt is repeated from the start, and when the repetition no longer comes
  to a product (its channel was switched off meanwhile) nothing names the channels
  it left behind (`sync.ts:318`). A channel switched off and on again is caught up
  by the next change or the Guardian only.
- The Guardian writes to the database a stock it read some awaits ago
  (`guardian.ts:817`); once the channels agree, no later reconciliation looks at
  it. In its scheduled job one tenant's failure ends the job for the tenants after
  it (`guardian.ts:300`).
- Sales carry the negated quantity in `newQuantity` (`eposnow/webhooks.ts:236`),
  which `processWebhookJob` stores as the stock (`sync-integration.ts:643`). Of an
  order with several items only the first counts (Eposnow, Shopify, WooCommerce).
- A level reported by an online channel is stored as it is, although the channel
  shows the stock less the buffer (`sync.ts:663`, and in the backend); each echo of
  a push shrinks the stock by the buffer.
- The backend's reconciliation overwrites the till with the database, though the
  till is the "source of truth" (`src/docs/MARKETPLACE_LISTING.md:134`); one failing
  channel write ends the run for all tenants.
- A webhook delivered twice is processed twice. The Watcher computes a sale from a
  stock read earlier (`watcher.ts:359`); its poll of the till is never started, and
  would take its timestamp after the transactions were processed (`watcher.ts:757`).
- Full and channel syncs requested through the API queue jobs that push nothing;
  `POST /sync/product/:id` with one `channelIds` entry skips just that channel, as
  the source; `PUT /products/:id/stock` and a PATCH of `currentStock` are pushed by
  no job.

*Orchestrator and isolation.*

- A child that hangs before its first pong is never looked at by a check
  (`TenantOrchestrator.ts:553`); `ActiveServed` excepts it (`Silent`).
- `handleChildExit` finds the worker by tenant (`TenantOrchestrator.ts:515`): after
  an overdue stop the late exit of a killed child is taken for its successor's, and
  a tenant gets two processes, though each has its "own child process" (line 5).
- `restartCount` lives in an entry that every restart replaces (line 284): neither
  the limit of ten nor the growing backoff of `src/PROJECT_STATUS.md:247` takes
  effect. A `ready` after a stop was asked for makes the clean exit look like a
  crash.
- No route uses `routeSyncJob` or `routeWebhookJob`: with isolation, routes queue to
  the global queues, which nobody serves. A job sent to a process that died is
  lost, the processors only count and report, and the guardian timer only announces
  `sync_started`.

*Providers.*

- WooCommerce's `getProducts` takes `totalPages` from the request's defaults: only
  the first hundred products are read. Shopify's import keeps the variant's id,
  which `updateStock` then uses as `inventory_item_id` (`shopify/client.ts:176`).
- `processWebhookJob` makes the Shopify provider without a webhook secret, so that
  its webhooks are ignored (`shopify-provider.ts:151`). Its detection of duplicates
  lives in the provider object, of which each job makes a new one, and looks for
  the header in the body. The receivers' names of events differ from the
  handlers', WooCommerce's handler expects a `data` the receiver does not add, and
  Otter's "available again" becomes a stock of 0 (`otter-provider.ts:262`). The
  variants of a Wix product share one mapping.
- Wix' `connect` cannot reach its refresh, and refreshed tokens are never stored.
- In a Wix batch the updates of one product are made one after the other in one `try`:
  those behind a failed one are neither made nor named in the errors, and updates
  without a product are passed over (`wix/client.ts:447`). A refused renewal rejects
  Eposnow's whole batch without a `SyncResult` (`eposnow/client.ts:249`). What Otter's
  answer leaves out is not counted (`otter/client.ts:365`).
- A token renewal under way when a provider is disconnected gives the client a token
  again. Otter, Shopify and WooCommerce send their keys on after a disconnection.
- Each client has a limiter of its own, so that two jobs of a channel do not share
  one; retries are not counted, and every error is retried. Otter's batch sets the
  stock only, its single update the availability too.
- Two tenants with one external id: `findFirst` takes either.
  `ProviderManager.addProvider` under a key in use leaks a connected provider, and
  `clear` misses one that is being added.
- The mapper's overrides are kept by the names of channels.

*Alerts.*

- A `stop()` whose agent throws leaves the engine in `error` with agents in its
  fields; the next `start()` overwrites them and they work on beside the new ones
  (`engine.ts:158`). A `start()` after a full `stop()` fails at the Guardian, whose
  Redis connection is closed, and so does its cleanup, which leaves the Watcher and
  the Sync Agent running.
- Custom rules are never applied by the agent (`alert.ts:311`), and live in memory.
  Sync failures are always retryable (`sync.ts:387`), so that none raises an alert.
  Two checks at once create an alert twice, and so does marking one unread. A
  failing statement in an event handler is an unhandled rejection.

*Sockets and pages.*

- Two connections of a user in one millisecond get one id (`websocket/index.ts:102`).
  `emitStockUpdated` sends twice to subscribers of everything (line 412); its event
  names are not those `useWebSocket` knows, nor the place of the room in a
  `subscribe`.
- A socket refused with 4001 is reconnected for ever by the hook, whose unmount
  also schedules a reconnect; `wsClient` survives a logout; each import opens
  another socket. `refreshToken` is never used.
- Going back in the wizard and connecting a second shop skips its import; an import
  without a shop counts as complete; the buffer is never saved. On the Eposnow page
  a retry after a late creation makes a second channel, and a retry after a failed
  one registers an address that exists.

*Accounts, shops, plans.*

- Reading and deleting an OAuth state are atomic only because there is one Redis
  connection; a second return of a flow exchanges its code and then fails on null.
  Callbacks always insert a channel, `planShopLimit` is enforced nowhere, and the
  Wix callback is behind the session check.
- A Checkout's metadata are on the session only (`billing.ts:209`): the handlers of
  later events look for a tenant in the subscription's (389, 445) or the invoice's (468)
  and break off. A changed, unpaid or cancelled subscription never shows in the
  tenant's plan, which `PaidIsServed` therefore says nothing of. Two checkouts at
  once make two customers; an event whose update failed is acknowledged
  (`billing.ts:494`), and a checkout taken up late overwrites a later one.
- An OAuth state holds tenant and time only (`channels.ts:40`) and no callback asks
  whose it is: the redirect of a flow begun for one provider is accepted by another's.
- `forgot-password` lowers the case of an address, `register` does not. A reset does
  not look at its link again. Installations have no transaction and may leave a tenant
  without a shop (`eposnow-appstore.ts:208`): user and channel are inserted in two
  awaits (220, 233), and the retry of a request that failed between them is answered
  409. A failed uninstall of the Wix app is answered 200 (`wix-marketplace.ts:304`)
  and so never repeated.
- Requests that look before they write end in a 500 when they lose the race; one
  race maps a product twice to a channel; a mapping's channel is not looked up; a
  PATCH of a deleted product answers 200 with nothing.

## 6. Not modelled

- E-mails, whose result no route waits for; tests and deployment.
- Of the routes: dashboard, admin, enquiries and health, which are single queries.
- Of the hub: broadcasts and rooms other than what ends an import. Of the
  frontend: views over the REST API.
- Of the providers: orders, registration of webhooks, single reads. Of the
  limiter: delays and jitter; the three wrappers of `retry.ts` no client uses.
- The Guardian's uncalled `reconcileChannel`; the Watcher's poll, which nothing
  starts; getters of status and statistics; events for the dashboard.
- Products and mappings that change while stock jobs run (a deleted product is in
  `SyncAgent`); time, except between health checks.
- Six hazards have no property, as the code does not keep what one would say: two jobs
  of one product in two slots (`sync.ts:443`), an older change retried after a newer
  one (`sync.ts:502`, `sync-integration.ts:668`), a repair that overwrites a sale
  (`guardian.ts:817`), a report that was answered and not queued (`webhooks.ts:258`),
  a job routed to a dead process (`sync-integration.ts:1129`). Their notes in
  `PROJECT.json` say what holds all the same.

## 7. What could follow

1. The composition of `WebhookIntake` and `BackendSync`: from a notice to the last
   channel, with the duplicates of the first feeding the second.
2. `TenantQueues` over `TenantOrchestrator`, so that jobs and processes restart
   together.
3. The rooms of the hub, and the dashboard's queries they invalidate.
4. What is left of the account of a channel when two slots work on one product.
